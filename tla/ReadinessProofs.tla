-------------------------- MODULE ReadinessProofs --------------------------
(***************************************************************************)
(* Safety of the readiness flag for any number of threads and any number   *)
(* of token ids.                                                           *)
(***************************************************************************)
EXTENDS Readiness, TLAPS

\* The id k steps after next_id is an id again: the wrap-around of fetch_add.
LEMMA IdAtType ==
  ASSUME next_id \in Nat, NEW k \in Nat
  PROVE  IdAt(k) \in Ids
  BY ModulusAssumption DEF IdAt, Ids

\* The invariant holds of a new flag.
LEMMA InitTokenInv == Init => TokenInv
  <1> SUFFICES ASSUME Init PROVE TokenInv
      OBVIOUS
  <1>1. 0 \in Ids /\ 1 \in Ids
    BY ModulusAssumption DEF Ids
  <1>2. TypeOK
    BY <1>1 DEF Init, TypeOK, Labels, Ops
  <1>3. LockExcludes
    BY DEF Init, LockExcludes
  <1>4. ReadyDrainsTokens /\ UniqueTokens
    BY DEF Init, ReadyDrainsTokens, UniqueTokens
  <1> QED
    BY <1>2, <1>3, <1>4 DEF Init, TokenInv

\* Every step of a caller keeps it.
LEMMA NextTokenInv == TokenInv /\ [Next]_vars => TokenInv'
  <1> SUFFICES ASSUME TokenInv, [Next]_vars PROVE TokenInv'
      OBVIOUS
  <1> USE DEF TokenInv, TypeOK, LockExcludes, ReadyDrainsTokens, UniqueTokens, Labels, Ops
  <1>1. ASSUME NEW p \in Procs, NEW call \in {"is_ready", "wait_ready"},
               CallIsReady(p, call)
        PROVE  TokenInv'
    BY <1>1 DEF CallIsReady, Goto
  <1>2. ASSUME NEW p \in Procs, CallSubscribe(p) PROVE TokenInv'
    BY <1>2 DEF CallSubscribe, Goto
  <1>3. ASSUME NEW p \in Procs, NEW q \in Procs, CallMarkReady(p, held[q])
        PROVE  TokenInv'
    BY <1>3 DEF CallMarkReady, Goto
  <1>4. ASSUME NEW p \in Procs, TryLock(p) PROVE TokenInv'
    BY <1>4 DEF TryLock, Goto
  <1>5. ASSUME NEW p \in Procs, AcquireLock(p) PROVE TokenInv'
    BY <1>5 DEF AcquireLock, Goto
  <1>6. ASSUME NEW p \in Procs, LockTimeout(p) PROVE TokenInv'
    BY <1>6 DEF LockTimeout, Goto
  <1>7. ASSUME NEW p \in Procs, IsReadyLocked(p) PROVE TokenInv'
    <2>1. TypeOK'
      BY <1>7 DEF IsReadyLocked, InCritical, Goto
    <2>2. LockExcludes'
      BY <1>7 DEF IsReadyLocked, InCritical, Goto
    <2> QED
      BY <1>7, <2>1, <2>2 DEF IsReadyLocked
  <1>8. ASSUME NEW p \in Procs, SubscribeLocked(p) PROVE TokenInv'
    <2>1. CASE ready
      BY <1>8, <2>1 DEF SubscribeLocked, InCritical, Goto
    <2>2. CASE ~ready
      <3>1. PICK k \in Ids :
              /\ FreshAt(k)
              /\ tokens' = tokens \cup {IdAt(k)}
              /\ held' = [held EXCEPT ![p] = IdAt(k)]
              /\ next_id' = IdAt(k + 1)
        BY <1>8, <2>2 DEF SubscribeLocked, InsertFreshToken
      <3>2. IdAt(k) \in Token /\ IdAt(k) \notin tokens /\ IdAt(k + 1) \in Ids
        BY <3>1, IdAtType DEF FreshAt, Token, Ids
      <3>3. TypeOK'
        BY <1>8, <3>1, <3>2 DEF SubscribeLocked, InCritical, Goto, Token
      <3>4. LockExcludes'
        BY <1>8 DEF SubscribeLocked, InCritical, Goto
      <3>5. UniqueTokens'
        BY <2>2, <3>1, <3>2
      <3> QED
        BY <1>8, <2>2, <3>1, <3>2, <3>3, <3>4, <3>5 DEF SubscribeLocked
    <2> QED BY <2>1, <2>2
  <1>9. ASSUME NEW p \in Procs, MarkReadyLocked(p) PROVE TokenInv'
    <2>1. LockExcludes' /\ locked' \subseteq Procs /\ pc' \in [Procs -> Labels]
      BY <1>9 DEF MarkReadyLocked, InCritical, Goto
    <2>2. CASE arg[p] \in tokens
      <3>1. ready' = TRUE /\ tokens' = {} /\ marks' = marks + 1
        BY <1>9, <2>2 DEF MarkReadyLocked
      <3>2. marks = 0
        BY <2>2
      <3>3. TypeOK'
        BY <1>9, <2>1, <3>1 DEF MarkReadyLocked
      <3> QED
        BY <1>9, <2>1, <3>1, <3>2, <3>3 DEF MarkReadyLocked
    <2>3. CASE arg[p] \notin tokens
      BY <1>9, <2>1, <2>3 DEF MarkReadyLocked
    <2> QED BY <2>2, <2>3
  <1>10. ASSUME NEW p \in Procs, Reload(p) PROVE TokenInv'
    BY <1>10 DEF Reload, Goto
  <1>11. ASSUME NEW p \in Procs, Broadcast(p) PROVE TokenInv'
    BY <1>11 DEF Broadcast, WatchSend, Goto
  <1>12. ASSUME NEW p \in Procs, WaitSubscribe(p) PROVE TokenInv'
    BY <1>12 DEF WaitSubscribe, Goto
  <1>13. ASSUME NEW p \in Procs, WaitObserve(p) PROVE TokenInv'
    BY <1>13 DEF WaitObserve, Goto
  <1>14. CASE UNCHANGED vars
    BY <1>14 DEF vars
  <1> QED
    BY <1>1, <1>2, <1>3, <1>4, <1>5, <1>6, <1>7, <1>8, <1>9, <1>10, <1>11,
       <1>12, <1>13, <1>14 DEF Next, Calls, Steps

\* The state of the flag is well typed and its inductive invariant holds in
\* every reachable state, for any set of threads and any modulus.
THEOREM TokenSafety == Spec => []TokenInv
  <1>1. Spec => Init /\ [][Next]_vars
    BY DEF Spec
  <1> QED BY <1>1, InitTokenInv, NextTokenInv, PTL

\* Once the flag is ready no subscription exists: what subscribe's recheck
\* under the lock is there for.
THEOREM ReadyDrainsTokensAlways == Spec => []ReadyDrainsTokens
  <1>1. TokenInv => ReadyDrainsTokens BY DEF TokenInv
  <1> QED BY <1>1, TokenSafety, PTL

\* At most one mark_ready call ever succeeds.
THEOREM AtMostOneMarkAlways == Spec => []AtMostOneMark
  <1>1. TokenInv => AtMostOneMark BY DEF TokenInv, AtMostOneMark
  <1> QED BY <1>1, TokenSafety, PTL

\* Tokens are unique among the threads, also when the ids wrap around.
THEOREM UniqueTokensAlways == Spec => []UniqueTokens
  <1>1. TokenInv => UniqueTokens BY DEF TokenInv
  <1> QED BY <1>1, TokenSafety, PTL
=============================================================================
