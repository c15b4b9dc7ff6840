----------------------- MODULE SessionRegistryProofs -----------------------
(***************************************************************************)
(* Proofs about SessionRegistry for any sets of connections and sessions.  *)
(***************************************************************************)
EXTENDS SessionRegistry, TLAPS

\* The empty registry, with every connection in its loop, satisfies RegInv.
LEMMA InitRegInv == Init => RegInv
BY NoneAssumption DEF Init, RegInv, TypeOK, ReferencesAreUsed, RemovedStaysRemoved,
   UnusedIsPristine, LoopKeepsItsSession, AttachedSessionSurvives, Labels, is_attached_to

\* Attaching keeps the invariant: a fresh id is referred to by nobody, and a
\* resumed session belongs to no loop, because every loop is attached to its
\* session (attach, session_registry.rs).
LEMMA InitializeRegInv ==
  ASSUME RegInv, NEW c \in Conns, NEW s \in Sessions, Initialize(c, s)
  PROVE  RegInv'
<1> USE NoneAssumption DEF RegInv, Initialize
<1>1. CASE AttachFresh(c, s)
  <2>1. TypeOK'
    BY <1>1 DEF AttachFresh, TypeOK, Labels
  <2>2. ReferencesAreUsed' /\ RemovedStaysRemoved' /\ UnusedIsPristine'
    BY <1>1 DEF AttachFresh, TypeOK, ReferencesAreUsed, RemovedStaysRemoved, UnusedIsPristine
  <2>3. LoopKeepsItsSession'
    BY <1>1 DEF AttachFresh, TypeOK, ReferencesAreUsed, LoopKeepsItsSession, is_attached_to
  <2>4. AttachedSessionSurvives'
    BY <1>1 DEF AttachFresh, TypeOK, ReferencesAreUsed, UnusedIsPristine, AttachedSessionSurvives
  <2> QED BY <2>1, <2>2, <2>3, <2>4
<1>2. CASE AttachResume(c, s)
  <2>1. TypeOK'
    BY <1>2 DEF AttachResume, TypeOK, Labels
  <2>2. ReferencesAreUsed' /\ RemovedStaysRemoved' /\ UnusedIsPristine'
    BY <1>2 DEF AttachResume, TypeOK, ReferencesAreUsed, RemovedStaysRemoved, UnusedIsPristine
  <2>3. LoopKeepsItsSession'
    BY <1>2 DEF AttachResume, TypeOK, ReferencesAreUsed, LoopKeepsItsSession, is_attached_to,
       has_active_connection
  <2>4. AttachedSessionSurvives'
    BY <1>2 DEF AttachResume, TypeOK, ReferencesAreUsed, RemovedStaysRemoved,
       AttachedSessionSurvives
  <2> QED BY <2>1, <2>2, <2>3, <2>4
<1>3. CASE AttachExpired(c, s)
  <2>1. TypeOK'
    BY <1>3 DEF AttachExpired, Goto, TypeOK, Labels
  <2>2. ReferencesAreUsed' /\ RemovedStaysRemoved' /\ UnusedIsPristine'
    BY <1>3 DEF AttachExpired, Goto, TypeOK, ReferencesAreUsed, RemovedStaysRemoved,
       UnusedIsPristine
  <2>3. LoopKeepsItsSession'
    BY <1>3 DEF AttachExpired, Goto, TypeOK, LoopKeepsItsSession, is_attached_to
  <2>4. AttachedSessionSurvives'
    BY <1>3 DEF AttachExpired, Goto, TypeOK, AttachedSessionSurvives, is_expired
  <2> QED BY <2>1, <2>2, <2>3, <2>4
<1>4. CASE AttachRefused(c, s)
  BY <1>4 DEF AttachRefused, registry, TypeOK, Labels, ReferencesAreUsed, RemovedStaysRemoved,
     UnusedIsPristine, LoopKeepsItsSession, AttachedSessionSurvives, is_attached_to
<1> QED BY <1>1, <1>2, <1>3, <1>4

\* Steps of a connection other than attach, detach and expiry move its pc and
\* its flags only.
LEMMA LoopStepRegInv ==
  ASSUME RegInv, NEW c \in Conns,
         ExpiredShutdown(c) \/ Initialized(c) \/ BeginRequest(c) \/ FinishRequest(c)
           \/ TransportDown(c) \/ EndLoop(c)
  PROVE  RegInv'
<1> USE NoneAssumption DEF RegInv, registry, handler, Goto
<1>1. CASE ExpiredShutdown(c)
  BY <1>1 DEF ExpiredShutdown, TypeOK, Labels, ReferencesAreUsed, RemovedStaysRemoved,
     UnusedIsPristine, LoopKeepsItsSession, AttachedSessionSurvives, is_attached_to
<1>2. CASE Initialized(c)
  BY <1>2 DEF Initialized, TypeOK, Labels, ReferencesAreUsed, RemovedStaysRemoved,
     UnusedIsPristine, LoopKeepsItsSession, AttachedSessionSurvives, is_attached_to
<1>3. CASE BeginRequest(c)
  BY <1>3 DEF BeginRequest, require_initialized_for, TypeOK, Labels, ReferencesAreUsed,
     RemovedStaysRemoved, UnusedIsPristine, LoopKeepsItsSession, AttachedSessionSurvives,
     is_attached_to
<1>4. CASE FinishRequest(c)
  <2>1. TypeOK'
    BY <1>4 DEF FinishRequest, TypeOK, Labels, ReferencesAreUsed
  <2>2. (ReferencesAreUsed /\ RemovedStaysRemoved /\ UnusedIsPristine /\ LoopKeepsItsSession
          /\ AttachedSessionSurvives)'
    BY <1>4 DEF FinishRequest, TypeOK, ReferencesAreUsed, RemovedStaysRemoved,
       UnusedIsPristine, LoopKeepsItsSession, AttachedSessionSurvives, is_attached_to
  <2> QED BY <2>1, <2>2
<1>5. CASE TransportDown(c)
  BY <1>5 DEF TransportDown, TypeOK, Labels, ReferencesAreUsed, RemovedStaysRemoved,
     UnusedIsPristine, LoopKeepsItsSession, AttachedSessionSurvives, is_attached_to
<1>6. CASE EndLoop(c)
  <2>1. TypeOK'
    BY <1>6 DEF EndLoop, TypeOK, Labels
  <2>2. (ReferencesAreUsed /\ RemovedStaysRemoved /\ UnusedIsPristine)'
    BY <1>6 DEF EndLoop, TypeOK, ReferencesAreUsed, RemovedStaysRemoved, UnusedIsPristine
  <2>3. (LoopKeepsItsSession /\ AttachedSessionSurvives)'
    BY <1>6 DEF EndLoop, TypeOK, ReferencesAreUsed, LoopKeepsItsSession,
       AttachedSessionSurvives, is_attached_to
  <2> QED BY <2>1, <2>2, <2>3
<1> QED BY <1>1, <1>2, <1>3, <1>4, <1>5, <1>6

\* The two halves of a detach: the first one only gives up what the
\* connection holds itself (SessionEntry::detach compares the id).
LEMMA DetachRegInv ==
  ASSUME RegInv, NEW c \in Conns, Detach(c) \/ UnsetSender(c)
  PROVE  RegInv'
<1> USE NoneAssumption DEF RegInv, handler, Goto
<1>1. CASE Detach(c)
  <2>0. session[c] \in Sessions /\ session[c] \in used /\ current[session[c]] = c
    BY <1>1 DEF Detach, TypeOK, ReferencesAreUsed, LoopKeepsItsSession, is_attached_to
  <2>1. TypeOK'
    BY <1>1, <2>0 DEF Detach, TypeOK, Labels, is_attached_to
  <2>2. (ReferencesAreUsed /\ RemovedStaysRemoved /\ UnusedIsPristine)'
    BY <1>1, <2>0 DEF Detach, TypeOK, ReferencesAreUsed, RemovedStaysRemoved,
       UnusedIsPristine, is_attached_to
  <2>3. LoopKeepsItsSession'
    BY <1>1, <2>0 DEF Detach, TypeOK, LoopKeepsItsSession, is_attached_to
  <2>4. AttachedSessionSurvives'
    BY <1>1, <2>0 DEF Detach, TypeOK, AttachedSessionSurvives, is_attached_to
  <2> QED BY <2>1, <2>2, <2>3, <2>4
<1>2. CASE UnsetSender(c)
  <2>1. session[c] \in Sessions
    BY <1>2 DEF UnsetSender, TypeOK, ReferencesAreUsed
  <2>2. TypeOK'
    BY <1>2, <2>1 DEF UnsetSender, TypeOK, Labels
  <2>3. (ReferencesAreUsed /\ RemovedStaysRemoved /\ UnusedIsPristine /\ LoopKeepsItsSession
          /\ AttachedSessionSurvives)'
    BY <1>2 DEF UnsetSender, TypeOK, ReferencesAreUsed, RemovedStaysRemoved,
       UnusedIsPristine, LoopKeepsItsSession, AttachedSessionSurvives, is_attached_to
  <2> QED BY <2>2, <2>3
<1> QED BY <1>1, <1>2

\* An expiry task removes a session only while nobody is attached to it
\* (is_detached_connection_expired, session_registry.rs).
LEMMA ExpireRegInv ==
  ASSUME RegInv, NEW s \in Sessions, NEW c \in Conns, ExpireIfDetached(s, c)
  PROVE  RegInv'
<1> USE NoneAssumption DEF RegInv, handler, ExpireIfDetached
<1>1. TypeOK'
  BY DEF TypeOK, Labels
<1>2. (ReferencesAreUsed /\ RemovedStaysRemoved /\ UnusedIsPristine /\ LoopKeepsItsSession)'
  BY DEF TypeOK, ReferencesAreUsed, RemovedStaysRemoved, UnusedIsPristine,
     LoopKeepsItsSession, is_attached_to
<1>3. AttachedSessionSurvives'
  BY DEF is_detached_connection_expired, TypeOK, AttachedSessionSurvives
<1> QED BY <1>1, <1>2, <1>3

\* Time, shutdowns and process exits never touch an attached session.
LEMMA BackgroundRegInv ==
  ASSUME RegInv, NEW s \in Sessions, ProcessExit(s) \/ TtlElapses(s) \/ Shutdown(s)
  PROVE  RegInv'
<1> USE NoneAssumption DEF RegInv, handler, registry
<1>1. CASE ProcessExit(s)
  BY <1>1 DEF ProcessExit, TypeOK, Labels, ReferencesAreUsed, RemovedStaysRemoved,
     UnusedIsPristine, LoopKeepsItsSession, AttachedSessionSurvives, is_attached_to
<1>2. CASE TtlElapses(s)
  <2>1. TypeOK'
    BY <1>2 DEF TtlElapses, TypeOK, Labels
  <2>2. (ReferencesAreUsed /\ RemovedStaysRemoved /\ UnusedIsPristine /\ LoopKeepsItsSession
          /\ AttachedSessionSurvives)'
    BY <1>2 DEF TtlElapses, TypeOK, ReferencesAreUsed, RemovedStaysRemoved,
       UnusedIsPristine, LoopKeepsItsSession, AttachedSessionSurvives, is_attached_to
  <2> QED BY <2>1, <2>2
<1>3. CASE Shutdown(s)
  <2>1. TypeOK'
    BY <1>3 DEF Shutdown, TypeOK, Labels
  <2>2. (ReferencesAreUsed /\ RemovedStaysRemoved /\ UnusedIsPristine /\ LoopKeepsItsSession
          /\ AttachedSessionSurvives)'
    BY <1>3 DEF Shutdown, TypeOK, ReferencesAreUsed, RemovedStaysRemoved,
       UnusedIsPristine, LoopKeepsItsSession, AttachedSessionSurvives, is_attached_to
  <2> QED BY <2>1, <2>2
<1> QED BY <1>1, <1>2, <1>3

\* A stuttering step keeps the invariant.
LEMMA StutterRegInv == RegInv /\ UNCHANGED vars => RegInv'
BY DEF RegInv, vars, registry, handler, TypeOK, Labels, ReferencesAreUsed,
   RemovedStaysRemoved, UnusedIsPristine, LoopKeepsItsSession, AttachedSessionSurvives,
   is_attached_to

\* The invariant of the session registry holds for any number of connections
\* and sessions.
THEOREM RegistrySafety == Spec => []RegInv
<1>1. Init => RegInv
  BY InitRegInv
<1>2. RegInv /\ [Next]_vars => RegInv'
  <2> SUFFICES ASSUME RegInv, [Next]_vars PROVE RegInv'
    OBVIOUS
  <2>1. ASSUME NEW c \in Conns, ConnStep(c) PROVE RegInv'
    BY <2>1, InitializeRegInv, LoopStepRegInv, DetachRegInv, ExpireRegInv DEF ConnStep
  <2>2. ASSUME NEW s \in Sessions, ProcessExit(s) \/ TtlElapses(s) \/ Shutdown(s)
        PROVE RegInv'
    BY <2>2, BackgroundRegInv
  <2>3. CASE UNCHANGED vars
    BY <2>3, StutterRegInv
  <2> QED BY <2>1, <2>2, <2>3 DEF Next, Done
<1> QED BY <1>1, <1>2, PTL DEF Spec

\* The connections of a session run its process requests one at a time.
THEOREM RequestsExclusiveAlways == Spec => []RequestsExclusive
<1>1. RegInv => RequestsExclusive
  BY DEF RegInv, RequestsExclusive, LoopKeepsItsSession, ReferencesAreUsed, is_attached_to
<1> QED BY <1>1, RegistrySafety, PTL

\* No timer and no other client's failed resume takes an attached session
\* away or shuts its processes down.
THEOREM AttachedSessionSurvivesAlways == Spec => []AttachedSessionSurvives
<1>1. RegInv => AttachedSessionSurvives
  BY DEF RegInv
<1> QED BY <1>1, RegistrySafety, PTL

\* A connection loop stays attached to its session until it detaches itself.
THEOREM LoopKeepsItsSessionAlways == Spec => []LoopKeepsItsSession
<1>1. RegInv => LoopKeepsItsSession
  BY DEF RegInv
<1> QED BY <1>1, RegistrySafety, PTL
=============================================================================
