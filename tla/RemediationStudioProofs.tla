----------------------- MODULE RemediationStudioProofs -----------------------
(***************************************************************************)
(* Proof that the remediation page never calls a live removal a preview,    *)
(* for any addresses, brokers and number of jobs.                           *)
(***************************************************************************)
EXTENDS RemediationStudio, TLAPS

\* An accepted dispatch is the server's last job, and while the answer is awaited by a
\* page that was left no earlier message is shown.
Awaited ==
  /\ dispatch.at = "idle" => dispatch = NoDispatch
  /\ dispatch.at = "accepted" =>
       dispatched # <<>> /\ dispatched[Len(dispatched)].dry = dispatch.dry
  /\ dispatch # NoDispatch /\ ~dispatch.here => message \notin {"dry", "live"}

\* Every variable keeps its type.
LEMMA TypeStep == TypeOK /\ MaxJobs \in Nat /\ [Next]_vars => TypeOK'
  <1> SUFFICES ASSUME TypeOK, MaxJobs \in Nat, [Next]_vars PROVE TypeOK'
    OBVIOUS
  <1>1. CASE \E e \in Emails \cup {NoEmail} : SelectEmail(e)
    BY <1>1 DEF SelectEmail, TypeOK
  <1>2. CASE \E b \in Brokers : ToggleBroker(b)
    BY <1>2 DEF ToggleBroker, TypeOK
  <1>3. CASE ToggleDryRun \/ ToggleAll
    BY <1>3 DEF ToggleDryRun, ToggleAll, TypeOK
  <1>4. CASE StartOptOut
    <2>1. [at |-> "sent", dry |-> dryRun, to |-> selectedBrokers, here |-> TRUE]
            \in [at : {"idle", "sent", "accepted", "refused"}, dry : BOOLEAN,
                to : SUBSET Brokers, here : BOOLEAN]
      BY DEF TypeOK
    <2>2. UNCHANGED <<route, identifierId, selectedBrokers, dryRun, dispatched>>
      BY <1>4 DEF StartOptOut, choices
    <2>3. \/ message' = "missing" /\ dispatch' = dispatch
          \/ /\ message' = message
             /\ dispatch' = [at |-> "sent", dry |-> dryRun, to |-> selectedBrokers,
                             here |-> TRUE]
      BY <1>4 DEF StartOptOut
    <2> QED
      BY <2>1, <2>2, <2>3 DEF TypeOK
  <1>5. CASE ServeDispatch
    <2>1. CASE UNCHANGED dispatched
      BY <1>5, <2>1 DEF ServeDispatch, choices, TypeOK
    <2>2. ASSUME dispatched' # dispatched
          PROVE  TypeOK'
      <3>1. [dry |-> dispatch.dry, to |-> IF dispatch.to = {} THEN Brokers ELSE dispatch.to]
              \in [dry : BOOLEAN, to : SUBSET Brokers]
        BY DEF TypeOK
      <3>2. /\ dispatched' \in Seq([dry : BOOLEAN, to : SUBSET Brokers])
            /\ Len(dispatched') <= MaxJobs
        <4>1. /\ Len(dispatched) < MaxJobs
              /\ dispatched' = Append(dispatched,
                   [dry |-> dispatch.dry,
                    to |-> IF dispatch.to = {} THEN Brokers ELSE dispatch.to])
          BY <1>5, <2>2 DEF ServeDispatch
        <4>2. dispatched \in Seq([dry : BOOLEAN, to : SUBSET Brokers])
          BY DEF TypeOK
        <4> HIDE DEF TypeOK
        <4> QED
          BY <3>1, <4>1, <4>2
      <3>3. dispatch' \in [at : {"idle", "sent", "accepted", "refused"}, dry : BOOLEAN,
                           to : SUBSET Brokers, here : BOOLEAN]
        BY <1>5, <2>2 DEF ServeDispatch, TypeOK
      <3>4. UNCHANGED <<identifierId, selectedBrokers, dryRun, message>>
        BY <1>5 DEF ServeDispatch, choices
      <3> QED
        BY <3>2, <3>3, <3>4 DEF TypeOK
    <2> QED
      BY <2>1, <2>2
  <1>6. CASE Dispatched
    BY <1>6 DEF Dispatched, Report, NoDispatch, choices, TypeOK
  <1>7. CASE Leave \/ Return \/ UNCHANGED vars
    BY <1>7 DEF Leave, Return, vars, choices, TypeOK
  <1> QED
    BY <1>1, <1>2, <1>3, <1>4, <1>5, <1>6, <1>7 DEF Next

\* Leaving the page without a dispatch under way changes nothing of it.
LEMMA LeftIdle == [NoDispatch EXCEPT !.here = FALSE] = NoDispatch
  <1> DEFINE left == [NoDispatch EXCEPT !.here = FALSE]
  <1>1. left = [x \in {"at", "dry", "to", "here"} |-> left[x]]
    BY DEF NoDispatch
  <1>2. NoDispatch = [x \in {"at", "dry", "to", "here"} |-> NoDispatch[x]]
    BY DEF NoDispatch
  <1>3. left["at"] = NoDispatch["at"]
    BY DEF NoDispatch
  <1>4. left["dry"] = NoDispatch["dry"]
    BY DEF NoDispatch
  <1>5. left["to"] = NoDispatch["to"]
    BY DEF NoDispatch
  <1>6. left["here"] = NoDispatch["here"]
    BY DEF NoDispatch
  <1> HIDE DEF left
  <1>7. \A x \in {"at", "dry", "to", "here"} : left[x] = NoDispatch[x]
    BY <1>3, <1>4, <1>5, <1>6
  <1>8. [x \in {"at", "dry", "to", "here"} |-> left[x]]
          = [x \in {"at", "dry", "to", "here"} |-> NoDispatch[x]]
    BY <1>7
  <1> QED
    BY <1>1, <1>2, <1>8 DEF left

\* Every step keeps the message true.
LEMMA AwaitedStep ==
  TypeOK /\ Awaited /\ MessageTellsTheMode /\ [Next]_vars => (Awaited /\ MessageTellsTheMode)'
  <1> SUFFICES ASSUME TypeOK, Awaited, MessageTellsTheMode, [Next]_vars
               PROVE  (Awaited /\ MessageTellsTheMode)'
    OBVIOUS
  <1>1. CASE UNCHANGED <<message, dispatch, dispatched>>
    BY <1>1 DEF Awaited, MessageTellsTheMode
  <1>2. CASE StartOptOut
    BY <1>2 DEF StartOptOut, NoDispatch, Awaited, MessageTellsTheMode
  <1>3. CASE ServeDispatch
    <2>1. dispatch'.at # "idle" /\ dispatch'.here = dispatch.here /\ dispatch'.dry = dispatch.dry
      BY <1>3 DEF ServeDispatch, TypeOK
    <2>2. dispatch # NoDispatch /\ dispatch' # NoDispatch /\ message' = message
      BY <1>3, <2>1 DEF ServeDispatch, NoDispatch
    <2>3. ASSUME dispatch'.at = "accepted"
          PROVE  dispatched' # <<>> /\ dispatched'[Len(dispatched')].dry = dispatch.dry
      <3>1. dispatched' = Append(dispatched,
              [dry |-> dispatch.dry, to |-> IF dispatch.to = {} THEN Brokers ELSE dispatch.to])
        BY <1>3, <2>3 DEF ServeDispatch, TypeOK
      <3>2. dispatched \in Seq([dry : BOOLEAN, to : SUBSET Brokers])
        BY DEF TypeOK
      <3> QED
        BY <3>1, <3>2
    <2> QED
      BY <2>1, <2>2, <2>3 DEF Awaited, MessageTellsTheMode
  <1>4. CASE Dispatched
    <2>1. dispatch' = NoDispatch /\ UNCHANGED dispatched /\ dispatch # NoDispatch
      BY <1>4 DEF Dispatched, NoDispatch
    <2>2. dispatch.at \in {"accepted", "refused"} /\ dispatch.dry \in BOOLEAN
      BY <1>4 DEF Dispatched, TypeOK
    <2>3. message' \in {"dry", "live"} => dispatch.here
      BY <1>4, <2>1 DEF Dispatched, Awaited
    <2>4. dispatch.here => message' = Report
      BY <1>4 DEF Dispatched
    <2>5. Report \in {"dry", "live"} => dispatch.at = "accepted"
      BY <2>2 DEF Report
    <2>6. dispatch.at = "accepted" /\ dispatch.dry => Report = "dry"
      BY DEF Report
    <2>7. dispatch.at = "accepted" /\ ~dispatch.dry => Report = "live"
      BY DEF Report
    <2> QED
      BY <2>1, <2>2, <2>3, <2>4, <2>5, <2>6, <2>7 DEF NoDispatch, Awaited, MessageTellsTheMode
  <1>5. CASE Leave
    <2>1. message' = "none" /\ dispatched' = dispatched
          /\ dispatch' = [dispatch EXCEPT !.here = FALSE]
      BY <1>5 DEF Leave
    <2>2. dispatch'.at = dispatch.at /\ dispatch'.dry = dispatch.dry
      BY <2>1 DEF TypeOK
    <2>3. dispatch'.at = "idle" => dispatch' = NoDispatch
      <3>1. CASE dispatch.at = "idle"
        <4>1. dispatch = NoDispatch
          BY <3>1 DEF Awaited
        <4> QED
          BY <2>1, <4>1, LeftIdle
      <3> QED
        BY <2>2, <3>1
    <2> QED
      BY <2>1, <2>2, <2>3 DEF Awaited, MessageTellsTheMode
  <1> QED
    BY <1>1, <1>2, <1>3, <1>4, <1>5
    DEF Next, vars, SelectEmail, ToggleBroker, ToggleDryRun, ToggleAll, Return

\* Once a dispatch is answered, the mode the page names is the mode of the server's
\* last job, whatever was toggled and however often the page was left meanwhile.
THEOREM ModeIsTold ==
  ASSUME MaxJobs \in Nat
  PROVE  Spec => []MessageTellsTheMode
  <1>1. Init => TypeOK /\ Awaited /\ MessageTellsTheMode
    BY DEF Init, PageInit, NoDispatch, TypeOK, Awaited, MessageTellsTheMode
  <1>2. TypeOK /\ Awaited /\ MessageTellsTheMode /\ [Next]_vars =>
          (TypeOK /\ Awaited /\ MessageTellsTheMode)'
    BY TypeStep, AwaitedStep
  <1> QED
    BY <1>1, <1>2, PTL DEF Spec
=============================================================================
