------------------------ MODULE FreezeChecklistProofs ------------------------
(***************************************************************************)
(* Proof that the freeze checklist ends up showing what the server has, for *)
(* any items and any number of changes under way, served in any order.      *)
(***************************************************************************)
EXTENDS FreezeChecklist, TLAPS

\* The page will be told of a change of the item.
Awaited(b) == \E c \in changes : c[2] = b /\ c[4] = "served"

\* Unless the page will be told, or missed it, a list it may keep is as the server's: the
\* one it shows, when that is valid, and the one a fetch has read.
Current ==
  \A b \in Bureaus \ freezeMissed :
    ~Awaited(b) =>
      /\ ~freezeInvalid => freezeShown[b] = freeze[b]
      /\ freezeFetch.stage = "read" => freezeFetch.data[b] = freeze[b]

\* Every variable keeps its type.
LEMMA TypeStep == FreezeAssumption /\ TypeOK /\ [Next]_vars => TypeOK'
  <1> SUFFICES ASSUME FreezeAssumption, TypeOK, [Next]_vars PROVE TypeOK'
    OBVIOUS
  <1>1. ASSUME NEW n \in 1..MaxChanges, NEW b \in Bureaus, NEW status \in FreezeChoices,
               Choose(n, b, status)
        PROVE  TypeOK'
    BY <1>1 DEF Choose, TypeOK
  <1>2. ASSUME NEW c \in changes, ServeChange(c)
        PROVE  TypeOK'
    <2>1. /\ c[1] \in 1..MaxChanges /\ c[2] \in Bureaus
          /\ c[3] \in FreezeChoices /\ c[3] \in FreezeStatus
      BY DEF TypeOK, FreezeAssumption
    <2>2. freeze' \in [Bureaus -> FreezeStatus]
      BY <1>2, <2>1 DEF ServeChange, Patched, TypeOK
    <2> QED
      BY <1>2, <2>1, <2>2 DEF ServeChange, TypeOK
  <1>3. ASSUME NEW c \in changes, Changed(c) \/ ChangeFails(c)
        PROVE  TypeOK'
    <2>1. /\ c[2] \in Bureaus /\ UNCHANGED <<freeze, freezeShown>>
          /\ freezeInvalid' \in {freezeInvalid, TRUE} /\ changes' \subseteq changes
          /\ freezeMissed' \in {freezeMissed, freezeMissed \cup {c[2]}}
          /\ freezeFetch' \in {freezeFetch, Asked}
      BY <1>3 DEF Changed, ChangeFails, Miss, Refetched, TypeOK
    <2>2. Asked \in [stage : {"none", "asked", "read"}, data : [Bureaus -> FreezeStatus]]
      BY DEF Asked, Fresh, FreezeStatus
    <2> QED
      BY <2>1, <2>2 DEF TypeOK
  <1>4. CASE ServeFetch \/ Fetched \/ FetchFails
    <2>1. NoFetch \in [stage : {"none", "asked", "read"}, data : [Bureaus -> FreezeStatus]]
      BY DEF NoFetch, Fresh, FreezeStatus
    <2>2. freezeFetch.data \in [Bureaus -> FreezeStatus]
      BY DEF TypeOK
    <2>3. CASE ServeFetch
      BY <2>3 DEF ServeFetch, TypeOK
    <2>4. CASE Fetched
      BY <2>1, <2>2, <2>4 DEF Fetched, TypeOK
    <2>5. CASE FetchFails
      BY <2>1, <2>5 DEF FetchFails, TypeOK
    <2> QED
      BY <1>4, <2>3, <2>4, <2>5
  <1>5. CASE Leave \/ (\E old \in BOOLEAN : Return(old)) \/ UNCHANGED vars
    BY <1>5 DEF Leave, Return, Asked, Fresh, FreezeStatus, vars, TypeOK
  <1> QED
    BY <1>1, <1>2, <1>3, <1>4, <1>5 DEF Next

\* A change of the server is awaited or missed; what is fetched is what the server has.
LEMMA CurrentStep == TypeOK /\ Current /\ [Next]_vars => Current'
  <1> SUFFICES ASSUME TypeOK, Current, [Next]_vars PROVE Current'
    OBVIOUS
  <1>1. ASSUME NEW n \in 1..MaxChanges, NEW b \in Bureaus, NEW status \in FreezeChoices,
               Choose(n, b, status)
        PROVE  Current'
    <2>1. /\ changes \subseteq changes'
          /\ UNCHANGED <<freeze, freezeShown, freezeFetch, freezeInvalid, freezeMissed>>
      BY <1>1 DEF Choose
    <2>2. \A a \in Bureaus : Awaited(a) => Awaited(a)'
      BY <2>1 DEF Awaited
    <2> QED
      BY <2>1, <2>2 DEF Current
  <1>2. ASSUME NEW c \in changes, ServeChange(c)
        PROVE  Current'
    <2>1. /\ changes' = (changes \ {c}) \cup {<<c[1], c[2], c[3], "served">>}
          /\ freeze' = [freeze EXCEPT ![c[2]] = c[3]] /\ c[4] = "sent"
          /\ UNCHANGED <<freezeShown, freezeFetch, freezeInvalid, freezeMissed>>
      BY <1>2 DEF ServeChange, Patched
    <2>2. \A a \in Bureaus : Awaited(a) => Awaited(a)'
      BY <2>1 DEF Awaited
    <2>3. Awaited(c[2])'
      <3> DEFINE served == <<c[1], c[2], c[3], "served">>
      <3>1. served \in changes' /\ served[2] = c[2] /\ served[4] = "served"
        BY <2>1
      <3> QED
        BY <3>1 DEF Awaited
    <2>4. \A a \in Bureaus : a # c[2] => freeze'[a] = freeze[a]
      BY <2>1 DEF TypeOK
    <2> QED
      BY <2>1, <2>2, <2>3, <2>4 DEF Current
  <1>3. ASSUME NEW c \in changes, Changed(c)
        PROVE  Current'
    <2>1. /\ changes' = changes \ {c} /\ freezeInvalid' = TRUE
          /\ UNCHANGED <<freeze, freezeShown>> /\ freezeMissed \subseteq freezeMissed'
          /\ freezeFetch' = IF Open THEN Asked ELSE freezeFetch
          /\ ~Open /\ freezeFetch.stage = "read" => c[2] \in freezeMissed'
      BY <1>3 DEF Changed, Miss, Refetched
    <2>2. ASSUME NEW a \in Bureaus \ freezeMissed', ~Awaited(a)', freezeFetch'.stage = "read"
          PROVE  freezeFetch'.data[a] = freeze'[a]
      <3>1. ~Open /\ freezeFetch' = freezeFetch
        BY <2>1, <2>2 DEF Asked
      <3>2. c[2] # a
        BY <2>1, <2>2, <3>1
      <3>3. ~Awaited(a)
        BY <2>1, <2>2, <3>2 DEF Awaited
      <3> QED
        BY <2>1, <2>2, <3>1, <3>3 DEF Current
    <2> QED
      BY <2>1, <2>2 DEF Current
  <1>4. ASSUME NEW c \in changes, ChangeFails(c)
        PROVE  Current'
    <2>1. /\ changes' = changes \ {c} /\ freezeMissed \subseteq freezeMissed'
          /\ UNCHANGED <<freeze, freezeShown, freezeFetch, freezeInvalid>>
          /\ c[4] = "served" => c[2] \in freezeMissed'
      BY <1>4 DEF ChangeFails, Miss
    <2>2. \A a \in Bureaus \ freezeMissed' : Awaited(a) => Awaited(a)'
      BY <2>1 DEF Awaited
    <2> QED
      BY <2>1, <2>2 DEF Current
  <1>5. CASE ServeFetch
    BY <1>5 DEF ServeFetch, Current, Awaited
  <1>6. CASE Fetched
    BY <1>6 DEF Fetched, NoFetch, Current, Awaited
  <1>7. CASE FetchFails
    BY <1>7 DEF FetchFails, NoFetch, Current, Awaited
  <1>8. CASE Leave \/ UNCHANGED vars
    BY <1>8 DEF Leave, vars, Current, Awaited
  <1>9. ASSUME NEW old \in BOOLEAN, Return(old)
        PROVE  Current'
    <2>1. /\ freezeFetch' \in {freezeFetch, Asked}
          /\ UNCHANGED <<freeze, changes, freezeShown, freezeInvalid, freezeMissed>>
      BY <1>9 DEF Return
    <2> QED
      BY <2>1 DEF Current, Awaited, Asked
  <1> QED
    BY <1>1, <1>2, <1>3, <1>4, <1>5, <1>6, <1>7, <1>8, <1>9 DEF Next

\* Once nothing is under way the page shows what the server has, however the changes were
\* ordered and whichever of them failed, but for the exceptions the property names.
THEOREM ChecklistHolds == FreezeAssumption => (Spec => []ChecklistShowsServer)
  <1> SUFFICES ASSUME FreezeAssumption PROVE Spec => []ChecklistShowsServer
    OBVIOUS
  <1>1. Init => TypeOK /\ Current
    <2>1. Fresh \in [Bureaus -> FreezeStatus] /\ NoFetch.stage = "none"
      BY DEF Fresh, FreezeStatus, NoFetch
    <2>2. NoFetch \in [stage : {"none", "asked", "read"}, data : [Bureaus -> FreezeStatus]]
      BY <2>1 DEF NoFetch
    <2> QED
      BY <2>1, <2>2 DEF Init, PageInit, TypeOK, Current
  <1>2. TypeOK /\ Current /\ [Next]_vars => (TypeOK /\ Current)'
    BY TypeStep, CurrentStep
  <1>3. Current => ChecklistShowsServer
    BY DEF Current, Awaited, ChecklistShowsServer
  <1> QED
    BY <1>1, <1>2, <1>3, PTL DEF Spec
=============================================================================
