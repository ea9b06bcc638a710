------------------------ MODULE IdentifiersPageProofs ------------------------
(***************************************************************************)
(* Proof that what does not belong to the user is verified only by a        *)
(* challenge of its own whose code the server returned, for any             *)
(* identifiers, any number of challenges and any order of the answers.      *)
(***************************************************************************)
EXTENDS IdentifiersPage, SequenceTheorems, TLAPS

Challenge ==
  [ident : Ids, state : {"live", "used", "expired", "gone"}, exposed : BOOLEAN]
Confirmation ==
  [at : {"idle", "sent", "done", "refused"}, ident : Ids \cup {"none"}, ch : Nat, code : Nat]

\* A code that is typed or on its way could be read.
IsRead(c) == c = NoChallenge \/ (c \in Challenges /\ Readable(c))

\* What the page holds is a challenge of the server, and a code one that was read.
Known ==
  /\ ids \in [Ids -> {"absent", "unverified", "verified"}]
  /\ issued \in Seq(Challenge)
  /\ starting \subseteq [ident : Ids, got : Nat]
  /\ \A s \in starting : s.got \in Challenges \cup {NoChallenge}
  /\ challenge = NoCard \/ challenge \in [ident : Ids, ch : Challenges]
  /\ confirming \in Confirmation
  /\ confirming.at = "sent" => confirming.ch \in Challenges /\ confirming.ident \in Ids
  /\ IsRead(code) /\ IsRead(confirming.code)

\* Challenges are added and change their state; none is taken over by another
\* identifier, or has its code shown later.
SameChallenges ==
  \A c \in Challenges :
    issued'[c].ident = issued[c].ident /\ issued'[c].exposed = issued[c].exposed

LEMMA IssuedKept ==
  ASSUME Known, issued' \in Seq(Challenge), Len(issued) <= Len(issued'), SameChallenges
  PROVE  Challenges \subseteq Challenges' /\ \A c : IsRead(c) => IsRead(c)'
  <1>1. Challenges \subseteq Challenges'
    BY DEF Known, Challenges
  <1> QED
    BY <1>1 DEF IsRead, SameChallenges, Readable

\* The steps that leave the server's challenges alone.
LEMMA KnownKept ==
  ASSUME Known, OnlyProvenIsVerified, UNCHANGED issued,
         \/ ids' = ids
         \/ \E i \in Ids : ids' = [ids EXCEPT ![i] = "unverified"],
         starting' \subseteq starting \cup [ident : Ids, got : {NoChallenge}],
         challenge' = NoCard \/ challenge' \in [ident : Ids, ch : Challenges],
         confirming' \in Confirmation,
         confirming'.at = "sent" => confirming'.ch \in Challenges /\ confirming'.ident \in Ids,
         IsRead(code'), IsRead(confirming'.code)
  PROVE  (Known /\ OnlyProvenIsVerified)'
  <1>1. Challenges' = Challenges /\ \A c : IsRead(c)' <=> IsRead(c)
    BY DEF Challenges, IsRead, Readable
  <1>2. /\ ids' \in [Ids -> {"absent", "unverified", "verified"}]
        /\ \A i \in Ids : ids'[i] = "verified" => ids[i] = "verified"
    BY DEF Known
  <1>3. OnlyProvenIsVerified'
    BY <1>1, <1>2 DEF OnlyProvenIsVerified
  <1>4. starting' \subseteq [ident : Ids, got : Nat]
        /\ \A s \in starting' : s.got \in Challenges \cup {NoChallenge}
    BY DEF Known, NoChallenge
  <1>5. NoCard' = NoCard /\ Confirmation' = Confirmation
    BY DEF NoCard, Confirmation
  <1>6. IsRead(code)' /\ IsRead(confirming.code)'
    BY DEF IsRead, Readable, Challenges
  <1> QED
    BY <1>1, <1>2, <1>3, <1>4, <1>5, <1>6 DEF Known

\* A challenge that changes its state stays the challenge of its identifier, and the
\* others stay as they are.
LEMMA Touched ==
  ASSUME Known, NEW ch \in Challenges, NEW st \in {"live", "used", "expired", "gone"},
         issued' = [issued EXCEPT ![ch].state = st]
  PROVE  /\ issued' \in Seq(Challenge) /\ Len(issued') = Len(issued) /\ SameChallenges
         /\ \A c \in Challenges : c # ch => issued'[c] = issued[c]
         /\ issued'[ch].state = st
  <1> DEFINE new == [issued[ch] EXCEPT !.state = st]
  <1>1. issued \in Seq(Challenge) /\ ch \in 1..Len(issued)
    BY DEF Known, Challenges
  <1>2. issued[ch] \in Challenge
    BY <1>1
  <1>3. /\ new \in Challenge /\ new.ident = issued[ch].ident
        /\ new.exposed = issued[ch].exposed /\ new.state = st
    BY <1>2 DEF Challenge
  <1>4. issued' = [issued EXCEPT ![ch] = new]
    OBVIOUS
  <1> HIDE DEF new
  <1>5. /\ issued' \in Seq(Challenge) /\ Len(issued') = Len(issued)
        /\ \A c \in 1..Len(issued) : issued'[c] = IF c = ch THEN new ELSE issued[c]
    BY <1>1, <1>3, <1>4, ExceptSeq
  <1> QED
    BY <1>1, <1>3, <1>5 DEF Challenges, SameChallenges

\* What was proven stays proven when no used challenge changes.
LEMMA ProvenKept ==
  ASSUME Known, OnlyProvenIsVerified, NEW S \in SUBSET Ids,
         \A i \in S : ids'[i] = "verified" => ids[i] = "verified",
         \A c \in Challenges : issued[c].state = "used" /\ issued[c].ident \in S =>
                                 c \in Challenges' /\ issued'[c] = issued[c]
  PROVE  \A i \in S : ids'[i] = "verified" =>
           \/ i \in Owned
           \/ \E c \in Challenges' :
                issued'[c].ident = i /\ issued'[c].state = "used" /\ issued'[c].exposed
BY DEF OnlyProvenIsVerified

\* The steps in which the server's challenges change: the answered confirmation
\* verifies an identifier, a deletion and the clock end challenges, a start adds one.
LEMMA IssuedStep ==
  ASSUME Known, OnlyProvenIsVerified,
         issued' \in Seq(Challenge), Len(issued) <= Len(issued'),
         SameChallenges,
         ids' \in [Ids -> {"absent", "unverified", "verified"}], OnlyProvenIsVerified',
         starting' \subseteq [ident : Ids, got : Nat],
         \A s \in starting' : s.got \in Challenges' \cup {NoChallenge},
         UNCHANGED <<challenge, code>>,
         confirming' \in Confirmation,
         confirming'.code = confirming.code, confirming'.ch = confirming.ch,
         confirming'.ident = confirming.ident,
         confirming'.at = "sent" => confirming.at = "sent"
  PROVE  (Known /\ OnlyProvenIsVerified)'
  <1>1. Challenges \subseteq Challenges' /\ \A c : IsRead(c) => IsRead(c)'
    BY IssuedKept
  <1>2. IsRead(code)' /\ IsRead(confirming.code)'
    <2>1. IsRead(code) /\ IsRead(confirming.code)
      BY DEF Known
    <2> QED
      BY <1>1, <2>1 DEF IsRead, Readable
  <1>3. challenge' = NoCard' \/ challenge' \in [ident : Ids, ch : Challenges']
    BY <1>1 DEF Known, NoCard
  <1>4. confirming'.at = "sent" => confirming'.ch \in Challenges' /\ confirming'.ident \in Ids
    BY <1>1 DEF Known
  <1> QED
    BY <1>2, <1>3, <1>4 DEF Known

\* Every step keeps what is known, and verifies only what is proven.
LEMMA KnownStep == Known /\ OnlyProvenIsVerified /\ [Next]_vars => (Known /\ OnlyProvenIsVerified)'
  <1> SUFFICES ASSUME Known, OnlyProvenIsVerified, [Next]_vars
               PROVE  (Known /\ OnlyProvenIsVerified)'
    OBVIOUS
  <1>1. ASSUME NEW i \in Ids, Add(i)
        PROVE  (Known /\ OnlyProvenIsVerified)'
    BY <1>1, KnownKept DEF Add, Known
  <1>2. ASSUME NEW i \in Ids, StartVerify(i)
        PROVE  (Known /\ OnlyProvenIsVerified)'
    BY <1>2, KnownKept DEF StartVerify, Known, NoChallenge
  <1>3. ASSUME NEW i \in Ids, Delete(i)
        PROVE  (Known /\ OnlyProvenIsVerified)'
    BY <1>3, KnownKept DEF Delete, Known
  <1>4. ASSUME NEW i \in Ids, ServeDelete(i)
        PROVE  (Known /\ OnlyProvenIsVerified)'
    <2>1. issued' = Orphaned(i) /\ issued \in Seq(Challenge)
      BY <1>4 DEF ServeDelete, Known
    <2>2. /\ issued' \in Seq(Challenge) /\ Len(issued') = Len(issued) /\ SameChallenges
          /\ \A c \in Challenges : issued[c].ident # i => issued'[c] = issued[c]
      <3> DEFINE e(c) ==
              IF issued[c].ident = i THEN [issued[c] EXCEPT !.state = "gone"] ELSE issued[c]
      <3>1. Len(issued) \in Nat /\ \A c \in 1..Len(issued) : issued[c] \in Challenge
        BY <2>1, LenProperties
      <3>2. \A c \in 1..Len(issued) :
              /\ e(c) \in Challenge /\ e(c).ident = issued[c].ident
              /\ e(c).exposed = issued[c].exposed
              /\ issued[c].ident # i => e(c) = issued[c]
        BY <3>1 DEF Challenge
      <3>3. issued' = [c \in 1..Len(issued) |-> e(c)]
        BY <2>1 DEF Orphaned, Challenges
      <3> HIDE DEF e
      <3>4. issued' \in Seq(Challenge) /\ Len(issued') = Len(issued)
        BY <3>1, <3>2, <3>3
      <3> QED
        BY <3>2, <3>3, <3>4 DEF Challenges, SameChallenges
    <2>3. /\ ids' \in [Ids -> {"absent", "unverified", "verified"}] /\ ids'[i] # "verified"
          /\ \A j \in Ids \ {i} : ids'[j] = ids[j]
      BY <1>4 DEF ServeDelete, Known
    <2>4. Challenges' = Challenges
      BY <2>2 DEF Challenges
    <2>5. OnlyProvenIsVerified'
      <3>1. \A c \in Challenges : issued[c].ident \in Ids \ {i} =>
              c \in Challenges' /\ issued'[c] = issued[c]
        BY <2>2, <2>4
      <3> QED
        BY <2>3, <3>1, ProvenKept DEF OnlyProvenIsVerified
    <2> QED
      BY <1>4, <2>2, <2>3, <2>4, <2>5, IssuedStep DEF ServeDelete, Known
  <1>5. ASSUME NEW s \in starting, ServeStart(s)
        PROVE  (Known /\ OnlyProvenIsVerified)'
    <2>1. CASE issued' = issued /\ starting' = starting \ {s}
      BY <1>5, <2>1, KnownKept DEF ServeStart, Known
    <2>2. ASSUME NEW exposed \in BOOLEAN,
                 issued' = Append(issued, [ident |-> s.ident, state |-> "live",
                                           exposed |-> exposed])
          PROVE  (Known /\ OnlyProvenIsVerified)'
      <3>1. issued \in Seq(Challenge) /\ s.ident \in Ids
        BY DEF Known
      <3>2. /\ issued' \in Seq(Challenge) /\ Len(issued') = Len(issued) + 1
            /\ \A c \in Challenges : issued'[c] = issued[c]
        BY <2>2, <3>1 DEF Challenges, Challenge
      <3>3. starting' \subseteq (starting \ {s}) \cup {[s EXCEPT !.got = Len(issued) + 1]}
        BY <1>5 DEF ServeStart
      <3>4. /\ starting' \subseteq [ident : Ids, got : Nat]
            /\ \A t \in starting' : t.got \in Challenges' \cup {NoChallenge}
        BY <3>1, <3>2, <3>3 DEF Known, Challenges
      <3>5. SameChallenges /\ Challenges \subseteq Challenges' /\ Len(issued) <= Len(issued')
        BY <3>1, <3>2 DEF SameChallenges, Challenges
      <3>6. OnlyProvenIsVerified'
        <4>1. ids' = ids /\ \A c \in Challenges : c \in Challenges' /\ issued'[c] = issued[c]
          BY <1>5, <3>2, <3>5 DEF ServeStart
        <4> QED
          BY <4>1 DEF OnlyProvenIsVerified
      <3> QED
        BY <1>5, <3>2, <3>4, <3>5, <3>6, IssuedStep DEF ServeStart, Known
    <2>3. \/ issued' = issued /\ starting' = starting \ {s}
          \/ \E exposed \in BOOLEAN :
               issued' = Append(issued, [ident |-> s.ident, state |-> "live",
                                         exposed |-> exposed])
      BY <1>5, Zenon DEF ServeStart
    <2> QED
      BY <2>1, <2>2, <2>3
  <1>6. ASSUME NEW s \in starting, Started(s)
        PROVE  (Known /\ OnlyProvenIsVerified)'
    <2>1. s.ident \in Ids /\ s.got \in Challenges
      BY <1>6 DEF Started, Known
    <2>2. IsRead(code')
      BY <1>6, <2>1 DEF Started, Known, IsRead, Readable
    <2>3. challenge' \in [ident : Ids, ch : Challenges]
      BY <1>6, <2>1 DEF Started
    <2> QED
      BY <1>6, <2>2, <2>3, KnownKept DEF Started, Known
  <1>7. ASSUME NEW c \in Challenges, TypeCode(c)
        PROVE  (Known /\ OnlyProvenIsVerified)'
    BY <1>7, KnownKept DEF TypeCode, Known, IsRead
  <1>8. ASSUME NEW c \in Challenges, Lapse(c)
        PROVE  (Known /\ OnlyProvenIsVerified)'
    <2>1. /\ issued' \in Seq(Challenge) /\ Len(issued') = Len(issued) /\ SameChallenges
          /\ \A d \in Challenges : d # c => issued'[d] = issued[d]
      BY <1>8, Touched DEF Lapse
    <2>2. Challenges' = Challenges /\ ids' = ids /\ issued[c].state = "live"
      BY <1>8, <2>1 DEF Lapse, Challenges
    <2>3. \A d \in Challenges : issued[d].state = "used" =>
            d \in Challenges' /\ issued'[d] = issued[d]
      BY <2>1, <2>2
    <2>4. OnlyProvenIsVerified'
      BY <2>2, <2>3, ProvenKept DEF OnlyProvenIsVerified
    <2> QED
      BY <1>8, <2>1, <2>2, <2>4, IssuedStep DEF Lapse, Known
  <1>9. CASE FetchList \/ CancelCard \/ Return \/ UNCHANGED vars
    BY <1>9, KnownKept DEF FetchList, CancelCard, Return, vars, Known, IsRead
  <1>10. CASE Confirm
    <2>1. /\ UNCHANGED <<ids, issued, starting, challenge, code>> /\ challenge # NoCard
          /\ confirming' = [at |-> "sent", ident |-> challenge.ident, ch |-> challenge.ch,
                            code |-> code]
      BY <1>10 DEF Confirm
    <2>2. challenge \in [ident : Ids, ch : Challenges] /\ IsRead(code) /\ code \in Nat
      BY <2>1 DEF Known, IsRead, NoChallenge, Challenges
    <2>3. challenge.ident \in Ids /\ challenge.ch \in Challenges /\ challenge.ch \in Nat
      BY <2>2 DEF Challenges
    <2>4. /\ confirming' \in Confirmation /\ confirming'.ch = challenge.ch
          /\ confirming'.ident = challenge.ident /\ confirming'.code = code
      BY <2>1, <2>2, <2>3 DEF Confirmation
    <2> QED
      BY <2>1, <2>2, <2>3, <2>4, KnownKept
  <1>11. CASE ServeConfirm
    <2> DEFINE ch == confirming.ch
               ident == confirming.ident
               ok == /\ ids[ident] # "absent" /\ issued[ch].ident = ident
                     /\ issued[ch].state = "live" /\ Proves(ch, confirming.code)
    <2>1. /\ ch \in Challenges /\ issued[ch] \in Challenge /\ IsRead(confirming.code)
          /\ ident \in Ids
      BY <1>11 DEF ServeConfirm, Known, Challenges
    <2>2. ok => /\ issued[ch].ident = ident /\ issued[ch].state = "live"
                /\ ident \in Owned \/ issued[ch].exposed
      BY <2>1 DEF Proves, IsRead, Readable, NoChallenge, Challenges
    <2>3. /\ confirming' = [confirming EXCEPT !.at = IF ok THEN "done" ELSE "refused"]
          /\ issued' = IF ok THEN [issued EXCEPT ![ch].state = "used"] ELSE issued
          /\ ids' = IF ok THEN [ids EXCEPT ![ident] = "verified"] ELSE ids
      BY <1>11 DEF ServeConfirm
    <2>4. /\ confirming' \in Confirmation /\ confirming'.at # "sent"
          /\ confirming'.code = confirming.code /\ confirming'.ch = confirming.ch
          /\ confirming'.ident = confirming.ident
      BY <2>3 DEF Known, Confirmation
    <2> HIDE DEF ok, ch, ident
    <2>5. /\ ids' \in [Ids -> {"absent", "unverified", "verified"}]
          /\ \A i \in Ids \ {ident} : ids'[i] = ids[i]
      BY <2>1, <2>3 DEF Known
    <2>6. CASE ok
      <3>1. /\ issued' \in Seq(Challenge) /\ Len(issued') = Len(issued) /\ SameChallenges
            /\ \A c \in Challenges : c # ch => issued'[c] = issued[c]
            /\ issued'[ch].state = "used"
        BY <2>1, <2>3, <2>6, Touched
      <3>2. Challenges' = Challenges
        BY <3>1 DEF Challenges
      <3>3. \A c \in Challenges : issued[c].state = "used" =>
              c \in Challenges' /\ issued'[c] = issued[c]
        BY <2>2, <2>6, <3>1, <3>2
      <3>4. \A i \in Ids \ {ident} : ids'[i] = "verified" =>
              \/ i \in Owned
              \/ \E c \in Challenges' :
                   issued'[c].ident = i /\ issued'[c].state = "used" /\ issued'[c].exposed
        <4> DEFINE S == Ids \ {ident}
        <4>1. S \in SUBSET Ids /\ \A i \in S : ids'[i] = "verified" => ids[i] = "verified"
          BY <2>5
        <4>2. \A c \in Challenges : issued[c].state = "used" /\ issued[c].ident \in S =>
                c \in Challenges' /\ issued'[c] = issued[c]
          BY <3>3
        <4> HIDE DEF S
        <4>3. \A i \in S : ids'[i] = "verified" =>
                \/ i \in Owned
                \/ \E c \in Challenges' :
                     issued'[c].ident = i /\ issued'[c].state = "used" /\ issued'[c].exposed
          BY <4>1, <4>2, ProvenKept
        <4> QED
          BY <4>3 DEF S
      <3>5. /\ issued'[ch].ident = ident /\ issued'[ch].exposed = issued[ch].exposed
            /\ ch \in Challenges'
        BY <2>1, <2>2, <2>6, <3>1, <3>2 DEF SameChallenges
      <3>6. OnlyProvenIsVerified'
        BY <2>2, <2>6, <3>1, <3>4, <3>5 DEF OnlyProvenIsVerified
      <3> QED
        BY <1>11, <2>4, <2>5, <3>1, <3>2, <3>6, IssuedStep DEF ServeConfirm, Known
    <2>7. CASE ~ok
      BY <1>11, <2>3, <2>4, <2>7, KnownKept DEF ServeConfirm, Known
    <2> QED
      BY <2>6, <2>7
  <1>12. CASE Confirmed
    <2>1. NoConfirm \in Confirmation /\ NoConfirm.at # "sent" /\ NoConfirm.code = NoChallenge
      BY DEF NoConfirm, Confirmation, NoChallenge
    <2> QED
      BY <1>12, <2>1, KnownKept DEF Confirmed, Known, IsRead
  <1>13. CASE Leave
    BY <1>13, KnownKept DEF Leave, Known, IsRead
  <1> QED
    BY <1>1, <1>2, <1>3, <1>4, <1>5, <1>6, <1>7, <1>8, <1>9, <1>10, <1>11, <1>12, <1>13
    DEF Next

\* What does not belong to the user is verified only by a challenge of its own whose code
\* the server returned, whatever cards, codes and identifiers late answers mix up.
THEOREM OnlyProvenHolds == Spec => []OnlyProvenIsVerified
  <1>1. Init => Known /\ OnlyProvenIsVerified
    BY DEF Init, PageInit, NoConfirm, NoChallenge, Known, IsRead, OnlyProvenIsVerified,
           Confirmation
  <1>2. Known /\ OnlyProvenIsVerified /\ [Next]_vars => (Known /\ OnlyProvenIsVerified)'
    BY KnownStep
  <1> QED
    BY <1>1, <1>2, PTL DEF Spec
=============================================================================
