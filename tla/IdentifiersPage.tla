--------------------------- MODULE IdentifiersPage ---------------------------
(***************************************************************************)
(* The identifiers page (IdentifiersPage.tsx, identifiers/api.ts): an       *)
(* identifier is added, its ownership verified by a challenge, or it is     *)
(* deleted, against the server's verification service.                      *)
(*                                                                          *)
(* A challenge is named by its number, which also stands for its code.      *)
(* The code of a challenge for an owned mailbox can be read by the user;    *)
(* an owned domain or profile can be made to carry the proof.  In           *)
(* development (verification_dev_expose_code, on by default) the server     *)
(* returns the code in its answer and the page fills it in; the model lets  *)
(* each answer come from either configuration.                              *)
(***************************************************************************)
EXTENDS Naturals, Sequences

CONSTANTS
  Ids,           \* identifiers
  ByCode,        \* those verified by a code; the others by a published proof
  Owned,         \* those that belong to the user
  MaxChallenges  \* challenges that are issued (bound)

IdsAssumption == ByCode \subseteq Ids /\ Owned \subseteq Ids
MaxChallengesAssumption == MaxChallenges \in Nat

NoChallenge == 0

VARIABLES
  route,       \* the page the tab shows
  ids,         \* server: the status of each identifier
  issued,      \* server: the challenges
  listed,      \* the list the page shows
  starting,    \* "Verify" requests under way
  challenge, code,  \* the page: the card's challenge and identifier; the code typed
  confirming,  \* the confirmation under way
  deleting     \* "Delete" requests under way

vars == <<route, ids, issued, listed, starting, challenge, code, confirming, deleting>>

Challenges == 1..Len(issued)
NoCard == [ident |-> "none", ch |-> NoChallenge]
NoConfirm == [at |-> "idle", ident |-> "none", ch |-> NoChallenge, code |-> NoChallenge]

\* The page as it opens, with nothing on the server.
PageInit ==
  /\ ids = [i \in Ids |-> "absent"]
  /\ issued = <<>>
  /\ listed = ids
  /\ starting = {} /\ deleting = {}
  /\ challenge = NoCard /\ code = NoChallenge
  /\ confirming = NoConfirm

Init == route = "identifiers" /\ PageInit

Open == route = "identifiers"

\* onAdd: the answer's invalidation has the list fetched again.
Add(i) ==
  /\ Open /\ ids[i] = "absent"
  /\ ids' = [ids EXCEPT ![i] = "unverified"]
  /\ UNCHANGED <<route, issued, listed, starting, challenge, code, confirming, deleting>>

FetchList ==
  /\ Open /\ listed' = ids
  /\ UNCHANGED <<route, ids, issued, starting, challenge, code, confirming, deleting>>

\* "Verify" of a row that is not shown as verified; nothing disables it.
\* (Bound: one such request is under way at a time.)
StartVerify(i) ==
  /\ Open /\ listed[i] = "unverified" /\ starting = {}
  /\ starting' = {[ident |-> i, got |-> NoChallenge]}
  /\ UNCHANGED <<route, ids, issued, listed, challenge, code, confirming, deleting>>

\* start: a new challenge, or the identifier is unknown or already verified.
ServeStart(s) ==
  /\ s \in starting /\ s.got = NoChallenge
  /\ IF ids[s.ident] = "unverified" /\ Len(issued) < MaxChallenges
       THEN \E exposed \in (IF s.ident \in ByCode THEN BOOLEAN ELSE {FALSE}) :
              /\ issued' = Append(issued, [ident |-> s.ident, state |-> "live",
                                           exposed |-> exposed])
              /\ starting' = (starting \ {s}) \cup {[s EXCEPT !.got = Len(issued) + 1]}
       ELSE /\ starting' = starting \ {s}
            /\ UNCHANGED issued
  /\ UNCHANGED <<route, ids, listed, challenge, code, confirming, deleting>>

\* The answer puts the challenge on the card, in place of the one that is there; a code
\* in it is filled in, otherwise what was typed stays.
Started(s) ==
  /\ s \in starting /\ s.got # NoChallenge
  /\ starting' = starting \ {s}
  /\ challenge' = [ident |-> s.ident, ch |-> s.got]
  /\ code' = IF issued[s.got].exposed THEN s.got ELSE code
  /\ UNCHANGED <<route, ids, issued, listed, confirming, deleting>>

\* What came to a mailbox of the user, or was shown on a card.
Readable(c) == issued[c].ident \in Owned \/ issued[c].exposed

TypeCode(c) ==
  /\ Open /\ challenge # NoCard
  /\ c \in Challenges /\ Readable(c)
  /\ code' = c
  /\ UNCHANGED <<route, ids, issued, listed, starting, challenge, confirming, deleting>>

CancelCard ==
  /\ Open /\ challenge # NoCard
  /\ challenge' = NoCard /\ code' = NoChallenge
  /\ UNCHANGED <<route, ids, issued, listed, starting, confirming, deleting>>

\* "Confirm verification" sends what is on the card and, for a code, what is typed; it
\* waits for the confirmation before.
Confirm ==
  /\ Open /\ challenge # NoCard /\ confirming = NoConfirm
  /\ confirming' = [at |-> "sent", ident |-> challenge.ident, ch |-> challenge.ch,
                    code |-> code]
  /\ UNCHANGED <<route, ids, issued, listed, starting, challenge, code, deleting>>

\* Mutant of Proves: a code is checked against all those issued to the user.
ProvesAnyCode(ch, typed) ==
  IF issued[ch].ident \in ByCode THEN typed # NoChallenge ELSE issued[ch].ident \in Owned

\* The code is the challenge's own; a proof can only be published by the owner.
Proves(ch, typed) ==
  IF issued[ch].ident \in ByCode THEN typed = ch ELSE issued[ch].ident \in Owned

\* confirm: the challenge is consumed and its identifier verified; an unknown, consumed
\* or expired challenge, one of another identifier and a wrong code are refused.  A refusal
\* rolls back the count of attempts with its transaction (get_db), so the limit of ten,
\* which the count would have to exceed, is never met.
ServeConfirm ==
  /\ confirming.at = "sent"
  /\ LET ch == confirming.ch
         ident == confirming.ident
         ok == /\ ids[ident] # "absent" /\ issued[ch].ident = ident
               /\ issued[ch].state = "live" /\ Proves(ch, confirming.code)
     IN /\ confirming' = [confirming EXCEPT !.at = IF ok THEN "done" ELSE "refused"]
        /\ issued' = IF ok THEN [issued EXCEPT ![ch].state = "used"] ELSE issued
        /\ ids' = IF ok THEN [ids EXCEPT ![ident] = "verified"] ELSE ids
  /\ UNCHANGED <<route, listed, starting, challenge, code, deleting>>

\* A success takes away the card, whichever challenge is on it by now.
Confirmed ==
  /\ confirming.at \in {"done", "refused"}
  /\ IF confirming.at = "done"
       THEN challenge' = NoCard /\ code' = NoChallenge
       ELSE UNCHANGED <<challenge, code>>
  /\ confirming' = NoConfirm
  /\ UNCHANGED <<route, ids, issued, listed, starting, deleting>>

\* Nothing disables it.  (Bound: one deletion is under way at a time.)
Delete(i) ==
  /\ Open /\ listed[i] # "absent" /\ deleting = {}
  /\ deleting' = {i}
  /\ UNCHANGED <<route, ids, issued, listed, starting, challenge, code, confirming>>

\* The challenges of an identifier are deleted with it.
Orphaned(i) ==
  [c \in Challenges |->
     IF issued[c].ident = i THEN [issued[c] EXCEPT !.state = "gone"] ELSE issued[c]]

ServeDelete(i) ==
  /\ i \in deleting /\ deleting' = deleting \ {i}
  /\ ids' = [ids EXCEPT ![i] = "absent"]
  /\ issued' = Orphaned(i)
  /\ UNCHANGED <<route, listed, starting, challenge, code, confirming>>

\* The challenge's time is up.
Lapse(c) ==
  /\ c \in Challenges /\ issued[c].state = "live"
  /\ issued' = [issued EXCEPT ![c].state = "expired"]
  /\ UNCHANGED <<route, ids, listed, starting, challenge, code, confirming, deleting>>

\* The page is left, and visited again with an empty card.
\* (Bound: when what the card waits for has been answered.)
Leave ==
  /\ Open /\ starting = {} /\ confirming = NoConfirm
  /\ route' = "elsewhere" /\ challenge' = NoCard /\ code' = NoChallenge
  /\ UNCHANGED <<ids, issued, listed, starting, confirming, deleting>>

Return ==
  /\ route = "elsewhere" /\ route' = "identifiers"
  /\ UNCHANGED <<ids, issued, listed, starting, challenge, code, confirming, deleting>>

Next ==
  \/ \E i \in Ids : Add(i) \/ StartVerify(i) \/ Delete(i) \/ ServeDelete(i)
  \/ \E s \in starting : ServeStart(s) \/ Started(s)
  \/ \E c \in Challenges : TypeCode(c) \/ Lapse(c)
  \/ FetchList \/ CancelCard \/ Confirm \/ ServeConfirm \/ Confirmed \/ Leave \/ Return

Spec == Init /\ [][Next]_vars

(***************************************************************************)
(* Properties.                                                             *)
(***************************************************************************)
TypeOK ==
  LET number == 0..MaxChallenges IN
  /\ ids \in [Ids -> {"absent", "unverified", "verified"}]
  /\ listed \in [Ids -> {"absent", "unverified", "verified"}]
  /\ issued \in Seq([ident : Ids, state : {"live", "used", "expired", "gone"},
                     exposed : BOOLEAN])
  /\ starting \subseteq [ident : Ids, got : number] /\ deleting \subseteq Ids
  /\ challenge \in [ident : Ids \cup {"none"}, ch : number] /\ code \in number
  /\ confirming \in [at : {"idle", "sent", "done", "refused"}, ident : Ids \cup {"none"},
                     ch : number, code : number]

\* What does not belong to the user is verified only by a challenge of its own whose code
\* the server itself returned (G1), whatever card, code and identifier are mixed up by
\* answers that arrive late.
OnlyProvenIsVerified ==
  \A i \in Ids : ids[i] = "verified" =>
    \/ i \in Owned
    \/ \E c \in Challenges :
         issued[c].ident = i /\ issued[c].state = "used" /\ issued[c].exposed
=============================================================================
