---------------------------- MODULE GrantsProofs ----------------------------
(***************************************************************************)
(* Who may act in the user's name: the devices that were paired, and the   *)
(* tools that were connected.                                              *)
(*                                                                         *)
(* What holds of pairing, hello and revoke for any number of devices,      *)
(* installations, offers and hellos, with a host that stops and a vault    *)
(* that fails; and what Tools promises, for every number of threads,       *)
(* sign-ins, tokens, failures and crashes: the vault holds the grant the   *)
(* user last agreed to, a refused refresh costs no token that is still     *)
(* good, and one session at most has the profile.  The two modules share   *)
(* nothing but the kind of hazard.                                         *)
(***************************************************************************)
EXTENDS Devices, Tools, FiniteSetTheorems, SequenceTheorems, TLAPS

-----------------------------------------------------------------------------
(* The shape of the state.                                                 *)

Claims == [by : Transcripts \cup {NoTranscript}, host : BOOLEAN, device : BOOLEAN, role : Roles]
Offers == [expires : Nat, attempts : Nat, claim : Claims]
Rows == [exists : BOOLEAN, role : Roles, sas : Transcripts \cup {NoTranscript},
         counter : 0..MaxCounter, revoked : BOOLEAN]

Shape ==
    /\ now \in Nat /\ started \in 0..MaxOffers
    /\ offers \in [DOMAIN offers -> Offers] /\ DOMAIN offers \subseteq 1..started
    /\ vault \in [Devices -> Transcripts \cup {NoTranscript}]
    /\ rows \in [Devices -> Rows]
    /\ bound \in [Connections -> Devices \cup {Console, Nobody}]
    /\ granting \in (Transcripts \X Roles) \cup {NoTranscript}
    /\ numbers \in [Phones -> Transcripts \cup {NoTranscript}]
    /\ word \in [OfferIds -> (Transcripts \cup {NoTranscript}) \X Roles]
    /\ assent \in [OfferIds -> Transcripts \cup {NoTranscript}]
    /\ grants \in Seq(Transcripts)
    /\ accepted \in Seq([token : Transcripts, counter : 0..MaxCounter])

\* A transcript is a tuple of three, so it is not the empty one.
LEMMA TranscriptIsSome == NoTranscript \notin Transcripts /\ NoTranscript \notin Transcripts \X Roles
  BY DEF NoTranscript, Transcripts

\* The sweep keeps offers as they are.
LEMMA PrunedProps ==
    ASSUME Shape
    PROVE  /\ DOMAIN Pruned \subseteq DOMAIN offers
           /\ Pruned \in [DOMAIN Pruned -> Offers]
           /\ \A o \in DOMAIN Pruned : Pruned[o] = offers[o] /\ o \in OfferIds
  BY DevicesAssumption DEF Shape, Pruned, Live, OfferIds

LEMMA ClaimsUpdated ==
    ASSUME Shape, NEW o \in DOMAIN Pruned, NEW claim \in Claims
    PROVE  /\ [Pruned EXCEPT ![o].claim = claim] \in [DOMAIN Pruned -> Offers]
           /\ [Pruned EXCEPT ![o].claim = claim][o] = [offers[o] EXCEPT !.claim = claim]
           /\ \A p \in DOMAIN Pruned \ {o} : [Pruned EXCEPT ![o].claim = claim][p] = offers[p]
  BY PrunedProps DEF Offers

LEMMA BurntProps ==
    ASSUME Shape, NEW o \in DOMAIN Pruned
    PROVE  /\ DOMAIN Burnt(o) \subseteq DOMAIN Pruned
           /\ Burnt(o) \in [DOMAIN Burnt(o) -> Offers]
           /\ \A p \in DOMAIN Burnt(o) :
                /\ Burnt(o)[p].claim = offers[p].claim
                /\ Burnt(o)[p].attempts < MaxAttempts
  <1>1. \A p \in DOMAIN Pruned : Pruned[p] \in Offers /\ Pruned[p].attempts < MaxAttempts
    BY PrunedProps DEF Pruned, Live
  <1> QED
    BY <1>1, PrunedProps, DevicesAssumption DEF Burnt, Without, Offers

\* What a confirmation makes of the offers, the vault and the grant under way.
LEMMA ConfirmedShape ==
    ASSUME Shape, NEW o \in DOMAIN Pruned, NEW claim \in Claims, claim.by # NoTranscript,
           Confirmed(o, claim)
    PROVE  /\ offers' \in [DOMAIN offers' -> Offers] /\ DOMAIN offers' \subseteq DOMAIN Pruned
           /\ vault' \in [Devices -> Transcripts \cup {NoTranscript}]
           /\ granting' \in (Transcripts \X Roles) \cup {NoTranscript}
  <1> USE PrunedProps
  <1>1. CASE offers' = [Pruned EXCEPT ![o].claim = claim] /\ UNCHANGED <<vault, granting>>
    <2>1. offers' \in [DOMAIN Pruned -> Offers]
      BY <1>1, ClaimsUpdated
    <2> QED
      BY <1>1, <2>1 DEF Shape
  <1>2. CASE /\ offers' = Taken(o, claim)
             /\ vault' = [vault EXCEPT ![DeviceOf[claim.by[2]]] = claim.by]
             /\ granting' = <<claim.by, claim.role>>
    <2>1. claim.by \in Transcripts /\ claim.role \in Roles
      BY DEF Claims
    <2> QED
      BY <1>2, <2>1, DevicesAssumption DEF Taken, Without, Shape, Transcripts
  <1> QED
    BY <1>1, <1>2 DEF Confirmed

LEMMA ShapeStep == Shape /\ [Next]_vars => Shape'
  <1> SUFFICES ASSUME Shape, [Next]_vars PROVE Shape'
    OBVIOUS
  <1> USE PrunedProps, DevicesAssumption
  <1>1. CASE Sweep
    BY <1>1 DEF Sweep, Shape
  <1>2. ASSUME NEW c \in Connections, PairingStart(c)
        PROVE  Shape'
    <2>1. [expires |-> now + Ttl, attempts |-> 0, claim |-> NoClaim] \in Offers
      BY DEF Shape, Offers, Claims, NoClaim, Roles
    <2>2. offers' \in [DOMAIN offers' -> Offers] /\ DOMAIN offers' \subseteq 1..started'
      BY SMTT(30), <1>2, <2>1 DEF PairingStart, Shape
    <2>3. started' \in 0..MaxOffers
      BY <1>2 DEF PairingStart, Shape, DevicesAssumption
    <2> QED
      BY <1>2, <2>2, <2>3 DEF PairingStart, Shape
  <1>3. ASSUME NEW c \in Connections, PairingCancel(c)
        PROVE  Shape'
    BY <1>3 DEF PairingCancel, Shape
  <1>4. ASSUME NEW c \in Connections, NEW p \in Phones, PairingClaim(c, p)
        PROVE  Shape'
    <2> PICK o \in DOMAIN Pruned, via \in Channels :
            /\ numbers' = [numbers EXCEPT ![p] = <<o, p, via>>]
            /\ offers' = IF MayClaim(o, <<o, p, via>>)
                         THEN [Pruned EXCEPT ![o].claim.by = <<o, p, via>>] ELSE Pruned
      BY <1>4 DEF PairingClaim
    <2>1. <<o, p, via>> \in Transcripts
      BY DEF Transcripts
    <2>2. [Pruned EXCEPT ![o].claim.by = <<o, p, via>>] \in [DOMAIN Pruned -> Offers]
      BY <2>1 DEF Offers, Claims
    <2> QED
      BY <1>4, <2>1, <2>2 DEF PairingClaim, Shape
  <1>5. ASSUME NEW c \in Connections, PairingClaimWrong(c)
        PROVE  Shape'
    <2> PICK o \in DOMAIN Pruned : offers' = Burnt(o)
      BY <1>5 DEF PairingClaimWrong
    <2> QED
      BY <1>5, BurntProps DEF PairingClaimWrong, Shape
  <1>6. ASSUME NEW c \in Connections, NEW p \in Phones, ConfirmHost(c, p)
        PROVE  Shape'
    <2> PICK o \in DOMAIN Pruned, role \in Roles :
            /\ NumberMatches(o, numbers[p])
            /\ word' = [word EXCEPT ![o] = <<numbers[p], role>>]
            /\ Confirmed(o, [ClaimOf(o) EXCEPT !.host = TRUE, !.role = role])
      BY <1>6 DEF ConfirmHost
    <2> DEFINE claim == [ClaimOf(o) EXCEPT !.host = TRUE, !.role = role]
    <2>1. claim \in Claims /\ claim.by # NoTranscript
      <3>1. offers[o].claim \in Claims
        BY DEF Shape, Offers
      <3> QED
        BY <3>1 DEF Claims, ClaimOf, NumberMatches
    <2> HIDE DEF claim
    <2>2. /\ offers' \in [DOMAIN offers' -> Offers] /\ DOMAIN offers' \subseteq DOMAIN Pruned
          /\ vault' \in [Devices -> Transcripts \cup {NoTranscript}]
          /\ granting' \in (Transcripts \X Roles) \cup {NoTranscript}
      BY <2>1, ConfirmedShape DEF claim
    <2> QED
      BY <1>6, <2>2 DEF ConfirmHost, Shape
  <1>7. ASSUME NEW c \in Connections, NEW p \in Phones, ConfirmDevice(c, p)
        PROVE  Shape'
    <2> PICK o \in DOMAIN Pruned :
            /\ NumberMatches(o, numbers[p])
            /\ assent' = [assent EXCEPT ![o] = numbers[p]]
            /\ Confirmed(o, [ClaimOf(o) EXCEPT !.device = TRUE])
      BY <1>7 DEF ConfirmDevice
    <2> DEFINE claim == [ClaimOf(o) EXCEPT !.device = TRUE]
    <2>1. claim \in Claims /\ claim.by # NoTranscript
      <3>1. offers[o].claim \in Claims
        BY DEF Shape, Offers
      <3> QED
        BY <3>1 DEF Claims, ClaimOf, NumberMatches
    <2> HIDE DEF claim
    <2>2. /\ offers' \in [DOMAIN offers' -> Offers] /\ DOMAIN offers' \subseteq DOMAIN Pruned
          /\ vault' \in [Devices -> Transcripts \cup {NoTranscript}]
          /\ granting' \in (Transcripts \X Roles) \cup {NoTranscript}
      BY <2>1, ConfirmedShape DEF claim
    <2> QED
      BY <1>7, <2>2 DEF ConfirmDevice, Shape
  <1>8. CASE RecordGrant
    <2>1. granting[1] \in Transcripts /\ granting[2] \in Roles
      BY <1>8 DEF RecordGrant, Up, Shape
    <2>2. rows' \in [Devices -> Rows]
      <3>1. [exists |-> TRUE, role |-> granting[2], sas |-> granting[1], counter |-> 0,
             revoked |-> FALSE] \in Rows
        BY <2>1 DEF Rows
      <3> QED
        BY <1>8, <3>1 DEF RecordGrant, Shape
    <2>3. grants' \in Seq(Transcripts)
      BY <1>8, <2>1, AppendProperties DEF RecordGrant, Shape
    <2> QED
      BY <1>8, <2>2, <2>3 DEF RecordGrant, Shape
  <1>9. CASE RecordFails
    BY <1>9 DEF RecordFails, Shape
  <1>10. CASE HelloConsole
    BY <1>10 DEF HelloConsole, Shape, Connections
  <1>11. ASSUME NEW c \in Connections, NEW device \in Devices, HelloPaired(c, device)
         PROVE  Shape'
    <2> PICK counter \in 1..MaxCounter :
            /\ rows' = [rows EXCEPT ![device].counter = counter]
            /\ accepted' = Append(accepted, [token |-> vault[device], counter |-> counter])
      BY <1>11 DEF HelloPaired
    <2>1. vault[device] \in Transcripts /\ counter \in 0..MaxCounter
      BY <1>11 DEF HelloPaired, Shape
    <2>2. rows' \in [Devices -> Rows]
      BY ZenonT(40), <2>1 DEF Shape, Rows
    <2>3. accepted' \in Seq([token : Transcripts, counter : 0..MaxCounter])
      BY <2>1, AppendProperties DEF Shape
    <2> QED
      BY <1>11, <2>2, <2>3 DEF HelloPaired, Shape
  <1>12. ASSUME NEW c \in Connections, HangUp(c)
         PROVE  Shape'
    BY <1>12 DEF HangUp, Shape
  <1>13. ASSUME NEW c \in Connections, NEW device \in Devices, Revoke(c, device)
         PROVE  Shape'
    <2>1. rows' \in [Devices -> Rows]
      <3>1. \A r \in Rows : [r EXCEPT !.revoked = TRUE] \in Rows
        BY DEF Rows
      <3> QED
        BY <1>13, <3>1 DEF Revoke, Shape
    <2>2. vault' \in [Devices -> Transcripts \cup {NoTranscript}]
      BY <1>13 DEF Revoke, Shape
    <2> QED
      BY <1>13, <2>1, <2>2 DEF Revoke, Shape, CutOff
  <1>14. CASE TimePasses
    BY SMTT(30), <1>14 DEF TimePasses, Shape
  <1>15. CASE Restart
    BY <1>15 DEF Restart, Shape
  <1>16. CASE UNCHANGED vars
    BY <1>16 DEF vars, Shape
  <1> QED
    BY <1>1, <1>2, <1>3, <1>4, <1>5, <1>6, <1>7, <1>8, <1>9, <1>10, <1>11, <1>12, <1>13,
       <1>14, <1>15, <1>16 DEF Next

LEMMA ShapeInit == Init => Shape
  <1> SUFFICES ASSUME Init PROVE Shape
    OBVIOUS
  <1>1. NoRow \in Rows
    BY DevicesAssumption DEF NoRow, Rows, Roles
  <1>2. grants \in Seq(Transcripts) /\ accepted \in Seq([token : Transcripts, counter : 0..MaxCounter])
    BY EmptySeq DEF Init
  <1> QED
    BY <1>1, <1>2, DevicesAssumption DEF Init, Shape, Offers, Roles

-----------------------------------------------------------------------------
(* What was agreed.  An offer that is gone never comes back, and what was   *)
(* said over it is not said again, so a grant can rest on it.               *)

Spent(o) == o \in 1..started /\ o \notin DOMAIN offers
Said(t, role) == Spent(t[1]) /\ assent[t[1]] = t /\ word[t[1]] = <<t, role>>

ClaimAgrees(o) ==
    LET claim == offers[o].claim
    IN  /\ claim.by # NoTranscript => claim.by[1] = o
        /\ claim.host => claim.by # NoTranscript /\ word[o] = <<claim.by, claim.role>>
        /\ claim.device => claim.by # NoTranscript /\ assent[o] = claim.by
GrantAgrees ==
    granting # NoTranscript =>
        /\ Said(granting[1], granting[2])
        /\ \A i \in 1..Len(grants) : grants[i][1] # granting[1][1]
RowAgrees(d) ==
    rows[d].exists => rows[d].sas # NoTranscript /\ Said(rows[d].sas, rows[d].role)

Agreement ==
    /\ \A o \in DOMAIN offers : ClaimAgrees(o)
    /\ GrantAgrees
    /\ \A d \in Devices : RowAgrees(d)
    /\ \A i \in 1..Len(grants) : Spent(grants[i][1])
    /\ OfferPairsOnce

\* A confirmation puts the claim back on its offer, or takes the offer.
LEMMA ConfirmedClaims ==
    ASSUME Shape, NEW o \in DOMAIN Pruned, NEW claim \in Claims, Confirmed(o, claim)
    PROVE  \/ /\ DOMAIN offers' = DOMAIN Pruned
              /\ offers'[o].claim = claim
              /\ \A p \in DOMAIN Pruned \ {o} : offers'[p] = offers[p]
              /\ UNCHANGED <<vault, granting>>
           \/ /\ BothConfirmed(claim)
              /\ DOMAIN offers' = DOMAIN Pruned \ {o}
              /\ \A p \in DOMAIN Pruned \ {o} : offers'[p] = offers[p]
              /\ vault' = [vault EXCEPT ![DeviceOf[claim.by[2]]] = claim.by]
              /\ granting' = <<claim.by, claim.role>>
  <1> USE PrunedProps
  <1>1. CASE offers' = [Pruned EXCEPT ![o].claim = claim] /\ UNCHANGED <<vault, granting>>
    <2>1. offers[o] \in Offers
      BY DEF Shape
    <2>2. [offers[o] EXCEPT !.claim = claim].claim = claim
      BY <2>1 DEF Offers
    <2>3. DOMAIN offers' = DOMAIN Pruned
      BY <1>1
    <2> QED
      BY <1>1, <2>2, <2>3, ClaimsUpdated
  <1>2. CASE /\ BothConfirmed(claim) /\ offers' = Taken(o, claim)
             /\ vault' = [vault EXCEPT ![DeviceOf[claim.by[2]]] = claim.by]
             /\ granting' = <<claim.by, claim.role>>
    BY <1>2 DEF Taken, Without
  <1> QED
    BY <1>1, <1>2 DEF Confirmed

\* What is spent stays so, with what was said over it.
LEMMA SpentStays ==
    ASSUME Shape, [Next]_vars, NEW o \in Nat, Spent(o)
    PROVE  Spent(o)' /\ word'[o] = word[o] /\ assent'[o] = assent[o]
  <1> USE PrunedProps DEF Spent
  <1>1. CASE Sweep \/ TimePasses \/ RecordGrant \/ RecordFails \/ HelloConsole \/ Restart
    BY <1>1 DEF Sweep, TimePasses, RecordGrant, RecordFails, HelloConsole, Restart
  <1>2. ASSUME NEW c \in Connections, PairingStart(c)
        PROVE  Spent(o)' /\ word'[o] = word[o] /\ assent'[o] = assent[o]
    BY <1>2, DevicesAssumption DEF PairingStart, Shape
  <1>3. ASSUME NEW c \in Connections,
               PairingCancel(c) \/ HangUp(c) \/ PairingClaimWrong(c)
                 \/ \E device \in Devices : Revoke(c, device) \/ HelloPaired(c, device)
        PROVE  Spent(o)' /\ word'[o] = word[o] /\ assent'[o] = assent[o]
    BY <1>3, BurntProps DEF PairingCancel, HangUp, PairingClaimWrong, Revoke, HelloPaired
  <1>4. ASSUME NEW c \in Connections, NEW p \in Phones, PairingClaim(c, p)
        PROVE  Spent(o)' /\ word'[o] = word[o] /\ assent'[o] = assent[o]
    BY <1>4 DEF PairingClaim
  <1>5. ASSUME NEW q \in DOMAIN Pruned, NEW claim, Confirmed(q, claim)
        PROVE  DOMAIN offers' \subseteq DOMAIN offers /\ o # q
    BY <1>5 DEF Confirmed, Taken, Without
  <1>6. ASSUME NEW c \in Connections, NEW p \in Phones, ConfirmHost(c, p)
        PROVE  Spent(o)' /\ word'[o] = word[o] /\ assent'[o] = assent[o]
    BY <1>5, <1>6 DEF ConfirmHost, Shape
  <1>7. ASSUME NEW c \in Connections, NEW p \in Phones, ConfirmDevice(c, p)
        PROVE  Spent(o)' /\ word'[o] = word[o] /\ assent'[o] = assent[o]
    BY <1>5, <1>7 DEF ConfirmDevice, Shape
  <1> QED
    BY <1>1, <1>2, <1>3, <1>4, <1>6, <1>7 DEF Next, vars

LEMMA SaidStays ==
    ASSUME Shape, [Next]_vars, NEW t \in Transcripts, NEW role, Said(t, role)
    PROVE  Said(t, role)'
  <1>1. t[1] \in Nat
    BY DEF Transcripts, OfferIds
  <1> QED
    BY <1>1, SpentStays DEF Said

\* What rests on an offer that is gone needs no more than that no grant is made.
LEMMA GrantsKept ==
    ASSUME Shape, Agreement, [Next]_vars, UNCHANGED grants,
           \A d \in Devices : /\ rows'[d].exists = rows[d].exists
                              /\ rows'[d].sas = rows[d].sas
                              /\ rows'[d].role = rows[d].role
    PROVE  /\ \A d \in Devices : RowAgrees(d)'
           /\ \A i \in 1..Len(grants') : Spent(grants[i][1])'
           /\ OfferPairsOnce'
  <1>1. ASSUME NEW d \in Devices
        PROVE  RowAgrees(d)'
    <2>1. CASE rows[d].exists
      <3>1. rows[d].sas \in Transcripts /\ Said(rows[d].sas, rows[d].role)
        BY <2>1 DEF Agreement, RowAgrees, Shape, Rows
      <3>2. Said(rows[d].sas, rows[d].role)'
        BY <3>1, SaidStays DEF Said
      <3> QED
        BY <3>1, <3>2, TranscriptIsSome DEF RowAgrees
    <2> QED
      BY <2>1 DEF RowAgrees
  <1>2. ASSUME NEW i \in 1..Len(grants)
        PROVE  Spent(grants[i][1])'
    <2>1. grants[i][1] \in Nat /\ Spent(grants[i][1])
      BY ElementOfSeq DEF Shape, Transcripts, OfferIds, Agreement
    <2> QED
      BY <2>1, SpentStays DEF Spent
  <1>3. OfferPairsOnce'
    BY DEF Agreement, OfferPairsOnce
  <1> QED
    BY <1>1, <1>2, <1>3

\* A step that makes no claim, no word and no grant keeps the agreement.
LEMMA AgreementKept ==
    ASSUME Shape, Agreement, [Next]_vars,
           \A o \in DOMAIN offers' : o \in DOMAIN offers /\ offers'[o].claim = offers[o].claim,
           UNCHANGED <<word, assent, grants>>,
           granting' \in {granting, NoTranscript},
           \A d \in Devices : /\ rows'[d].exists = rows[d].exists
                              /\ rows'[d].sas = rows[d].sas
                              /\ rows'[d].role = rows[d].role
    PROVE  Agreement'
  <1>1. \A o \in DOMAIN offers' : ClaimAgrees(o)'
    BY DEF Agreement, ClaimAgrees
  <1>2. GrantAgrees'
    <2> SUFFICES ASSUME granting # NoTranscript, granting' = granting
                 PROVE  GrantAgrees'
      BY DEF GrantAgrees
    <2>1. granting[1] \in Transcripts /\ Said(granting[1], granting[2])
      BY DEF Shape, Agreement, GrantAgrees
    <2>2. Said(granting[1], granting[2])'
      BY <2>1, SaidStays DEF Said
    <2> QED
      BY <2>2 DEF Agreement, GrantAgrees
  <1> QED
    BY <1>1, <1>2, GrantsKept DEF Agreement

\* A confirmation that puts its word on record keeps it too.
LEMMA AgreementConfirmed ==
    ASSUME Shape, Agreement, [Next]_vars, Up, UNCHANGED <<started, rows, grants>>,
           NEW o \in DOMAIN Pruned, NEW claim \in Claims, Confirmed(o, claim),
           claim.by # NoTranscript, claim.by[1] = o,
           claim.host => word'[o] = <<claim.by, claim.role>>,
           claim.device => assent'[o] = claim.by,
           \A p \in OfferIds \ {o} : word'[p] = word[p] /\ assent'[p] = assent[p]
    PROVE  Agreement'
  <1> USE PrunedProps
  <1>1. CASE /\ DOMAIN offers' = DOMAIN Pruned /\ offers'[o].claim = claim
             /\ \A p \in DOMAIN Pruned \ {o} : offers'[p] = offers[p]
             /\ UNCHANGED <<vault, granting>>
    <2>1. \A p \in DOMAIN offers' : ClaimAgrees(p)'
      BY <1>1 DEF Agreement, ClaimAgrees
    <2>2. GrantAgrees'
      BY <1>1 DEF GrantAgrees, Up
    <2> QED
      BY <2>1, <2>2, GrantsKept DEF Agreement
  <1>2. CASE /\ BothConfirmed(claim) /\ DOMAIN offers' = DOMAIN Pruned \ {o}
             /\ \A p \in DOMAIN Pruned \ {o} : offers'[p] = offers[p]
             /\ granting' = <<claim.by, claim.role>>
    <2>1. \A p \in DOMAIN offers' : ClaimAgrees(p)'
      BY <1>2 DEF Agreement, ClaimAgrees
    <2>2. o \in 1..started'
      BY DEF Shape
    <2>3. Said(claim.by, claim.role)'
      BY <1>2, <2>2 DEF Said, Spent, BothConfirmed
    <2>4. \A i \in 1..Len(grants) : grants[i][1] # o
      BY DEF Agreement, Spent
    <2>5. GrantAgrees'
      BY <1>2, <2>3, <2>4 DEF GrantAgrees, Said
    <2> QED
      BY <2>1, <2>5, GrantsKept DEF Agreement
  <1> QED
    BY <1>1, <1>2, ConfirmedClaims

LEMMA AgreementStep == Shape /\ Agreement /\ [Next]_vars => Agreement'
  <1> SUFFICES ASSUME Shape, Agreement, [Next]_vars PROVE Agreement'
    OBVIOUS
  <1> USE PrunedProps
  <1>1. CASE Sweep \/ TimePasses \/ RecordFails \/ HelloConsole \/ Restart \/ UNCHANGED vars
    BY <1>1, AgreementKept DEF Sweep, TimePasses, RecordFails, HelloConsole, Restart, vars
  <1>2. ASSUME NEW c \in Connections,
               PairingCancel(c) \/ HangUp(c) \/ PairingClaimWrong(c)
        PROVE  Agreement'
    BY <1>2, BurntProps, AgreementKept DEF PairingCancel, HangUp, PairingClaimWrong
  <1>3. ASSUME NEW c \in Connections, NEW device \in Devices,
               Revoke(c, device) \/ HelloPaired(c, device)
        PROVE  Agreement'
    <2>1. \A d \in Devices : /\ rows'[d].exists = rows[d].exists
                             /\ rows'[d].sas = rows[d].sas
                             /\ rows'[d].role = rows[d].role
      <3>1. \A d \in Devices : rows[d] \in Rows
        BY DEF Shape
      <3>2. CASE Revoke(c, device)
        <4>1. rows' = [rows EXCEPT ![device].revoked = TRUE]
          BY <3>2 DEF Revoke
        <4> QED
          BY <3>1, <4>1 DEF Rows, Shape
      <3>3. CASE HelloPaired(c, device)
        <4>1. PICK counter \in 1..MaxCounter : rows' = [rows EXCEPT ![device].counter = counter]
          BY <3>3 DEF HelloPaired
        <4> QED
          BY <3>1, <4>1 DEF Rows, Shape
      <3> QED
        BY <1>3, <3>2, <3>3
    <2> QED
      BY <1>3, <2>1, AgreementKept DEF Revoke, HelloPaired
  <1>4. ASSUME NEW c \in Connections, PairingStart(c)
        PROVE  Agreement'
    <2>1. \A o \in DOMAIN offers' : ClaimAgrees(o)'
      BY <1>4 DEF PairingStart, Agreement, ClaimAgrees, NoClaim
    <2>2. GrantAgrees'
      BY <1>4 DEF PairingStart, Up, GrantAgrees
    <2> QED
      BY <1>4, <2>1, <2>2, GrantsKept DEF PairingStart, Agreement
  <1>5. ASSUME NEW c \in Connections, NEW p \in Phones, PairingClaim(c, p)
        PROVE  Agreement'
    <2> PICK o \in DOMAIN Pruned, via \in Channels :
            offers' = IF MayClaim(o, <<o, p, via>>)
                      THEN [Pruned EXCEPT ![o].claim.by = <<o, p, via>>] ELSE Pruned
      BY <1>5 DEF PairingClaim
    <2>1. \A q \in DOMAIN offers' : ClaimAgrees(q)'
      <3>1. CASE offers' = Pruned
        BY ZenonT(40), <1>5, <3>1 DEF PairingClaim, Agreement, ClaimAgrees
      <3>2. CASE /\ MayClaim(o, <<o, p, via>>)
                 /\ offers' = [Pruned EXCEPT ![o].claim.by = <<o, p, via>>]
        <4>1. offers[o] \in Offers /\ offers[o].claim \in Claims
          BY DEF Shape, Offers
        <4>2. /\ offers'[o].claim.by = <<o, p, via>>
              /\ offers'[o].claim.host = offers[o].claim.host
              /\ offers'[o].claim.device = offers[o].claim.device
              /\ offers'[o].claim.role = offers[o].claim.role
          BY <3>2, <4>1 DEF Offers, Claims
        <4>3. ClaimAgrees(o)'
          BY SMTT(30), <1>5, <3>2, <4>2 DEF PairingClaim, Agreement, ClaimAgrees, MayClaim, ClaimOf,
                                 NoTranscript
        <4>4. \A q \in DOMAIN offers' \ {o} : offers'[q] = offers[q]
          BY <3>2
        <4> QED
          BY <1>5, <3>2, <4>3, <4>4 DEF PairingClaim, Agreement, ClaimAgrees
      <3> QED
        BY <3>1, <3>2
    <2>2. GrantAgrees'
      BY <1>5 DEF PairingClaim, Up, GrantAgrees
    <2> QED
      BY <1>5, <2>1, <2>2, GrantsKept DEF PairingClaim, Agreement
  <1>6. ASSUME NEW c \in Connections, NEW p \in Phones, ConfirmHost(c, p)
        PROVE  Agreement'
    <2> PICK o \in DOMAIN Pruned, role \in Roles :
            /\ NumberMatches(o, numbers[p])
            /\ word' = [word EXCEPT ![o] = <<numbers[p], role>>]
            /\ Confirmed(o, [ClaimOf(o) EXCEPT !.host = TRUE, !.role = role])
      BY <1>6 DEF ConfirmHost
    <2> DEFINE claim == [ClaimOf(o) EXCEPT !.host = TRUE, !.role = role]
    <2>1. offers[o].claim \in Claims /\ ClaimAgrees(o) /\ o \in OfferIds
      BY DEF Shape, Offers, Agreement
    <2>2. /\ claim \in Claims /\ claim.by # NoTranscript /\ claim.by[1] = o
          /\ claim.by = numbers[p] /\ claim.role = role
          /\ claim.device => assent[o] = claim.by
      BY <2>1 DEF Claims, ClaimOf, NumberMatches, ClaimAgrees
    <2> HIDE DEF claim
    <2>3. /\ word'[o] = <<claim.by, claim.role>>
          /\ \A q \in OfferIds \ {o} : word'[q] = word[q]
      BY <2>1, <2>2 DEF Shape
    <2> QED
      BY <1>6, <2>2, <2>3, AgreementConfirmed DEF ConfirmHost, claim
  <1>7. ASSUME NEW c \in Connections, NEW p \in Phones, ConfirmDevice(c, p)
        PROVE  Agreement'
    <2> PICK o \in DOMAIN Pruned :
            /\ NumberMatches(o, numbers[p])
            /\ assent' = [assent EXCEPT ![o] = numbers[p]]
            /\ Confirmed(o, [ClaimOf(o) EXCEPT !.device = TRUE])
      BY <1>7 DEF ConfirmDevice
    <2> DEFINE claim == [ClaimOf(o) EXCEPT !.device = TRUE]
    <2>1. offers[o].claim \in Claims /\ ClaimAgrees(o) /\ o \in OfferIds
      BY DEF Shape, Offers, Agreement
    <2>2. /\ claim \in Claims /\ claim.by # NoTranscript /\ claim.by[1] = o
          /\ claim.by = numbers[p]
          /\ claim.host => word[o] = <<claim.by, claim.role>>
      BY <2>1 DEF Claims, ClaimOf, NumberMatches, ClaimAgrees
    <2> HIDE DEF claim
    <2>3. assent'[o] = claim.by /\ \A q \in OfferIds \ {o} : assent'[q] = assent[q]
      BY <2>1, <2>2 DEF Shape
    <2> QED
      BY <1>7, <2>2, <2>3, AgreementConfirmed DEF ConfirmDevice, claim
  <1>8. CASE RecordGrant
    <2>1. PICK t \in Transcripts, role \in Roles : granting = <<t, role>>
      BY <1>8 DEF RecordGrant, Up, Shape
    <2>2. Said(t, role) /\ \A i \in 1..Len(grants) : grants[i][1] # t[1]
      BY <1>8, <2>1 DEF RecordGrant, Up, Agreement, GrantAgrees
    <2>3. Said(t, role)'
      BY <2>2, SaidStays
    <2>4. /\ rows' = [rows EXCEPT ![DeviceOf[t[2]]] =
                       [exists |-> TRUE, role |-> role, sas |-> t, counter |-> 0,
                        revoked |-> FALSE]]
          /\ grants' = Append(grants, t)
          /\ UNCHANGED <<offers, started, word, assent>> /\ granting' = NoTranscript
      BY <1>8, <2>1 DEF RecordGrant, Granted
    <2>5. \A d \in Devices : RowAgrees(d)'
      <3>1. ASSUME NEW d \in Devices, rows'[d] = rows[d]
            PROVE  RowAgrees(d)'
        BY <2>4, <3>1 DEF Agreement, RowAgrees, Said, Spent
      <3>2. ASSUME NEW d \in Devices,
                   rows'[d] = [exists |-> TRUE, role |-> role, sas |-> t, counter |-> 0,
                               revoked |-> FALSE]
            PROVE  RowAgrees(d)'
        BY <2>3, <3>2, TranscriptIsSome DEF RowAgrees
      <3> QED
        BY <2>4, <3>1, <3>2 DEF Shape
    <2>6. /\ Len(grants) \in Nat
          /\ Len(grants') = Len(grants) + 1 /\ grants'[Len(grants) + 1] = t
          /\ \A i \in 1..Len(grants) : grants'[i] = grants[i]
      BY <2>4, AppendProperties, LenProperties DEF Shape
    <2>7. \A i \in 1..Len(grants') : Spent(grants[i][1])'
      <3> SUFFICES ASSUME NEW i \in 1..Len(grants') PROVE Spent(grants[i][1])'
        OBVIOUS
      <3>1. CASE i \in 1..Len(grants)
        BY <2>4, <2>6, <3>1 DEF Agreement, Spent
      <3>2. CASE i = Len(grants) + 1
        BY <2>3, <2>6, <3>2 DEF Said, Spent
      <3> QED
        BY <2>6, <3>1, <3>2
    <2>8. OfferPairsOnce'
      BY <2>2, <2>6 DEF OfferPairsOnce, Agreement
    <2>9. \A o \in DOMAIN offers' : ClaimAgrees(o)'
      BY <2>4 DEF Agreement, ClaimAgrees
    <2> QED
      BY <2>4, <2>5, <2>7, <2>8, <2>9 DEF Agreement, GrantAgrees
  <1> QED
    BY <1>1, <1>2, <1>3, <1>4, <1>5, <1>6, <1>7, <1>8 DEF Next

LEMMA AgreementInit == Init => Agreement
  BY EmptySeq DEF Init, Agreement, ClaimAgrees, GrantAgrees, RowAgrees, NoRow, OfferPairsOnce

-----------------------------------------------------------------------------
(* Hellos.  A token belongs to the device of the phone that claimed, and    *)
(* its offer is gone; so a token that enters the vault was never heard, and *)
(* nobody else's counter stands for it.                                     *)

VaultIsOwn(d) ==
    vault[d] # NoTranscript => Spent(vault[d][1]) /\ DeviceOf[vault[d][2]] = d
Unheard(t) == \A i \in 1..Len(accepted) : accepted[i].token # t
Counted(d) ==
    \A i \in 1..Len(accepted) :
        accepted[i].token = vault[d] => accepted[i].counter <= rows[d].counter

Helloes ==
    /\ \A d \in Devices : VaultIsOwn(d) /\ Counted(d)
    /\ \A i \in 1..Len(accepted) : Spent(accepted[i].token[1])
    /\ granting # NoTranscript => vault[Granted] = granting[1] /\ Unheard(granting[1])
    /\ HelloOnce

\* What was heard or stored rests on an offer that is gone, and that stays gone.
LEMMA HeardStaysSpent ==
    ASSUME Shape, [Next]_vars
    PROVE  /\ \A t \in Transcripts : Spent(t[1]) => Spent(t[1])'
           /\ \A i \in 1..Len(accepted) : accepted[i].token \in Transcripts
           /\ \A d \in Devices : vault[d] # NoTranscript => vault[d] \in Transcripts
  <1>1. \A i \in 1..Len(accepted) : accepted[i] \in [token : Transcripts, counter : 0..MaxCounter]
    BY ElementOfSeq DEF Shape
  <1>2. \A t \in Transcripts : t[1] \in Nat
    BY DEF Transcripts, OfferIds
  <1>3. \A t \in Transcripts : Spent(t[1]) => Spent(t[1])'
    BY <1>2, SpentStays
  <1> QED
    BY <1>1, <1>3 DEF Shape

\* A step that stores no token, counts nothing and hears nothing keeps it all.
LEMMA HelloesKept ==
    ASSUME Shape, Helloes, [Next]_vars, UNCHANGED accepted,
           \A d \in Devices : /\ vault'[d] \in {vault[d], NoTranscript}
                              /\ rows'[d].counter = rows[d].counter,
           granting' = NoTranscript \/ UNCHANGED <<granting, vault>>
    PROVE  Helloes'
  <1> USE HeardStaysSpent
  <1>1. \A d \in Devices : VaultIsOwn(d)'
    BY DEF Helloes, VaultIsOwn, Spent
  <1>2. \A d \in Devices : Counted(d)'
    BY TranscriptIsSome DEF Helloes, Counted
  <1>3. \A i \in 1..Len(accepted') : Spent(accepted[i].token[1])'
    BY DEF Helloes, Spent
  <1>4. granting' # NoTranscript => vault'[Granted'] = granting'[1] /\ Unheard(granting[1])'
    BY DEF Helloes, Granted, Unheard
  <1>5. HelloOnce'
    BY DEF Helloes, HelloOnce
  <1> QED
    BY <1>1, <1>2, <1>3, <1>4, <1>5 DEF Helloes

\* A token that a confirmation stores was never heard before.
LEMMA HelloesConfirmed ==
    ASSUME Shape, Helloes, [Next]_vars, Up, UNCHANGED <<started, rows, accepted>>,
           NEW o \in DOMAIN Pruned, NEW claim \in Claims, Confirmed(o, claim),
           claim.by # NoTranscript, claim.by[1] = o
    PROVE  Helloes'
  <1> USE HeardStaysSpent, PrunedProps
  <1>1. CASE UNCHANGED <<vault, granting>>
    BY <1>1, HelloesKept
  <1>2. CASE /\ DOMAIN offers' = DOMAIN Pruned \ {o}
             /\ vault' = [vault EXCEPT ![DeviceOf[claim.by[2]]] = claim.by]
             /\ granting' = <<claim.by, claim.role>>
    <2>1. PICK t \in Transcripts : t = claim.by /\ t[1] = o /\ DeviceOf[t[2]] \in Devices
      BY DevicesAssumption DEF Claims, Transcripts
    <2>2. Unheard(t)
      BY <2>1 DEF Unheard, Helloes, Spent
    <2>3. Spent(t[1])'
      BY <1>2, <2>1 DEF Spent, Shape
    <2>4. vault' = [vault EXCEPT ![DeviceOf[t[2]]] = t] /\ granting'[1] = t
      BY <1>2, <2>1
    <2>5. \A d \in Devices : vault'[d] = IF d = DeviceOf[t[2]] THEN t ELSE vault[d]
      BY <2>4 DEF Shape
    <2>6. \A d \in Devices : VaultIsOwn(d)'
      BY <2>1, <2>3, <2>5 DEF Helloes, VaultIsOwn, Spent
    <2>7. \A d \in Devices : Counted(d)'
      BY <2>2, <2>5 DEF Helloes, Counted, Unheard
    <2>8. \A i \in 1..Len(accepted') : Spent(accepted[i].token[1])'
      BY DEF Helloes, Spent
    <2>9. vault'[Granted'] = granting'[1] /\ Unheard(granting[1])'
      BY <2>1, <2>2, <2>4, <2>5 DEF Granted, Unheard
    <2>10. HelloOnce'
      BY DEF Helloes, HelloOnce
    <2> QED
      BY <2>6, <2>7, <2>8, <2>9, <2>10 DEF Helloes
  <1> QED
    BY <1>1, <1>2, ConfirmedClaims

LEMMA HelloesStep == Shape /\ Agreement /\ Helloes /\ [Next]_vars => Helloes'
  <1> SUFFICES ASSUME Shape, Agreement, Helloes, [Next]_vars PROVE Helloes'
    OBVIOUS
  <1> USE HeardStaysSpent, PrunedProps
  <1>1. CASE Sweep \/ TimePasses \/ HelloConsole \/ Restart \/ UNCHANGED vars
    BY <1>1, HelloesKept DEF Sweep, TimePasses, HelloConsole, Restart, vars
  <1>2. CASE RecordFails
    BY <1>2, HelloesKept DEF RecordFails, Shape
  <1>3. ASSUME NEW c \in Connections,
               \/ PairingStart(c) \/ PairingCancel(c) \/ PairingClaimWrong(c) \/ HangUp(c)
               \/ \E p \in Phones : PairingClaim(c, p)
        PROVE  Helloes'
    BY <1>3, HelloesKept
    DEF PairingStart, PairingCancel, PairingClaimWrong, HangUp, PairingClaim
  <1>4. ASSUME NEW c \in Connections, NEW p \in Phones, ConfirmHost(c, p)
        PROVE  Helloes'
    <2> PICK o \in DOMAIN Pruned, role \in Roles :
            /\ NumberMatches(o, numbers[p])
            /\ Confirmed(o, [ClaimOf(o) EXCEPT !.host = TRUE, !.role = role])
      BY <1>4 DEF ConfirmHost
    <2> DEFINE claim == [ClaimOf(o) EXCEPT !.host = TRUE, !.role = role]
    <2>1. offers[o].claim \in Claims /\ ClaimAgrees(o)
      BY DEF Shape, Offers, Agreement
    <2>2. claim \in Claims /\ claim.by # NoTranscript /\ claim.by[1] = o
      BY <2>1 DEF Claims, ClaimOf, NumberMatches, ClaimAgrees
    <2> HIDE DEF claim
    <2> QED
      BY <1>4, <2>2, HelloesConfirmed DEF ConfirmHost, claim
  <1>5. ASSUME NEW c \in Connections, NEW p \in Phones, ConfirmDevice(c, p)
        PROVE  Helloes'
    <2> PICK o \in DOMAIN Pruned :
            /\ NumberMatches(o, numbers[p])
            /\ Confirmed(o, [ClaimOf(o) EXCEPT !.device = TRUE])
      BY <1>5 DEF ConfirmDevice
    <2> DEFINE claim == [ClaimOf(o) EXCEPT !.device = TRUE]
    <2>1. offers[o].claim \in Claims /\ ClaimAgrees(o)
      BY DEF Shape, Offers, Agreement
    <2>2. claim \in Claims /\ claim.by # NoTranscript /\ claim.by[1] = o
      BY <2>1 DEF Claims, ClaimOf, NumberMatches, ClaimAgrees
    <2> HIDE DEF claim
    <2> QED
      BY <1>5, <2>2, HelloesConfirmed DEF ConfirmDevice, claim
  <1>6. CASE RecordGrant
    <2>1. PICK t \in Transcripts, role \in Roles : granting = <<t, role>>
      BY <1>6 DEF RecordGrant, Up, Shape
    <2>2. DeviceOf[t[2]] \in Devices /\ vault[DeviceOf[t[2]]] = t /\ Unheard(t)
      BY <1>6, <2>1, DevicesAssumption DEF RecordGrant, Up, Helloes, Granted, Transcripts
    <2>3. \A d \in Devices : d # DeviceOf[t[2]] => rows'[d] = rows[d]
      BY <1>6, <2>1 DEF RecordGrant, Granted, Shape
    <2>4. UNCHANGED <<vault, accepted, offers, started>> /\ granting' = NoTranscript
      BY <1>6 DEF RecordGrant
    <2>5. \A d \in Devices : Counted(d)'
      BY <2>2, <2>3, <2>4 DEF Helloes, Counted, Unheard
    <2>6. \A d \in Devices : VaultIsOwn(d)'
      BY <2>4 DEF Helloes, VaultIsOwn, Spent
    <2>7. \A i \in 1..Len(accepted') : Spent(accepted[i].token[1])'
      BY <2>4 DEF Helloes, Spent
    <2>8. HelloOnce'
      BY <2>4 DEF Helloes, HelloOnce
    <2> QED
      BY <2>4, <2>5, <2>6, <2>7, <2>8 DEF Helloes
  <1>7. ASSUME NEW c \in Connections, NEW device \in Devices, Revoke(c, device)
        PROVE  Helloes'
    <2>1. \A d \in Devices : rows[d] \in Rows
      BY DEF Shape
    <2>2. \A d \in Devices : rows'[d].counter = rows[d].counter
      BY <1>7, <2>1 DEF Revoke, Rows, Shape
    <2> QED
      BY <1>7, <2>2, HelloesKept DEF Revoke, Shape, Up
  <1>8. ASSUME NEW c \in Connections, NEW device \in Devices, HelloPaired(c, device)
        PROVE  Helloes'
    <2>1. PICK counter \in 1..MaxCounter :
             /\ Fresh(device, counter)
             /\ rows' = [rows EXCEPT ![device].counter = counter]
             /\ accepted' = Append(accepted, [token |-> vault[device], counter |-> counter])
      BY <1>8 DEF HelloPaired
    <2>2. /\ UNCHANGED <<vault, offers, started, granting>> /\ granting = NoTranscript
          /\ vault[device] # NoTranscript
      BY <1>8 DEF HelloPaired, Up
    <2>3. \A d \in Devices : rows[d] \in Rows
      BY DEF Shape
    <2>4. /\ rows'[device].counter = counter /\ rows[device].counter < counter
          /\ \A d \in Devices \ {device} : rows'[d] = rows[d]
          /\ rows[device].counter \in Nat /\ counter \in Nat
      BY <2>1, <2>3 DEF Shape, Rows, Fresh
    <2>5. /\ Len(accepted) \in Nat /\ Len(accepted') = Len(accepted) + 1
          /\ accepted'[Len(accepted) + 1] = [token |-> vault[device], counter |-> counter]
          /\ \A i \in 1..Len(accepted) : accepted'[i] = accepted[i]
      BY <2>1, <2>2, AppendProperties, LenProperties DEF Shape
    <2>6. \A i \in 1..Len(accepted) : accepted[i].counter \in Nat
      <3>1. \A i \in 1..Len(accepted) :
               accepted[i] \in [token : Transcripts, counter : 0..MaxCounter]
        BY ElementOfSeq DEF Shape
      <3> QED
        BY <3>1
    <2>7. ASSUME NEW d \in Devices
          PROVE  Counted(d)'
      <3>1. d # device => vault[d] # vault[device]
        BY <2>2 DEF Helloes, VaultIsOwn
      <3> QED
        BY <2>2, <2>4, <2>5, <2>6, <3>1 DEF Helloes, Counted
    <2>8. \A d \in Devices : VaultIsOwn(d)'
      BY <2>2 DEF Helloes, VaultIsOwn, Spent
    <2>9. \A i \in 1..Len(accepted') : Spent(accepted[i].token[1])'
      BY <2>2, <2>5 DEF Helloes, VaultIsOwn, Spent
    <2>10. HelloOnce'
      BY <2>4, <2>5, <2>6 DEF Helloes, HelloOnce, Counted
    <2> QED
      BY <2>2, <2>7, <2>8, <2>9, <2>10 DEF Helloes
  <1> QED
    BY <1>1, <1>2, <1>3, <1>4, <1>5, <1>6, <1>7, <1>8 DEF Next

LEMMA HelloesInit == Init => Helloes
  BY EmptySeq DEF Init, Helloes, VaultIsOwn, Counted, HelloOnce

-----------------------------------------------------------------------------
(* The bounds of offer.rs, and the connections.                            *)

Bounds ==
    /\ now <= MaxTime /\ stops \in 0..MaxStops
    /\ Cardinality(DOMAIN offers) <= MaxOpenOffers
    /\ \A o \in DOMAIN offers : offers[o].attempts < MaxAttempts

\* Offers that go make room; there are finitely many.
LEMMA FewerOffers ==
    ASSUME Shape, NEW S, S \subseteq DOMAIN offers
    PROVE  IsFiniteSet(S) /\ Cardinality(S) <= Cardinality(DOMAIN offers)
                         /\ Cardinality(S) \in Nat /\ Cardinality(DOMAIN offers) \in Nat
  <1>1. started \in Int
    BY DevicesAssumption DEF Shape
  <1>2. IsFiniteSet(1..started)
    BY <1>1, FS_Interval
  <1>3. IsFiniteSet(DOMAIN offers)
    BY <1>2, FS_Subset DEF Shape
  <1> QED
    BY <1>3, FS_Subset, FS_CardinalityType

\* Steps that open no offer and give none of its lives back keep the bounds.
LEMMA BoundsKept ==
    ASSUME Shape, Bounds, now' <= MaxTime, stops' \in 0..MaxStops,
           DOMAIN offers' \subseteq DOMAIN offers,
           \A o \in DOMAIN offers' : offers'[o].attempts < MaxAttempts
    PROVE  Bounds'
  BY FewerOffers, DevicesAssumption DEF Bounds

LEMMA BoundsStep == Shape /\ Bounds /\ [Next]_vars => Bounds'
  <1> SUFFICES ASSUME Shape, Bounds, [Next]_vars PROVE Bounds'
    OBVIOUS
  <1> USE PrunedProps
  <1>1. now <= MaxTime /\ stops \in 0..MaxStops
    BY DEF Bounds
  <1>2. \A o \in DOMAIN Pruned : offers[o].attempts < MaxAttempts /\ offers[o] \in Offers
    BY DEF Pruned, Live, Shape
  <1>3. CASE Sweep
    BY <1>1, <1>2, <1>3, BoundsKept DEF Sweep
  <1>4. CASE RecordGrant \/ RecordFails \/ HelloConsole \/ UNCHANGED vars
    BY <1>4 DEF RecordGrant, RecordFails, HelloConsole, vars, Bounds
  <1>5. CASE TimePasses
    BY <1>5, DevicesAssumption DEF TimePasses, Bounds, Shape
  <1>6. CASE Restart
    BY <1>1, <1>6, BoundsKept, DevicesAssumption DEF Restart
  <1>7. ASSUME NEW c \in Connections, PairingStart(c)
        PROVE  Bounds'
    <2>1. DOMAIN offers' = DOMAIN Pruned \cup {started + 1} /\ UNCHANGED <<now, stops>>
      BY <1>7 DEF PairingStart
    <2>2. Cardinality(DOMAIN Pruned \cup {started + 1}) <= MaxOpenOffers
      <3>1. started + 1 \notin DOMAIN Pruned
        BY DEF Shape
      <3> QED
        BY SMTT(30), <1>7, <3>1, FewerOffers, FS_AddElement, DevicesAssumption DEF PairingStart
    <2>3. \A o \in DOMAIN offers' : offers'[o].attempts < MaxAttempts
      BY <1>2, <1>7, DevicesAssumption DEF PairingStart
    <2> QED
      BY <1>1, <2>1, <2>2, <2>3 DEF Bounds
  <1>8. ASSUME NEW c \in Connections, PairingCancel(c)
        PROVE  Bounds'
    BY <1>1, <1>8, BoundsKept DEF PairingCancel, Bounds
  <1>9. ASSUME NEW c \in Connections, NEW p \in Phones, PairingClaim(c, p)
        PROVE  Bounds'
    <2>1. /\ DOMAIN offers' = DOMAIN Pruned /\ UNCHANGED <<now, stops>>
          /\ \A o \in DOMAIN Pruned : offers'[o].attempts = offers[o].attempts
      BY <1>2, <1>9 DEF PairingClaim, Offers
    <2> QED
      BY <1>1, <1>2, <2>1, BoundsKept
  <1>10. ASSUME NEW c \in Connections, PairingClaimWrong(c)
         PROVE  Bounds'
    BY <1>1, <1>10, BurntProps, BoundsKept DEF PairingClaimWrong
  <1>11. ASSUME NEW o \in DOMAIN Pruned, NEW claim, Confirmed(o, claim)
         PROVE  /\ DOMAIN offers' \subseteq DOMAIN Pruned
                /\ \A p \in DOMAIN offers' : offers'[p].attempts < MaxAttempts
    BY <1>2, <1>11 DEF Confirmed, Taken, Without, Offers
  <1>12. ASSUME NEW c \in Connections, NEW p \in Phones,
                ConfirmHost(c, p) \/ ConfirmDevice(c, p)
         PROVE  Bounds'
    BY <1>1, <1>11, <1>12, BoundsKept DEF ConfirmHost, ConfirmDevice
  <1>13. ASSUME NEW c \in Connections,
                HangUp(c) \/ \E device \in Devices : Revoke(c, device) \/ HelloPaired(c, device)
         PROVE  Bounds'
    BY <1>13 DEF HangUp, Revoke, HelloPaired, Bounds
  <1> QED
    BY <1>3, <1>4, <1>5, <1>6, <1>7, <1>8, <1>9, <1>10, <1>12, <1>13 DEF Next

LEMMA BoundsInit == Init => Bounds
  BY FS_EmptySet, DevicesAssumption DEF Init, Bounds

\* Only a revoke takes a device off the list, and it cuts the device off.
LEMMA ConnectedStep == Shape /\ ConnectedIsGranted /\ [Next]_vars => ConnectedIsGranted'
  <1> SUFFICES ASSUME Shape, ConnectedIsGranted, [Next]_vars PROVE ConnectedIsGranted'
    OBVIOUS
  <1>1. \A d \in Devices : rows[d] \in Rows
    BY DEF Shape
  <1>2. ASSUME NEW c \in Connections, NEW device \in Devices, Revoke(c, device)
        PROVE  ConnectedIsGranted'
    <2>1. \A d \in Devices \ {device} : rows'[d] = rows[d]
      BY <1>2 DEF Revoke, Shape
    <2>2. \A e \in Connections :
             bound'[e] = IF bound[e] = device THEN Nobody ELSE bound[e]
      BY <1>2 DEF Revoke, CutOff
    <2> QED
      BY <2>1, <2>2 DEF ConnectedIsGranted, Standing
  <1>3. ASSUME NEW c \in Connections, NEW device \in Devices, HelloPaired(c, device)
        PROVE  ConnectedIsGranted'
    <2>1. \A d \in Devices : rows'[d].exists = rows[d].exists /\ rows'[d].revoked = rows[d].revoked
      BY <1>1, <1>3 DEF HelloPaired, Shape, Rows
    <2>2. \A e \in Connections : bound'[e] = IF e = c THEN device ELSE bound[e]
      BY <1>3 DEF HelloPaired, Shape
    <2> QED
      BY <1>3, <2>1, <2>2 DEF HelloPaired, ConnectedIsGranted, Standing
  <1>4. CASE RecordGrant
    <2>1. \A d \in Devices : rows'[d] = rows[d] \/ (rows'[d].exists /\ ~rows'[d].revoked)
      BY <1>4 DEF RecordGrant, Shape
    <2> QED
      BY <1>4, <2>1 DEF RecordGrant, ConnectedIsGranted, Standing
  <1>5. CASE HelloConsole \/ Restart \/ (\E c \in Connections : HangUp(c))
    BY <1>5 DEF HelloConsole, Restart, HangUp, ConnectedIsGranted, Standing, Shape
  <1>6. CASE UNCHANGED <<rows, bound>>
    BY <1>6 DEF ConnectedIsGranted, Standing
  <1> QED
    BY <1>2, <1>3, <1>4, <1>5, <1>6
    DEF Next, vars, Sweep, RecordFails, TimePasses, PairingStart, PairingCancel, PairingClaim,
        PairingClaimWrong, ConfirmHost, ConfirmDevice

-----------------------------------------------------------------------------
(* The theorems.                                                           *)

DevicesInv == Shape /\ Agreement /\ Helloes /\ Bounds /\ ConnectedIsGranted

LEMMA DevicesInvariant == Spec => []DevicesInv
  <1>1. Init => DevicesInv
    BY ShapeInit, AgreementInit, HelloesInit, BoundsInit DEF DevicesInv, Init, ConnectedIsGranted
  <1>2. DevicesInv /\ [Next]_vars => DevicesInv'
    BY ShapeStep, AgreementStep, HelloesStep, BoundsStep, ConnectedStep DEF DevicesInv
  <1> QED
    BY <1>1, <1>2, PTL DEF Spec

\* Every grant goes back to one agreement of two humans: both said the number
\* the row names, the role is one the operator gave with it, and no offer ever
\* pairs twice, however many phones scan it, the vault fails or the host stops
\* (pairing_confirm, complete_pairing).
THEOREM GrantsEarned == Spec => []GrantsAreEarned
  <1>1. DevicesInv => GrantsAreEarned
    <2> SUFFICES ASSUME DevicesInv PROVE GrantsAreEarned
      OBVIOUS
    <2>1. GrantWasAgreed /\ OfferPairsOnce
      BY DEF DevicesInv, Agreement, RowAgrees, Said, GrantWasAgreed
    <2>2. \A o \in DOMAIN offers :
             /\ offers[o].attempts < MaxAttempts
             /\ offers[o].claim.by \in Transcripts \cup {NoTranscript}
             /\ BothConfirmed(offers[o].claim) => offers[o].claim.by # NoTranscript
      BY DEF DevicesInv, Shape, Bounds, Agreement, ClaimAgrees, BothConfirmed, Offers, Claims
    <2>3. TypeOK
      BY <2>2, DevicesAssumption DEF DevicesInv, Shape, Bounds, TypeOK, Rows
    <2> QED
      BY <2>1, <2>3 DEF GrantsAreEarned
  <1> QED
    BY <1>1, DevicesInvariant, PTL

\* No hello is accepted twice, and none after a later one of the same token,
\* also over re-pairing, a revoke or a restart (bump_device_auth_counter).
THEOREM HelloesOnce == Spec => []HelloOnce
  <1>1. DevicesInv => HelloOnce
    BY DEF DevicesInv, Helloes
  <1> QED
    BY <1>1, DevicesInvariant, PTL

\* No connection is ever bound to a device without a standing grant
\* (device_revoke, connection_has_device).
THEOREM ConnectedGranted == Spec => []ConnectedIsGranted
  <1>1. DevicesInv => ConnectedIsGranted
    BY DEF DevicesInv
  <1> QED
    BY <1>1, DevicesInvariant, PTL

-----------------------------------------------------------------------------
(* Tools: the parts of the invariant.                                       *)

FlowStates == {"none", "discovering", "awaiting", "exchanging", "done", "failed", "dead"}
Statuses == {"none", "connected", "needs_auth", "error"}
Kinds == {"idle", "put", "refresh", "expire", "disconnect", "claim"}
Steps == {"none", "unlink", "erase", "insert", "store", "write"}
Flows == [state : FlowStates, consent : Nat, token : Nat \cup {None}, late : BOOLEAN]
ToolRows == [status : Statuses, ref : Ids \cup {None}]
Ops == [kind : Kinds, step : Steps, ref : Ids \cup {None}, token : Nat \cup {None},
        consent : Nat, thread : Threads \cup {None}]
Bundles == [token : Nat, consent : Nat]
Sessions == [session : BOOLEAN, profile : BOOLEAN]

\* The types, closer than ToolsTypeOK has them.
ToolShapes ==
    /\ flow \in Flows
    /\ row \in ToolRows
    /\ row.ref \in refs \cup {None}
    /\ refs \subseteq Ids
    /\ DOMAIN bundles \subseteq Ids
    /\ \A id \in DOMAIN bundles : bundles[id] \in Bundles
    /\ honoured \subseteq Tokens
    /\ op \in Ops
    /\ chipped \subseteq Threads
    /\ live \in [Threads -> Sessions]
    /\ lease \in Threads \cup {None}
    /\ consents \in Nat /\ ended \in Nat /\ mishaps \in Nat
    /\ tokens \in Nat /\ tokens <= MaxTokens

\* Which steps an operation takes, and what it holds at each.
Stages ==
    /\ op.step = "none" <=> op.kind \in {"idle", "claim"}
    /\ op.kind = "idle" => op = Idle
    /\ op.step \in {"insert", "store"} => op.kind \in {"put", "refresh"}
    /\ op.step = "none" => op.ref = None
    /\ op.step = "unlink" => op.ref = row.ref
    /\ op.step \in {"erase", "insert", "store", "write"} => row.ref = None
    /\ op.step = "erase" => op.ref # None
    /\ op.step = "insert" => op.ref = None
    /\ op.step = "store" => op.ref \in refs \ DOMAIN bundles
    /\ op.step = "write" /\ op.kind \notin {"put", "refresh"} => op.ref = None
    /\ op.step = "write" /\ op.kind \in {"put", "refresh"} =>
          /\ op.ref \in refs \cap DOMAIN bundles
          /\ bundles[op.ref].consent = op.consent

\* Whatever is in the vault is pointed at, in hand, or cut loose.
Reach ==
    \A id \in DOMAIN bundles :
        \/ id \in orphans
        \/ id = row.ref
        \/ op.step \in {"erase", "store", "write"} /\ id = op.ref

\* Nothing that is recorded, or on its way to be, goes back to before the last
\* disconnect.
Current ==
    /\ ended <= consents
    /\ op.kind = "disconnect" => flow.state = "none"
    /\ flow.state # "none" => ended < flow.consent /\ flow.consent <= consents
    /\ flow.state = "done" => flow.token \in Nat
    /\ op.kind \in {"put", "refresh"} => op.token \in Nat /\ ended < op.consent
    /\ row.ref \in DOMAIN bundles => ended < bundles[row.ref].consent

\* Tokens are new when they are issued, and a refused one stays refused.
TokensSpent ==
    /\ \A id \in DOMAIN bundles : bundles[id].token <= tokens
    /\ flow.state = "done" => flow.token <= tokens
    /\ op.kind \in {"put", "refresh"} => op.token <= tokens
    /\ op.kind = "expire" /\ op.ref \in DOMAIN bundles => bundles[op.ref].token \notin honoured

\* A session that has the profile is the one that holds the lease.
Leased == \A t \in Threads : live[t].profile => lease = t /\ live[t].session

GrantInv == ToolShapes /\ Stages /\ Reach /\ Current /\ TokensSpent

-----------------------------------------------------------------------------
LEMMA NoneIsNew == None \notin Threads /\ None \notin Nat /\ None \notin Ids
  <1>1. None \notin Threads /\ None \notin Nat
    BY ToolsAssumption
  <1>2. MaxMishaps \in Nat
    BY ToolsAssumption
  <1> QED  BY <1>1, <1>2 DEF Ids

\* What an operation begins as, and what follows it, are operations.
LEMMA OpsAreOps ==
  ASSUME ToolShapes
  PROVE  /\ Idle \in Ops
         /\ Onward \in Ops /\ Onward.step = "none" /\ Onward.ref = None
         /\ Onward.kind \in {"idle", "claim"}
         /\ Onward.kind = "idle" => Onward = Idle
         /\ NoFlow \in Flows /\ NoConnection \in ToolRows
         /\ NoSession \in Sessions
  <1>1. Idle \in Ops
    BY DEF Idle, Ops, Kinds, Steps
  <1>2. CASE op.thread = None
    BY <1>1, <1>2 DEF Onward, Idle, Ops, Kinds, Steps, NoFlow, Flows, FlowStates, NoConnection, ToolRows, Statuses, NoSession, Sessions
  <1>3. CASE op.thread # None
    <2>1. op.thread \in Threads
      BY <1>3 DEF ToolShapes, Ops
    <2>2. Onward = [kind |-> "claim", step |-> "none", ref |-> None, token |-> None, consent |-> 0, thread |-> op.thread]
      BY <1>3 DEF Onward, Idle
    <2> QED  BY <1>1, <2>1, <2>2 DEF Ops, Kinds, Steps, NoFlow, Flows, FlowStates, NoConnection, ToolRows, Statuses, NoSession, Sessions
  <1> QED  BY <1>2, <1>3

LEMMA GrantedInit == ToolsInit => GrantInv
  <1> SUFFICES ASSUME ToolsInit PROVE GrantInv
    OBVIOUS
  <1>1. DOMAIN bundles = {}
    BY DEF ToolsInit
  <1>2. tokens = 0 /\ 0 <= MaxTokens
    BY ToolsAssumption DEF ToolsInit
  <1>3. ToolShapes
    BY <1>1, <1>2, NoneIsNew DEF ToolsInit, ToolShapes, NoFlow, NoConnection, Idle, NoSession, Flows, FlowStates, ToolRows, Statuses, Ops, Kinds, Steps, Sessions
  <1>4. Stages /\ Reach
    BY <1>1 DEF ToolsInit, Stages, Reach, Idle, NoConnection
  <1>5. Current /\ TokensSpent
    BY <1>1, <1>2 DEF ToolsInit, Current, TokensSpent, Idle, NoFlow, NoConnection
  <1> QED  BY <1>3, <1>4, <1>5 DEF GrantInv

-----------------------------------------------------------------------------
(* The sign-in.                                                            *)

LEMMA SignInKeeps ==
  ASSUME GrantInv, SignIn
  PROVE  GrantInv'
  <1> USE DEF GrantInv
  <1>1. CASE FlowMoves
    <2>1. flow.state \in {"discovering", "awaiting"}
      BY <1>1 DEF FlowMoves
    <2>2. flow' \in Flows /\ flow'.state \in {"awaiting", "exchanging"} /\ flow'.consent = flow.consent
      BY <1>1, <2>1 DEF FlowMoves, ToolShapes, Flows, FlowStates
    <2> QED  BY <1>1, <2>1, <2>2 DEF FlowMoves, ToolShapes, Stages, Reach, Current, TokensSpent
  <1>2. CASE FlowDone
    <2>1. flow' \in Flows /\ flow'.state = "done" /\ flow'.consent = flow.consent /\ flow'.token = tokens + 1
      <3>1. flow \in Flows /\ tokens + 1 \in Nat
        BY DEF ToolShapes
      <3>2. flow' = [state |-> "done", consent |-> flow.consent, token |-> tokens + 1, late |-> flow.late]
        BY <1>2, <3>1 DEF FlowDone, Flows
      <3> QED  BY <3>1, <3>2 DEF Flows, FlowStates
    <2>2. tokens + 1 \in Tokens
      BY <1>2, ToolsAssumption DEF FlowDone, ToolShapes, Tokens
    <2>3. ToolShapes'
      BY <1>2, <2>1, <2>2, ToolsAssumption DEF FlowDone, ToolShapes
    <2>4. Stages' /\ Reach'
      BY <1>2 DEF FlowDone, Stages, Reach
    <2>5. Current'
      BY <1>2, <2>1 DEF FlowDone, Current, ToolShapes
    <2>6. TokensSpent'
      <3>1. \A id \in DOMAIN bundles : bundles[id].token \in Nat /\ bundles[id].token <= tokens
        BY DEF ToolShapes, Bundles, TokensSpent
      <3>2. op.kind \in {"put", "refresh"} => op.token \in Nat /\ op.token <= tokens
        BY DEF Current, TokensSpent
      <3>3. tokens \in Nat
        BY DEF ToolShapes
      <3>4. \A id \in DOMAIN bundles : bundles[id].token <= tokens + 1 /\ bundles[id].token # tokens + 1
        BY <3>1, <3>3
      <3>5. op.kind \in {"put", "refresh"} => op.token <= tokens + 1
        BY <3>2, <3>3
      <3>6. op.kind = "expire" /\ op.ref \in DOMAIN bundles => bundles[op.ref].token \notin honoured \cup {tokens + 1}
        BY <3>4 DEF TokensSpent
      <3> QED  BY <1>2, <2>1, <3>3, <3>4, <3>5, <3>6 DEF FlowDone, TokensSpent
    <2> QED  BY <2>3, <2>4, <2>5, <2>6
  <1>3. ASSUME NEW how \in {"failed", "dead"}, FlowFails(how)
        PROVE  GrantInv'
    <2>1. flow' \in Flows /\ flow'.state = how /\ flow'.consent = flow.consent
      BY <1>3 DEF FlowFails, ToolShapes, Flows, FlowStates
    <2> QED  BY <1>3, <2>1 DEF FlowFails, ToolShapes, Stages, Reach, Current, TokensSpent
  <1>4. CASE FlowIsLate
    <2>1. flow' \in Flows /\ flow'.state = flow.state /\ flow'.consent = flow.consent /\ flow'.token = flow.token
      BY <1>4 DEF FlowIsLate, ToolShapes, Flows
    <2> QED  BY <1>4, <2>1 DEF FlowIsLate, ToolShapes, Stages, Reach, Current, TokensSpent
  <1> QED  BY <1>1, <1>2, <1>3, <1>4 DEF SignIn

-----------------------------------------------------------------------------
(* The steps of an operation.                                              *)

LEMMA UnlinkKeeps ==
  ASSUME GrantInv, Unlink
  PROVE  GrantInv'
  <1> USE DEF GrantInv
  <1>1. op \in Ops /\ row \in ToolRows /\ op.step = "unlink" /\ op.ref = row.ref
    BY DEF ToolShapes, Stages, Unlink
  <1>2. op.kind \in {"put", "refresh", "expire", "disconnect"}
    BY <1>1 DEF Stages, Ops, Kinds
  <1>3. /\ op' \in Ops /\ op'.kind = op.kind /\ op'.ref = op.ref /\ op'.token = op.token
        /\ op'.consent = op.consent
        /\ op'.step = IF op.ref = None THEN AfterRevoke ELSE "erase"
    <2>1. AfterRevoke \in Steps
      BY DEF AfterRevoke, Steps
    <2>2. op' = [op EXCEPT !.step = IF op.ref = None THEN AfterRevoke ELSE "erase"]
      BY DEF Unlink
    <2> QED  BY <1>1, <2>1, <2>2 DEF Ops, Steps
  <1>4. row' \in ToolRows /\ row'.ref = None
    BY <1>1 DEF Unlink, ToolRows
  <1>5. refs' = refs \ {op.ref}
    BY <1>1, NoneIsNew DEF Unlink, ToolShapes
  <1>6. ended' \in Nat /\ ended' <= consents
    BY DEF Unlink, ToolShapes, Current
  <1>7. ToolShapes'
    BY <1>3, <1>4, <1>5, <1>6 DEF Unlink, ToolShapes
  <1>8. Stages'
    <2>1. CASE op.ref = None
      BY <1>1, <1>2, <1>3, <1>4, <2>1 DEF Unlink, Stages, AfterRevoke, Idle
    <2>2. CASE op.ref # None
      BY <1>1, <1>2, <1>3, <1>4, <2>2 DEF Unlink, Stages, Idle
    <2> QED  BY <2>1, <2>2
  <1>9. Reach'
    BY <1>1, <1>3, NoneIsNew DEF Unlink, Reach, ToolShapes
  <1>10. Current'
    <2>1. None \notin DOMAIN bundles
      BY NoneIsNew DEF ToolShapes
    <2>2. CASE op.kind = "disconnect"
      BY <1>3, <1>4, <1>6, <2>1, <2>2 DEF Unlink, Current
    <2>3. CASE op.kind # "disconnect"
      BY <1>3, <1>4, <1>6, <2>1, <2>3 DEF Unlink, Current
    <2> QED  BY <2>2, <2>3
  <1>11. TokensSpent'
    BY <1>3 DEF Unlink, TokensSpent
  <1> QED  BY <1>7, <1>8, <1>9, <1>10, <1>11

LEMMA EraseKeeps ==
  ASSUME GrantInv, Erase
  PROVE  GrantInv'
  <1> USE DEF GrantInv
  <1>1. op \in Ops /\ op.step = "erase" /\ row.ref = None
    BY DEF ToolShapes, Stages, Erase
  <1>2. op.kind \in {"put", "refresh", "expire", "disconnect"}
    BY <1>1 DEF Stages, Ops, Kinds
  <1>3. /\ op' \in Ops /\ op'.kind = op.kind /\ op'.ref = None /\ op'.token = op.token
        /\ op'.consent = op.consent /\ op'.step = AfterRevoke
    <2>1. AfterRevoke \in Steps
      BY DEF AfterRevoke, Steps
    <2>2. op' = [op EXCEPT !.step = AfterRevoke, !.ref = None]
      BY DEF Erase
    <2> QED  BY <1>1, <2>1, <2>2 DEF Ops
  <1>4. DOMAIN bundles' = DOMAIN bundles \ {op.ref} /\ \A id \in DOMAIN bundles' : bundles'[id] = bundles[id]
    BY DEF Erase
  <1>5. None \notin DOMAIN bundles
    BY NoneIsNew DEF ToolShapes
  <1>6. ToolShapes'
    BY <1>3, <1>4 DEF Erase, ToolShapes
  <1>7. Stages'
    BY <1>1, <1>2, <1>3 DEF Erase, Stages, AfterRevoke, Idle
  <1>8. Reach'
    BY <1>1, <1>4 DEF Erase, Reach
  <1>9. Current'
    BY <1>1, <1>3, <1>4, <1>5 DEF Erase, Current
  <1>10. TokensSpent'
    BY <1>3, <1>4, <1>5 DEF Erase, TokensSpent
  <1> QED  BY <1>6, <1>7, <1>8, <1>9, <1>10

LEMMA InsertKeeps ==
  ASSUME GrantInv, Insert
  PROVE  GrantInv'
  <1> USE DEF GrantInv
  <1>1. op \in Ops /\ op.step = "insert" /\ row.ref = None /\ op.kind \in {"put", "refresh"}
    BY DEF ToolShapes, Stages, Insert
  <1>2. PICK id \in Ids \ (refs \cup DOMAIN bundles) :
           refs' = refs \cup {id} /\ op' = [op EXCEPT !.step = "store", !.ref = id]
    BY DEF Insert
  <1>3. /\ op' \in Ops /\ op'.kind = op.kind /\ op'.ref = id /\ op'.token = op.token
        /\ op'.consent = op.consent /\ op'.step = "store"
    BY <1>1, <1>2 DEF Ops, Steps
  <1>4. ToolShapes'
    BY <1>2, <1>3 DEF Insert, ToolShapes
  <1>5. Stages'
    BY <1>1, <1>2, <1>3 DEF Insert, Stages, Idle
  <1>6. Reach'
    BY <1>1, <1>3 DEF Insert, Reach
  <1>7. Current' /\ TokensSpent'
    BY <1>1, <1>3 DEF Insert, Current, TokensSpent
  <1> QED  BY <1>4, <1>5, <1>6, <1>7

LEMMA StoreKeeps ==
  ASSUME GrantInv, Store
  PROVE  GrantInv'
  <1> USE DEF GrantInv
  <1>1. op \in Ops /\ op.step = "store" /\ row.ref = None /\ op.kind \in {"put", "refresh"}
    BY DEF ToolShapes, Stages, Store
  <1>2. op.ref \in refs \ DOMAIN bundles /\ op.ref \in Ids
    BY <1>1 DEF Stages, ToolShapes
  <1>3. /\ op' \in Ops /\ op'.kind = op.kind /\ op'.ref = op.ref /\ op'.token = op.token
        /\ op'.consent = op.consent /\ op'.step = "write"
    BY <1>1 DEF Store, Ops, Steps
  <1>4. /\ DOMAIN bundles' = DOMAIN bundles \cup {op.ref}
        /\ bundles'[op.ref] = [token |-> op.token, consent |-> op.consent]
        /\ \A id \in DOMAIN bundles : bundles'[id] = bundles[id]
    BY <1>2 DEF Store
  <1>5. op.token \in Nat /\ op.consent \in Nat /\ op.token <= tokens
    BY <1>1 DEF Current, TokensSpent, Ops
  <1>6. ToolShapes'
    BY <1>2, <1>3, <1>4, <1>5 DEF Store, ToolShapes, Bundles
  <1>7. Stages'
    BY <1>1, <1>2, <1>3, <1>4 DEF Store, Stages, Idle
  <1>8. Reach'
    BY <1>1, <1>3, <1>4 DEF Store, Reach
  <1>9. None \notin DOMAIN bundles \cup {op.ref}
    BY <1>2, NoneIsNew DEF ToolShapes
  <1>10. Current'
    BY <1>1, <1>3, <1>4, <1>9 DEF Store, Current
  <1>11. TokensSpent'
    BY <1>1, <1>3, <1>4, <1>5 DEF Store, TokensSpent
  <1> QED  BY <1>6, <1>7, <1>8, <1>10, <1>11

LEMMA WriteKeeps ==
  ASSUME GrantInv, Write
  PROVE  GrantInv'
  <1> USE DEF GrantInv
  <1>1. op \in Ops /\ op.step = "write" /\ row.ref = None
    BY DEF ToolShapes, Stages, Write
  <1>2. op.kind \in {"put", "refresh", "expire", "disconnect"}
    BY <1>1 DEF Stages, Ops, Kinds
  <1>3. /\ op' \in Ops /\ op'.step = "none" /\ op'.ref = None
        /\ op'.kind \in {"idle", "claim"} /\ (op'.kind = "idle" => op' = Idle)
    BY OpsAreOps DEF Write
  <1>4. CASE op.kind \in {"put", "refresh"}
    <2>1. op.ref \in refs \cap DOMAIN bundles /\ bundles[op.ref].consent = op.consent /\ ended < op.consent
      BY <1>1, <1>4 DEF Stages, Current
    <2>2. row' = [status |-> "connected", ref |-> op.ref]
      BY <1>4 DEF Write
    <2>3. row' \in ToolRows /\ row'.ref = op.ref
      BY <2>1, <2>2 DEF ToolRows, Statuses, ToolShapes
    <2>9. UNCHANGED <<flow, refs, bundles, honoured, chipped, live, lease, consents, tokens,
                      mishaps, ended, orphans>>
      BY DEF Write
    <2>4. ToolShapes'
      BY <1>3, <2>1, <2>3, <2>9 DEF ToolShapes
    <2>5. Stages'
      BY <1>3 DEF Stages
    <2>6. Reach'
      BY <1>1, <2>3, <2>9, NoneIsNew DEF ToolShapes, Reach
    <2>7. Current'
      BY <1>3, <2>1, <2>3 DEF Write, Current
    <2>8. TokensSpent'
      BY <1>3 DEF Write, TokensSpent
    <2> QED  BY <2>4, <2>5, <2>6, <2>7, <2>8
  <1>5. CASE op.kind \in {"expire", "disconnect"}
    <2>1. op.ref = None /\ None \notin DOMAIN bundles
      BY <1>1, <1>5, NoneIsNew DEF Stages, ToolShapes
    <2>2. row' \in ToolRows /\ row'.ref = None
      BY <1>5 DEF Write, ToolRows, Statuses, NoConnection
    <2>3. ToolShapes'
      BY <1>3, <2>2 DEF Write, ToolShapes
    <2>4. Stages'
      BY <1>3 DEF Stages
    <2>5. Reach'
      BY <2>1 , <1>1 DEF Write, Reach
    <2>6. Current'
      BY <1>3, <2>1, <2>2 DEF Write, Current
    <2>7. TokensSpent'
      BY <1>3 DEF Write, TokensSpent
    <2> QED  BY <2>3, <2>4, <2>5, <2>6, <2>7
  <1> QED  BY <1>2, <1>4, <1>5

LEMMA EraseFailsKeeps ==
  ASSUME GrantInv, EraseFails
  PROVE  GrantInv'
  <1> USE DEF GrantInv
  <1>1. op \in Ops /\ op.step = "erase" /\ row.ref = None
    BY DEF ToolShapes, Stages, EraseFails
  <1>2. /\ op' \in Ops /\ op'.step = "none" /\ op'.ref = None
        /\ op'.kind \in {"idle", "claim"} /\ (op'.kind = "idle" => op' = Idle)
    BY OpsAreOps DEF EraseFails
  <1>3. None \notin DOMAIN bundles
    BY NoneIsNew DEF ToolShapes
  <1>4. ToolShapes'
    BY <1>2 DEF EraseFails, ToolShapes
  <1>5. Stages'
    BY <1>2 DEF Stages
  <1>6. Reach'
    BY <1>1, <1>3 DEF EraseFails, Reach
  <1>7. Current' /\ TokensSpent'
    BY <1>1, <1>2 DEF EraseFails, Current, TokensSpent
  <1> QED  BY <1>4, <1>5, <1>6, <1>7

LEMMA StoreFailsKeeps ==
  ASSUME GrantInv, StoreFails
  PROVE  GrantInv'
  <1> USE DEF GrantInv
  <1>1. op \in Ops /\ op.step = "store" /\ row.ref = None /\ op.ref \notin DOMAIN bundles
    BY DEF ToolShapes, Stages, StoreFails
  <1>2. /\ op' \in Ops /\ op'.step = "none" /\ op'.ref = None
        /\ op'.kind \in {"idle", "claim"} /\ (op'.kind = "idle" => op' = Idle)
    BY OpsAreOps DEF StoreFails
  <1>3. None \notin DOMAIN bundles
    BY NoneIsNew DEF ToolShapes
  <1>4. ToolShapes'
    BY <1>1, <1>2 DEF StoreFails, ToolShapes
  <1>5. Stages'
    BY <1>2 DEF Stages
  <1>6. Reach'
    BY <1>1, <1>3 DEF StoreFails, Reach
  <1>7. Current' /\ TokensSpent'
    BY <1>1, <1>2 DEF StoreFails, Current, TokensSpent
  <1> QED  BY <1>4, <1>5, <1>6, <1>7

-----------------------------------------------------------------------------
(* The handlers.                                                           *)

\* An operation begins.
LEMMA BeginFits ==
  ASSUME GrantInv, op = Idle,
         NEW kind \in {"put", "refresh", "expire", "disconnect"},
         NEW token \in Nat \cup {None}, NEW consent \in Nat, NEW thread \in Threads \cup {None}
  PROVE  /\ Begin(kind, token, consent, thread) \in Ops
         /\ Begin(kind, token, consent, thread).kind = kind
         /\ Begin(kind, token, consent, thread).step = "unlink"
         /\ Begin(kind, token, consent, thread).ref = row.ref
         /\ Begin(kind, token, consent, thread).token = token
         /\ Begin(kind, token, consent, thread).consent = consent
  <1>1. row.ref \in Ids \cup {None}
    BY DEF GrantInv, ToolShapes, ToolRows
  <1> QED  BY <1>1 DEF Begin, Ops, Kinds, Steps

LEMMA FailKeepsRef ==
  ASSUME ToolShapes, Fail
  PROVE  row' \in ToolRows /\ row'.ref = row.ref
  BY DEF ToolShapes, Fail, ToolRows, Statuses

LEMMA DrainKeeps ==
  ASSUME GrantInv, Drain
  PROVE  GrantInv'
  <1> USE DEF GrantInv
  <1>1. op = Idle /\ flow' = NoFlow /\ flow' \in Flows /\ flow'.state = "none"
    BY OpsAreOps DEF Drain, NoFlow
  <1>2. op.step = "none" /\ op.kind = "idle"
    BY <1>1 DEF Idle
  <1>3. UNCHANGED <<refs, bundles, honoured, chipped, live, lease, consents, tokens, mishaps,
                    ended, orphans>>
    BY DEF Drain
  <1>4. CASE flow.state = "done"
    <2>1. /\ flow.token \in Nat /\ flow.token <= tokens
          /\ flow.consent \in Nat /\ ended < flow.consent
      BY <1>4 DEF Current, TokensSpent, ToolShapes, Flows
    <2>2. /\ op' \in Ops /\ op'.kind = "put" /\ op'.step = "unlink" /\ op'.ref = row.ref
          /\ op'.token = flow.token /\ op'.consent = flow.consent
      BY <1>1, <1>4, <2>1, BeginFits DEF Drain
    <2>3. UNCHANGED row
      BY <1>4 DEF Drain
    <2>4. ToolShapes'
      BY <1>1, <1>3, <2>2, <2>3 DEF ToolShapes
    <2>5. Stages' /\ Reach'
      BY <1>2, <1>3, <2>2, <2>3 DEF Stages, Reach
    <2>6. Current' /\ TokensSpent'
      BY <1>1, <1>3, <2>1, <2>2, <2>3 DEF Current, TokensSpent
    <2> QED  BY <2>4, <2>5, <2>6
  <1>5. CASE flow.state # "done"
    <2>1. UNCHANGED op /\ row' \in ToolRows /\ row'.ref = row.ref
      BY <1>5, FailKeepsRef DEF Drain
    <2>2. ToolShapes'
      BY <1>1, <1>3, <2>1 DEF ToolShapes
    <2>3. Stages' /\ Reach'
      BY <1>2, <1>3, <2>1 DEF Stages, Reach
    <2>4. Current' /\ TokensSpent'
      BY <1>1, <1>3, <2>1 DEF Current, TokensSpent
    <2> QED  BY <2>2, <2>3, <2>4
  <1> QED  BY <1>4, <1>5

LEMMA ConnectKeeps ==
  ASSUME GrantInv, Connect
  PROVE  GrantInv'
  <1> USE DEF GrantInv
  <1>1. op = Idle /\ op.kind = "idle" /\ consents \in Nat /\ ended \in Nat /\ ended <= consents
    BY DEF Connect, Idle, ToolShapes, Current
  <1>2. flow' = [state |-> "discovering", consent |-> consents + 1, token |-> None, late |-> FALSE]
    BY DEF Connect, NoFlow
  <1>3. flow' \in Flows /\ flow'.state = "discovering" /\ flow'.consent = consents + 1
    BY <1>1, <1>2 DEF Flows, FlowStates
  <1>4. consents' = consents + 1
        /\ UNCHANGED <<row, refs, bundles, honoured, op, chipped, live, lease, tokens, mishaps,
                       ended, orphans>>
    BY DEF Connect
  <1>5. ToolShapes'
    BY <1>1, <1>3, <1>4 DEF ToolShapes
  <1>6. Stages' /\ Reach'
    BY <1>4 DEF Stages, Reach
  <1>7. Current'
    BY <1>1, <1>3, <1>4 DEF Current
  <1>8. TokensSpent'
    BY <1>3, <1>4 DEF TokensSpent
  <1> QED  BY <1>5, <1>6, <1>7, <1>8

LEMMA DisconnectKeeps ==
  ASSUME GrantInv, Disconnect
  PROVE  GrantInv'
  <1> USE DEF GrantInv
  <1>1. op = Idle /\ op.step = "none" /\ op.kind = "idle"
    BY DEF Disconnect, Idle
  <1>2. flow' \in Flows /\ flow'.state = "none"
    BY OpsAreOps DEF Disconnect, CancelFlow, NoFlow
  <1>3. op' \in Ops /\ op'.kind = "disconnect" /\ op'.step = "unlink" /\ op'.ref = row.ref
    <2>1. op' = [kind |-> "disconnect", step |-> "unlink", ref |-> row.ref, token |-> None,
                 consent |-> 0, thread |-> None]
      BY DEF Disconnect, Begin
    <2>2. row.ref \in Ids \cup {None}
      BY DEF ToolShapes, ToolRows
    <2>3. op' \in Ops
      BY <2>1, <2>2 DEF Ops, Kinds, Steps
    <2> QED  BY <2>1, <2>3
  <1>4. UNCHANGED <<row, refs, bundles, honoured, chipped, live, lease, consents, tokens,
                    mishaps, ended, orphans>>
    BY DEF Disconnect
  <1>5. ToolShapes'
    BY <1>2, <1>3, <1>4 DEF ToolShapes
  <1>6. Stages' /\ Reach'
    BY <1>1, <1>3, <1>4 DEF Stages, Reach
  <1>7. Current' /\ TokensSpent'
    BY <1>2, <1>3, <1>4 DEF Current, TokensSpent
  <1> QED  BY <1>5, <1>6, <1>7

LEMMA ClaimFits ==
  ASSUME NEW t \in Threads
  PROVE  LET o == [Idle EXCEPT !.kind = "claim", !.thread = t]
         IN  o \in Ops /\ o.kind = "claim" /\ o.step = "none" /\ o.ref = None
  BY DEF Idle, Ops, Kinds, Steps

\* bearer_for changes nothing but the row's status, the provider's tokens and
\* the operation.
LEMMA SpawnKeeps ==
  ASSUME GrantInv, NEW t \in Threads, Spawn(t)
  PROVE  GrantInv'
  <1> USE DEF GrantInv
  <1>1. op = Idle /\ op.step = "none" /\ op.kind = "idle"
    BY DEF Spawn, Idle
  <1>2. UNCHANGED <<flow, refs, bundles, chipped, live, lease, consents, mishaps, ended, orphans>>
    BY DEF Spawn
  <1>3. /\ \A id \in DOMAIN bundles : bundles[id].token \in Nat /\ bundles[id].consent \in Nat
        /\ \A id \in DOMAIN bundles : bundles[id].token <= tokens
        /\ tokens \in Nat
    BY DEF ToolShapes, Bundles, TokensSpent
  <1>4. ASSUME op' = [Idle EXCEPT !.kind = "claim", !.thread = t], UNCHANGED <<honoured, tokens>>,
               row' \in ToolRows, row'.ref = row.ref
        PROVE  GrantInv'
    <2>1. op' \in Ops /\ op'.kind = "claim" /\ op'.step = "none" /\ op'.ref = None
      BY <1>4, ClaimFits
    <2>2. ToolShapes'
      BY <1>2, <1>4, <2>1 DEF ToolShapes
    <2>3. Stages' /\ Reach'
      BY <1>1, <1>2, <1>4, <2>1 DEF Stages, Reach
    <2>4. Current' /\ TokensSpent'
      BY <1>2, <1>4, <2>1 DEF Current, TokensSpent
    <2> QED  BY <2>2, <2>3, <2>4
  <1>5. CASE op' = [Idle EXCEPT !.kind = "claim", !.thread = t] /\ UNCHANGED <<row, honoured, tokens>>
    BY <1>4, <1>5 DEF ToolShapes
  <1>6. CASE Held /\ Unanswered(t)
    BY <1>4, <1>6, FailKeepsRef DEF Unanswered
  <1>7. CASE /\ Held /\ bundles[row.ref].token \in honoured /\ tokens < MaxTokens
             /\ tokens' = tokens + 1
             /\ \E retired \in {{}, {bundles[row.ref].token}} :
                   honoured' = (honoured \ retired) \cup {tokens + 1}
             /\ op' = Begin("refresh", tokens + 1, bundles[row.ref].consent, t)
             /\ UNCHANGED row
    <2>1. bundles[row.ref].consent \in Nat /\ ended < bundles[row.ref].consent /\ tokens + 1 \in Nat
      BY <1>3, <1>7 DEF Held, Current
    <2>2. /\ op' \in Ops /\ op'.kind = "refresh" /\ op'.step = "unlink" /\ op'.ref = row.ref
          /\ op'.token = tokens + 1 /\ op'.consent = bundles[row.ref].consent
      BY <1>1, <1>7, <2>1, BeginFits
    <2>3. tokens + 1 \in Tokens /\ tokens + 1 <= MaxTokens
      BY <1>3, <1>7, ToolsAssumption DEF Tokens
    <2>4. honoured' \subseteq honoured \cup {tokens + 1}
      BY <1>7
    <2>5. ToolShapes'
      BY <1>2, <1>7, <2>1, <2>2, <2>3, <2>4 DEF ToolShapes
    <2>6. Stages' /\ Reach'
      BY <1>1, <1>2, <1>7, <2>2 DEF Stages, Reach
    <2>7. Current'
      BY <1>2, <1>7, <2>1, <2>2 DEF Current
    <2>8. TokensSpent'
      <3>1. \A id \in DOMAIN bundles : bundles[id].token <= tokens + 1
        BY <1>3
      <3>2. flow.state = "done" => flow.token <= tokens + 1
        BY <1>3 DEF Current, TokensSpent
      <3>3. tokens + 1 <= tokens + 1
        BY <1>3
      <3> QED  BY <1>2, <1>7, <2>2, <3>1, <3>2, <3>3 DEF TokensSpent
    <2> QED  BY <2>5, <2>6, <2>7, <2>8
  <1>8. CASE /\ Held /\ bundles[row.ref].token \notin honoured
             /\ op' = Begin("expire", None, 0, t)
             /\ UNCHANGED <<row, honoured, tokens>>
    <2>1. op' \in Ops /\ op'.kind = "expire" /\ op'.step = "unlink" /\ op'.ref = row.ref
      <3>1. row.ref \in Ids \cup {None}
        BY DEF ToolShapes, ToolRows
      <3>2. op' = [kind |-> "expire", step |-> "unlink", ref |-> row.ref, token |-> None,
                   consent |-> 0, thread |-> t]
        BY <1>8 DEF Begin
      <3> QED  BY <3>1, <3>2 DEF Ops, Kinds, Steps
    <2>2. ToolShapes'
      BY <1>2, <1>8, <2>1 DEF ToolShapes
    <2>3. Stages' /\ Reach'
      BY <1>1, <1>2, <1>8, <2>1 DEF Stages, Reach
    <2>4. Current' /\ TokensSpent'
      BY <1>2, <1>8, <2>1 DEF Current, TokensSpent
    <2> QED  BY <2>2, <2>3, <2>4
  <1> QED  BY <1>5, <1>6, <1>7, <1>8 DEF Spawn

LEMMA AttachKeeps ==
  ASSUME GrantInv, NEW t \in Threads, Attach(t) \/ AttachFails(t)
  PROVE  GrantInv'
  <1> USE DEF GrantInv
  <1>1. op.kind = "claim" /\ op.step = "none" /\ op' = Idle
    BY DEF Attach, AttachFails, Stages
  <1>2. op' \in Ops /\ op'.kind = "idle" /\ op'.step = "none" /\ op'.ref = None
    BY <1>1, OpsAreOps DEF Idle
  <1>3. live' \in [Threads -> Sessions] /\ lease' \in Threads \cup {None}
    <2>1. live \in [Threads -> Sessions] /\ lease \in Threads \cup {None}
      BY DEF ToolShapes
    <2>2. CASE Attach(t)
      <3>1. PICK g \in BOOLEAN :
               /\ lease' = IF g THEN t ELSE lease
               /\ live' = [live EXCEPT ![t] = [session |-> TRUE, profile |-> g]]
        BY <2>2 DEF Attach, MayLease
      <3>2. [session |-> TRUE, profile |-> g] \in Sessions
        BY DEF Sessions
      <3> QED  BY <2>1, <3>1, <3>2
    <2>3. CASE AttachFails(t)
      BY <2>1, <2>3 DEF AttachFails
    <2> QED  BY <2>2, <2>3
  <1>4. UNCHANGED <<flow, row, refs, bundles, honoured, chipped, consents, tokens, mishaps,
                    ended, orphans>>
    BY DEF Attach, AttachFails
  <1>5. ToolShapes'
    BY <1>2, <1>3, <1>4 DEF ToolShapes
  <1>6. Stages' /\ Reach'
    BY <1>1, <1>2, <1>4 DEF Stages, Reach
  <1>7. Current' /\ TokensSpent'
    BY <1>2, <1>4 DEF Current, TokensSpent
  <1> QED  BY <1>5, <1>6, <1>7

-----------------------------------------------------------------------------
(* The surroundings.                                                       *)

LEMMA AroundKeeps ==
  ASSUME GrantInv, NEW t \in Threads, Leave(t) \/ Chip(t)
  PROVE  GrantInv'
  <1> USE DEF GrantInv
  <1>1. live' \in [Threads -> Sessions] /\ chipped' \subseteq Threads
    BY OpsAreOps DEF Leave, Chip, ToolShapes
  <1>2. UNCHANGED <<flow, row, refs, bundles, honoured, op, lease, consents, tokens, mishaps,
                    ended, orphans>>
    BY DEF Leave, Chip
  <1>3. ToolShapes'
    BY <1>1, <1>2 DEF ToolShapes
  <1>4. Stages' /\ Reach'
    BY <1>2 DEF Stages, Reach
  <1>5. Current' /\ TokensSpent'
    BY <1>2 DEF Current, TokensSpent
  <1> QED  BY <1>3, <1>4, <1>5

LEMMA RetireKeeps ==
  ASSUME GrantInv, NEW token \in Tokens, Retire(token)
  PROVE  GrantInv'
  <1> USE DEF GrantInv
  <1>1. honoured' \subseteq honoured
    BY DEF Retire
  <1>2. UNCHANGED <<flow, row, refs, bundles, op, chipped, live, lease, consents, tokens, mishaps,
                    ended, orphans>>
    BY DEF Retire
  <1>3. ToolShapes'
    BY <1>1, <1>2 DEF ToolShapes
  <1>4. Stages' /\ Reach'
    BY <1>2 DEF Stages, Reach
  <1>5. Current' /\ TokensSpent'
    BY <1>1, <1>2 DEF Current, TokensSpent
  <1> QED  BY <1>3, <1>4, <1>5

LEMMA RelaunchKeeps ==
  ASSUME GrantInv, Relaunch
  PROVE  GrantInv'
  <1> USE DEF GrantInv
  <1>1. op' = Idle /\ op' \in Ops /\ op'.kind = "idle" /\ op'.step = "none" /\ op'.ref = None
    BY OpsAreOps DEF Relaunch, Idle
  <1>2. flow' \in Flows /\ flow'.state = "none"
    BY OpsAreOps DEF Relaunch, NoFlow
  <1>3. live' \in [Threads -> Sessions] /\ lease' \in Threads \cup {None}
    BY OpsAreOps DEF Relaunch
  <1>4. mishaps' \in Nat
    BY DEF Relaunch, ToolShapes
  <1>5. UNCHANGED <<row, refs, bundles, honoured, chipped, consents, tokens, ended>>
    BY DEF Relaunch
  <1>6. ToolShapes'
    BY <1>1, <1>2, <1>3, <1>4, <1>5 DEF ToolShapes
  <1>7. Stages'
    BY <1>1 DEF Stages
  <1>8. Reach'
    <2>1. None \notin DOMAIN bundles
      BY NoneIsNew DEF ToolShapes
    <2>2. orphans' = orphans \cup ({op.ref} \ {row.ref, None})
      BY DEF Relaunch
    <2> QED  BY <1>5, <2>1, <2>2 DEF Reach
  <1>9. Current' /\ TokensSpent'
    BY <1>1, <1>2, <1>5 DEF Current, TokensSpent
  <1> QED  BY <1>6, <1>7, <1>8, <1>9

LEMMA GrantedStep == GrantInv /\ [ToolsNext]_toolsVars => GrantInv'
  <1> SUFFICES ASSUME GrantInv, [ToolsNext]_toolsVars PROVE GrantInv'
    OBVIOUS
  <1>1. CASE SignIn
    BY <1>1, SignInKeeps
  <1>2. CASE GrantStep
    BY <1>2, UnlinkKeeps, EraseKeeps, InsertKeeps, StoreKeeps, WriteKeeps DEF GrantStep
  <1>3. CASE EraseFails \/ StoreFails
    BY <1>3, EraseFailsKeeps, StoreFailsKeeps
  <1>4. CASE Handlers
    BY <1>4, DrainKeeps, ConnectKeeps, DisconnectKeeps, SpawnKeeps, AttachKeeps DEF Handlers
  <1>5. CASE \E t \in Threads : Leave(t) \/ Chip(t)
    BY <1>5, AroundKeeps
  <1>6. CASE \E token \in Tokens : Retire(token)
    BY <1>6, RetireKeeps
  <1>7. CASE Relaunch
    BY <1>7, RelaunchKeeps
  <1>8. CASE UNCHANGED toolsVars
    BY <1>8 DEF toolsVars, GrantInv, ToolShapes, Stages, Reach, Current, TokensSpent
  <1> QED  BY <1>1, <1>2, <1>3, <1>4, <1>5, <1>6, <1>7, <1>8 DEF ToolsNext

LEMMA AlwaysGranted == ToolsSpec => []GrantInv
  BY GrantedInit, GrantedStep, PTL DEF ToolsSpec

-----------------------------------------------------------------------------
(* What it gives.                                                          *)

LEMMA GrantedIsCurrent == GrantInv => GrantIsCurrent
  <1> SUFFICES ASSUME GrantInv PROVE GrantIsCurrent
    OBVIOUS
  <1>1. ToolsTypeOK
    BY DEF GrantInv, ToolShapes, ToolsTypeOK, Flows, FlowStates, ToolRows, Statuses, Ops, Kinds, Steps, Sessions
  <1>2. OneReachableGrant
    BY DEF GrantInv, Reach, OneReachableGrant, Idle
  <1>3. DisconnectSticks
    <2>1. \A id \in DOMAIN bundles : bundles[id].consent \in Nat
      BY DEF GrantInv, ToolShapes, Bundles
    <2>2. ended \in Nat
      BY DEF GrantInv, ToolShapes
    <2> QED  BY <2>1, <2>2 DEF GrantInv, Current, DisconnectSticks, Held
  <1> QED  BY <1>1, <1>2, <1>3 DEF GrantIsCurrent

\* Whatever fails and wherever the host stops: between operations the vault
\* holds the bytes the row points at and what a failure cut loose, and after a
\* disconnect none of an earlier sign-in is recorded (put_tool_grant,
\* drain_connect_flows, tools_disconnect).
THEOREM GrantStaysCurrent == ToolsSpec => []GrantIsCurrent
  BY AlwaysGranted, GrantedIsCurrent, PTL

\* Bytes leave the vault only when an operation erases what it has in hand.
LEMMA OnlyEraseTakes ==
  ASSUME GrantInv, [ToolsNext]_toolsVars
  PROVE  \A id \in DOMAIN bundles \ DOMAIN bundles' : Erase /\ id = op.ref
  <1>1. CASE Erase
    BY <1>1 DEF Erase
  <1>2. CASE Store
    BY <1>2 DEF Store
  <1>3. CASE SignIn \/ Unlink \/ Insert \/ Write \/ EraseFails \/ StoreFails
    BY <1>3 DEF SignIn, FlowMoves, FlowDone, FlowFails, FlowIsLate, Unlink, Insert, Write, EraseFails, StoreFails
  <1>4. CASE Handlers
    BY <1>4 DEF Handlers, Drain, Connect, Disconnect, Spawn, Attach, AttachFails
  <1>5. CASE (\E t \in Threads : Leave(t) \/ Chip(t)) \/ (\E token \in Tokens : Retire(token)) \/ Relaunch
    BY <1>5 DEF Leave, Chip, Retire, Relaunch
  <1>6. CASE UNCHANGED toolsVars
    BY <1>6 DEF toolsVars
  <1> QED  BY <1>1, <1>2, <1>3, <1>4, <1>5, <1>6 DEF ToolsNext, GrantStep

\* A refresh without an answer costs no token: what the provider honours leaves
\* the vault for a disconnect or for the token that follows it, never because
\* the grant was taken to be expired (bearer_for, expire_tool_grant).
THEOREM HonouredStays == ToolsSpec => HonouredIsKept
  <1>1. ASSUME GrantInv, [ToolsNext]_toolsVars
        PROVE  [\A id \in DOMAIN bundles \ DOMAIN bundles' :
                   bundles[id].token \in honoured => op.kind # "expire"]_toolsVars
    <2> SUFFICES ASSUME NEW id \in DOMAIN bundles \ DOMAIN bundles', bundles[id].token \in honoured
                 PROVE  op.kind # "expire"
      OBVIOUS
    <2>1. id = op.ref
      BY <1>1, OnlyEraseTakes
    <2> QED  BY <1>1, <2>1 DEF GrantInv, TokensSpent
  <1> QED  BY <1>1, AlwaysGranted, PTL DEF ToolsSpec, HonouredIsKept

-----------------------------------------------------------------------------
(* The profile.                                                            *)

LEMMA LeasedStep == GrantInv /\ Leased /\ [ToolsNext]_toolsVars => Leased'
  <1> SUFFICES ASSUME GrantInv, Leased, [ToolsNext]_toolsVars PROVE Leased'
    OBVIOUS
  <1>1. live \in [Threads -> Sessions] /\ lease \in Threads \cup {None} /\ None \notin Threads
    BY NoneIsNew DEF GrantInv, ToolShapes
  <1>2. CASE UNCHANGED <<live, lease>>
    BY <1>2 DEF Leased
  <1>3. ASSUME NEW t \in Threads, Attach(t)
        PROVE  Leased'
    <2>1. PICK g \in BOOLEAN :
             /\ g => MayLease(t)
             /\ lease' = IF g THEN t ELSE lease
             /\ live' = [live EXCEPT ![t] = [session |-> TRUE, profile |-> g]]
      BY <1>3 DEF Attach, MayLease
    <2> SUFFICES ASSUME NEW u \in Threads, live'[u].profile
                 PROVE  lease' = u /\ live'[u].session
      BY DEF Leased
    <2>2. CASE u = t
      BY <1>1, <2>1, <2>2
    <2>3. CASE u # t
      <3>1. live'[u] = live[u]
        BY <1>1, <2>1, <2>3
      <3>2. lease = u /\ live[u].session
        BY <3>1 DEF Leased
      <3>3. ~MayLease(t)
        BY <1>1, <2>3, <3>2 DEF MayLease
      <3> QED  BY <2>1, <3>1, <3>2, <3>3
    <2> QED  BY <2>2, <2>3
  <1>4. ASSUME NEW t \in Threads, AttachFails(t)
        PROVE  Leased'
    <2>1. live' = live /\ lease' = IF t \in chipped /\ MayLease(t) THEN t ELSE lease
      BY <1>4 DEF AttachFails
    <2> SUFFICES ASSUME NEW u \in Threads, live[u].profile
                 PROVE  lease' = u /\ live[u].session
      BY <2>1 DEF Leased
    <2>2. lease = u /\ live[u].session
      BY DEF Leased
    <2>3. t # u => ~MayLease(t)
      BY <1>1, <2>2 DEF MayLease
    <2> QED  BY <2>1, <2>2, <2>3
  <1>5. ASSUME NEW t \in Threads, Leave(t)
        PROVE  Leased'
    <2>1. live' = [live EXCEPT ![t] = NoSession] /\ lease' = lease
      BY <1>5 DEF Leave
    <2> SUFFICES ASSUME NEW u \in Threads, live'[u].profile
                 PROVE  lease = u /\ live'[u].session
      BY <2>1 DEF Leased
    <2>2. u # t
      BY <1>1, <2>1 DEF NoSession
    <2> QED  BY <1>1, <2>1, <2>2 DEF Leased
  <1>6. CASE Relaunch
    BY <1>6 DEF Relaunch, Leased, NoSession
  <1>7. CASE SignIn
    BY <1>2, <1>7 DEF SignIn, FlowMoves, FlowDone, FlowFails, FlowIsLate
  <1>8. CASE GrantStep \/ EraseFails \/ StoreFails
    BY <1>2, <1>8 DEF GrantStep, Unlink, Erase, Insert, Store, Write, EraseFails, StoreFails
  <1>9. CASE Handlers
    BY <1>2, <1>3, <1>4, <1>9 DEF Handlers, Drain, Connect, Disconnect, Spawn
  <1>10. CASE \E t \in Threads : Leave(t) \/ Chip(t)
    BY <1>2, <1>5, <1>10 DEF Chip
  <1>11. CASE (\E token \in Tokens : Retire(token)) \/ UNCHANGED toolsVars
    BY <1>2, <1>11 DEF Retire, toolsVars
  <1> QED  BY <1>6, <1>7, <1>8, <1>9, <1>10, <1>11 DEF ToolsNext

\* "One profile lock at a time": a session is given the directory only when no
\* other live one has it, and it loses it with the session (claim_profile).
THEOREM ProfileIsOnes == ToolsSpec => []OneProfileAtATime
  <1>1. ToolsInit => Leased
    BY DEF ToolsInit, Leased, NoSession
  <1>2. Leased => OneProfileAtATime
    BY DEF Leased, OneProfileAtATime
  <1> QED  BY <1>1, <1>2, AlwaysGranted, LeasedStep, PTL DEF ToolsSpec
=============================================================================
