------------------------------ MODULE Devices -------------------------------
(***************************************************************************)
(* Pairing, hello and revoke (host/pairing, host/store/pairing.rs, and the *)
(* connections of host/mod.rs).                                            *)
(*                                                                         *)
(* The host answers one request at a time, so a handler is one action;     *)
(* only the grant is two, the token in the vault and then the row, with a  *)
(* host that may stop in between.  What both sides derive from the offer's *)
(* secret and the transcript (proofs, safety number, device token) is the  *)
(* transcript itself: <<offer, phone, channel>>.  Phones are installations *)
(* of the app, each with key material of its own; two of them may claim to *)
(* be one device.  A hello may arrive late, or again.                      *)
(***************************************************************************)
EXTENDS Naturals, FiniteSets, Sequences

CONSTANTS
    Phones, Devices, DeviceOf,  \* who scans, and the device each says it is
    Sockets,                    \* the connections that dial in
    Channels,                   \* the QR and the code
    MaxAttempts, MaxOpenOffers, \* the constants of offer.rs
    Ttl,                        \* how long an offer lives
    MaxOffers, MaxTime, MaxCounter, MaxHellos, MaxStops  \* bounds

ASSUME DevicesAssumption ==
    /\ DeviceOf \in [Phones -> Devices]
    /\ {MaxAttempts, MaxOpenOffers, Ttl, MaxOffers} \subseteq Nat \ {0}
    /\ {MaxTime, MaxCounter, MaxHellos, MaxStops} \subseteq Nat

Console == "console"  \* device #1, which spawned the host
Local == "local"      \* and the connection it speaks on
Nobody == "nobody"
Roles == {"full", "approver"}
Connections == Sockets \cup {Local}
OfferIds == 1..MaxOffers
Transcripts == OfferIds \X Phones \X Channels
NoTranscript == <<>>
NoRow == [exists |-> FALSE, role |-> "approver", sas |-> NoTranscript,
          counter |-> 0, revoked |-> FALSE]

VARIABLES
    now,
    offers,     \* the live offers, by id: RAM
    started,    \* how many there ever were
    vault,      \* the token of each device, in the keychain
    rows,       \* paired_devices
    bound,      \* the device each connection said hello as: RAM
    granting,   \* the transcript whose token is stored and whose row is not
    numbers,    \* the safety number on each phone's screen
    word,       \* ghost: the number and role the operator confirmed last, by offer
    assent,     \* ghost: the number a phone confirmed last, by offer
    grants,     \* ghost: the transcripts that became rows
    accepted,   \* ghost: the hellos the host accepted
    stops       \* the crashes used up

vars == <<now, offers, started, vault, rows, bound, granting, numbers, word, assent,
          grants, accepted, stops>>

-----------------------------------------------------------------------------
(* Who may call.                                                           *)

Standing(device) ==
    \/ device = Console
    \/ device \in Devices /\ rows[device].exists /\ ~rows[device].revoked

\* connected_grant: the role is read off the row on every call.
RoleOf(device) == IF device = Console THEN "full" ELSE rows[device].role

\* An approver is kept to its allowlist; nothing here is on it but hello.
MayAdminister(c) == /\ bound[c] # Nobody /\ Standing(bound[c])
                    /\ RoleOf(bound[c]) = "full"

\* The handshake answers a connection that has not said hello.
MayPair(c) == bound[c] = Nobody \/ MayAdminister(c)

Up == granting = NoTranscript

-----------------------------------------------------------------------------
(* Offers (offer.rs).                                                      *)

Live(o) == /\ o \in DOMAIN offers
           /\ now < offers[o].expires /\ offers[o].attempts < MaxAttempts
\* prune_offers, on the way into every pairing method.
Pruned == [o \in {o \in OfferIds : Live(o)} |-> offers[o]]
Without(o) == [p \in DOMAIN Pruned \ {o} |-> Pruned[p]]

NoClaim == [by |-> NoTranscript, host |-> FALSE, device |-> FALSE, role |-> "approver"]
ClaimOf(o) == offers[o].claim
BothConfirmed(claim) == claim.host /\ claim.device

\* Any pairing call that is refused, and pairing/status, leave the sweep behind.
Sweep ==
    /\ Up /\ Pruned # offers
    /\ offers' = Pruned
    /\ UNCHANGED <<now, started, vault, rows, bound, granting, numbers, word, assent, grants,
                   accepted, stops>>

PairingStart(c) ==
    /\ Up /\ MayAdminister(c)
    /\ Cardinality(DOMAIN Pruned) < MaxOpenOffers
    /\ started < MaxOffers
    /\ started' = started + 1
    /\ offers' = [o \in DOMAIN Pruned \cup {started + 1} |->
                    IF o = started + 1
                    THEN [expires |-> now + Ttl, attempts |-> 0, claim |-> NoClaim]
                    ELSE Pruned[o]]
    /\ UNCHANGED <<now, vault, rows, bound, granting, numbers, word, assent, grants, accepted,
                   stops>>

\* pairing_cancel is the one that does not sweep.
PairingCancel(c) ==
    /\ Up /\ MayAdminister(c)
    /\ \E o \in DOMAIN offers : offers' = [p \in DOMAIN offers \ {o} |-> offers[p]]
    /\ UNCHANGED <<now, started, vault, rows, bound, granting, numbers, word, assent, grants,
                   accepted, stops>>

\* A claim is taken once; the same device with the same material is a retry.
MayClaim(o, t) == ClaimOf(o).by \in {NoTranscript, t}

\* A phone that has seen the credential computes its number whether or not the
\* host takes its claim.
PairingClaim(c, p) ==
    /\ Up /\ MayPair(c)
    /\ \E o \in DOMAIN Pruned, via \in Channels :
         /\ numbers' = [numbers EXCEPT ![p] = <<o, p, via>>]
         /\ offers' = IF MayClaim(o, <<o, p, via>>)
                      THEN [Pruned EXCEPT ![o].claim.by = <<o, p, via>>]
                      ELSE Pruned
    /\ UNCHANGED <<now, started, vault, rows, bound, granting, word, assent, grants, accepted,
                   stops>>

\* burn_attempt: one life, and the offer when they run out.
Burnt(o) ==
    IF Pruned[o].attempts + 1 >= MaxAttempts THEN Without(o)
    ELSE [Pruned EXCEPT ![o].attempts = @ + 1]

\* A proof that verifies under neither credential.
PairingClaimWrong(c) ==
    /\ Up /\ MayPair(c)
    /\ \E o \in DOMAIN Pruned : offers' = Burnt(o)
    /\ UNCHANGED <<now, started, vault, rows, bound, granting, numbers, word, assent, grants,
                   accepted, stops>>

-----------------------------------------------------------------------------
(* Both sides say the number; then the grant.                              *)

NumberMatches(o, number) == ClaimOf(o).by # NoTranscript /\ ClaimOf(o).by = number

\* Broken: the offer is read and not taken.
TakenNot(o, claim) == [Pruned EXCEPT ![o].claim = claim]
\* complete_pairing takes the offer out of the map before it writes anything.
Taken(o, claim) == Without(o)

\* The vault comes first; one that cannot be reached puts the offer back.
Confirmed(o, claim) ==
    IF ~BothConfirmed(claim)
    THEN offers' = [Pruned EXCEPT ![o].claim = claim] /\ UNCHANGED <<vault, granting>>
    ELSE \/ /\ offers' = Taken(o, claim)
            /\ vault' = [vault EXCEPT ![DeviceOf[claim.by[2]]] = claim.by]
            /\ granting' = <<claim.by, claim.role>>
         \/ offers' = [Pruned EXCEPT ![o].claim = claim] /\ UNCHANGED <<vault, granting>>

\* The operator reads the number off the phone at hand, and picks the role.
ConfirmHost(c, p) ==
    /\ Up /\ MayAdminister(c)
    /\ \E o \in DOMAIN Pruned, role \in Roles :
         /\ NumberMatches(o, numbers[p])
         /\ word' = [word EXCEPT ![o] = <<numbers[p], role>>]
         /\ Confirmed(o, [ClaimOf(o) EXCEPT !.host = TRUE, !.role = role])
    /\ UNCHANGED <<now, started, rows, bound, numbers, assent, grants, accepted, stops>>

ConfirmDevice(c, p) ==
    /\ Up /\ MayPair(c)
    /\ \E o \in DOMAIN Pruned :
         /\ NumberMatches(o, numbers[p])
         /\ assent' = [assent EXCEPT ![o] = numbers[p]]
         /\ Confirmed(o, [ClaimOf(o) EXCEPT !.device = TRUE])
    /\ UNCHANGED <<now, started, rows, bound, numbers, word, grants, accepted, stops>>

Granted == DeviceOf[granting[1][2]]

\* The upsert reissues the row: no tombstone, and a counter from nought.
RecordGrant ==
    /\ ~Up
    /\ rows' = [rows EXCEPT ![Granted] =
                  [exists |-> TRUE, role |-> granting[2], sas |-> granting[1], counter |-> 0,
                   revoked |-> FALSE]]
    /\ grants' = Append(grants, granting[1])
    /\ granting' = NoTranscript
    /\ UNCHANGED <<now, offers, started, vault, bound, numbers, word, assent, accepted, stops>>

\* The store refuses the row: the token is cleaned up.
RecordFails ==
    /\ ~Up
    /\ vault' = [vault EXCEPT ![Granted] = NoTranscript]
    /\ granting' = NoTranscript
    /\ UNCHANGED <<now, offers, started, rows, bound, numbers, word, assent, grants, accepted,
                   stops>>

-----------------------------------------------------------------------------
(* Hello and revoke.                                                       *)

\* The console is who the caller is: a re-hello is no promotion.
HelloConsole ==
    /\ Up /\ bound[Local] \in {Nobody, Console}
    /\ bound' = [bound EXCEPT ![Local] = Console]
    /\ UNCHANGED <<now, offers, started, vault, rows, granting, numbers, word, assent, grants,
                   accepted, stops>>

\* Broken: the counter accepted last is accepted again.
FreshOrLast(device, counter) == rows[device].counter <= counter
\* bump_device_auth_counter: the check and the write are one statement.
Fresh(device, counter) == rows[device].counter < counter

\* Any hello the holder of the token ever signed may arrive, late or again.
HelloPaired(c, device) ==
    /\ Up /\ Len(accepted) < MaxHellos
    /\ bound[c] = Nobody \/ Standing(bound[c])
    /\ Standing(device)
    /\ vault[device] # NoTranscript
    /\ \E counter \in 1..MaxCounter :
         /\ Fresh(device, counter)
         /\ rows' = [rows EXCEPT ![device].counter = counter]
         /\ accepted' = Append(accepted, [token |-> vault[device], counter |-> counter])
    /\ bound' = [bound EXCEPT ![c] = device]
    /\ UNCHANGED <<now, offers, started, vault, granting, numbers, word, assent, grants, stops>>

HangUp(c) ==
    /\ Up /\ bound[c] # Nobody
    /\ bound' = [bound EXCEPT ![c] = Nobody]
    /\ UNCHANGED <<now, offers, started, vault, rows, granting, numbers, word, assent, grants,
                   accepted, stops>>

\* Broken: only the caller is cut off.
CutOffLater(device) == bound
\* disconnect_device: every connection of the device.
CutOff(device) == [c \in Connections |-> IF bound[c] = device THEN Nobody ELSE bound[c]]

\* The tombstone first; the token goes too, if the vault lets it.
Revoke(c, device) ==
    /\ Up /\ MayAdminister(c)
    /\ rows[device].exists /\ ~rows[device].revoked
    /\ rows' = [rows EXCEPT ![device].revoked = TRUE]
    /\ bound' = CutOff(device)
    /\ vault' \in {vault, [vault EXCEPT ![device] = NoTranscript]}
    /\ UNCHANGED <<now, offers, started, granting, numbers, word, assent, grants, accepted,
                   stops>>

-----------------------------------------------------------------------------
TimePasses ==
    /\ now < MaxTime
    /\ now' = now + 1
    /\ UNCHANGED <<offers, started, vault, rows, bound, granting, numbers, word, assent,
                   grants, accepted, stops>>

\* RAM goes, the vault and the rows stay; the console is the first to connect.
Restart ==
    /\ stops < MaxStops
    /\ stops' = stops + 1
    /\ offers' = [o \in {} |-> NoClaim]
    /\ bound' = [c \in Connections |-> Nobody]
    /\ granting' = NoTranscript
    /\ UNCHANGED <<now, started, vault, rows, numbers, word, assent, grants, accepted>>

Init ==
    /\ now = 0 /\ started = 0 /\ stops = 0
    /\ offers = [o \in {} |-> NoClaim]
    /\ vault = [d \in Devices |-> NoTranscript]
    /\ rows = [d \in Devices |-> NoRow]
    /\ bound = [c \in Connections |-> Nobody]
    /\ granting = NoTranscript
    /\ numbers = [p \in Phones |-> NoTranscript]
    /\ word = [o \in OfferIds |-> <<NoTranscript, "approver">>]
    /\ assent = [o \in OfferIds |-> NoTranscript]
    /\ grants = <<>> /\ accepted = <<>>

Next ==
    \/ Sweep \/ RecordGrant \/ RecordFails \/ HelloConsole \/ TimePasses \/ Restart
    \/ \E c \in Connections :
         \/ PairingStart(c) \/ PairingCancel(c) \/ PairingClaimWrong(c) \/ HangUp(c)
         \/ \E p \in Phones : PairingClaim(c, p) \/ ConfirmHost(c, p) \/ ConfirmDevice(c, p)
         \/ \E device \in Devices : Revoke(c, device) \/ HelloPaired(c, device)

Spec == Init /\ [][Next]_vars

-----------------------------------------------------------------------------
(* Correctness.                                                            *)

TypeOK ==
    /\ now \in 0..MaxTime /\ started \in 0..MaxOffers /\ stops \in 0..MaxStops
    /\ DOMAIN offers \subseteq 1..started
    /\ Cardinality(DOMAIN offers) <= MaxOpenOffers
    /\ \A o \in DOMAIN offers :
         /\ offers[o].attempts < MaxAttempts
         /\ offers[o].claim.by \in Transcripts \cup {NoTranscript}
         /\ BothConfirmed(offers[o].claim) => offers[o].claim.by # NoTranscript
    /\ vault \in [Devices -> Transcripts \cup {NoTranscript}]
    /\ \A d \in Devices : rows[d].role \in Roles /\ rows[d].counter \in 0..MaxCounter
    /\ bound \in [Connections -> Devices \cup {Console, Nobody}]
    /\ granting \in (Transcripts \X Roles) \cup {NoTranscript}
    /\ numbers \in [Phones -> Transcripts \cup {NoTranscript}]

\* A device holds a grant only if both humans said this very number, the one on
\* the screen of the phone that claimed, and its role is one the operator gave
\* with it (pairing_confirm, complete_pairing).
GrantWasAgreed ==
    \A d \in Devices : rows[d].exists =>
        /\ assent[rows[d].sas[1]] = rows[d].sas
        /\ word[rows[d].sas[1]] = <<rows[d].sas, rows[d].role>>

\* An offer pairs one device, once, whoever else has seen the QR, through
\* retries, a vault that fails and a restart (complete_pairing).
OfferPairsOnce ==
    \A i, j \in 1..Len(grants) : grants[i][1] = grants[j][1] => i = j

\* Both: every grant goes back to one agreement of two humans.
GrantsAreEarned == TypeOK /\ GrantWasAgreed /\ OfferPairsOnce

\* A hello is accepted once: a frame that arrives again, or after a later one,
\* is refused, also when the device was paired anew in between
\* (bump_device_auth_counter).
HelloOnce ==
    \A i, j \in 1..Len(accepted) :
        i < j /\ accepted[i].token = accepted[j].token
          => accepted[i].counter < accepted[j].counter

\* A revoke is in force at once: no connection is bound to a device without a
\* grant, so a connection that stays open gets neither answers nor the stream
\* (device_revoke, connection_has_device).
ConnectedIsGranted == \A c \in Connections : bound[c] # Nobody => Standing(bound[c])

\* "A row that names a token the vault does not have is a device that can never
\* authenticate": while no grant is being written, a standing row has its token.
RowHasToken ==
    Up => \A d \in Devices : rows[d].exists /\ ~rows[d].revoked => vault[d] = rows[d].sas
=============================================================================
