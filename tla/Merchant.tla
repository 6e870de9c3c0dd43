------------------------------ MODULE Merchant ------------------------------
(***************************************************************************)
(* Merchant opt-in (server/merchant.js) with what else writes its rows:    *)
(* the registry's PATCH and DELETE (server/registry.js) and the erasure of *)
(* an account (server/account-data.js).                                    *)
(*                                                                         *)
(* A check looks the proof up over the network and then, in a transaction  *)
(* that locks the claim, creates the source.  A withdrawal decides from    *)
(* the claim it loaded before its transaction, and disables the source by  *)
(* the registry's PATCH: like every PATCH it writes all configuration      *)
(* columns from the row it read.  An erasure reads the claims before it    *)
(* deletes them.  Each read and each write is an action of its own here.   *)
(***************************************************************************)
EXTENDS Naturals, FiniteSets

CONSTANTS
    Claims,         \* claims that can be made, each with a source key of its own
    Domains,
    DomainOf,       \* the domain of a claim
    Checkers,       \* concurrent checks: "merchant" (Check now), "worker" (recheck)
    Ops,            \* what else happens: "withdraw", "patch", "delete", "erase"
    Touched,        \* the claims it happens to in the instance
    MaxRequests     \* bound: withdrawals, PATCHes and erasures under way together

ASSUME MerchantAssumption ==
    /\ DomainOf \in [Claims -> Domains]
    /\ Checkers \subseteq {"merchant", "worker"}
    /\ Ops \subseteq {"withdraw", "patch", "delete", "erase"}
    /\ Touched \subseteq Claims
    /\ MaxRequests \in Nat

VARIABLES
    claim,          \* merchant_sources: status and whether source_key is set
    source,         \* sources: the row under the claim's key
    proof,          \* claims whose TXT record or meta tag is published
    overdue,        \* claims older than SOURCES_MERCHANT_PENDING_DAYS
    check,          \* the check each checker has in hand
    recheck,        \* the pending rows the worker's pass has still to visit
    withdrawal,     \* withdrawals: what load() and then registry.patch have read
    patching,       \* PATCHes between reading the row and writing it
    erasing         \* erasures between reading the claims and deleting them

vars == <<claim, source, proof, overdue, check, recheck, withdrawal, patching, erasing>>
rows == <<claim, source>>
requests == <<check, recheck, withdrawal, patching, erasing>>
world == <<proof, overdue>>

Status == {"none", "pending", "verified", "withdrawn", "failed", "erased"}
Note == {"none", "permission", "closed"}
SourceRow == [exists : BOOLEAN, enabled : BOOLEAN, note : Note]
NoSource == [exists |-> FALSE, enabled |-> FALSE, note |-> "none"]

Nothing == [claim |-> "none", found |-> FALSE]
CheckState == [claim : Claims \cup {"none"}, found : BOOLEAN]

TypeOK ==
    /\ claim \in [Claims -> [status : Status, keyed : BOOLEAN]]
    /\ source \in [Claims -> SourceRow]
    /\ proof \subseteq Claims
    /\ overdue \subseteq Claims
    /\ check \in [Checkers -> CheckState]
    /\ recheck \subseteq Claims
    /\ withdrawal \subseteq [claim : Claims, keyed : BOOLEAN, pc : {"loaded", "read"}, row : SourceRow]
    /\ patching \subseteq [claim : Claims, row : SourceRow]
    /\ erasing \subseteq [claim : Claims, keyed : BOOLEAN]

Init ==
    /\ claim = [c \in Claims |-> [status |-> "none", keyed |-> FALSE]]
    /\ source = [c \in Claims |-> NoSource]
    /\ proof = {}
    /\ overdue = {}
    /\ check = [p \in Checkers |-> Nothing]
    /\ recheck = {}
    /\ withdrawal = {}
    /\ patching = {}
    /\ erasing = {}

\* The bound: another request may begin.
Room == Cardinality(withdrawal) + Cardinality(patching) + Cardinality(erasing) < MaxRequests

SetStatus(c, s) == claim' = [claim EXCEPT ![c] = [@ EXCEPT !.status = s]]

------------------------------------------------------------------------------
(* The merchant and the world *)

LiveClaim(d) == {c \in Claims : DomainOf[c] = d /\ claim[c].status \in {"pending", "verified"}}

\* add(): one live claim per domain; a race ends at the partial unique index.
Add(c) ==
    /\ claim[c].status = "none"
    /\ LiveClaim(DomainOf[c]) = {}
    /\ SetStatus(c, "pending")
    /\ UNCHANGED <<source, world, requests>>

\* The merchant publishes or removes the record.
Publish(c) ==
    /\ proof' = IF c \in proof THEN proof \ {c} ELSE proof \cup {c}
    /\ UNCHANGED <<rows, overdue, requests>>

\* pendingDays pass.
Age(c) ==
    /\ claim[c].status = "pending"
    /\ c \notin overdue
    /\ overdue' = overdue \cup {c}
    /\ UNCHANGED <<rows, proof, requests>>

------------------------------------------------------------------------------
(* A check of the proof *)

\* verify(): load() and the status answered at once, before the lookup.
CheckNow(c) ==
    /\ "merchant" \in Checkers
    /\ check["merchant"] = Nothing
    /\ claim[c].status = "pending"
    /\ check' = [check EXCEPT !["merchant"] = [claim |-> c, found |-> FALSE]]
    /\ UNCHANGED <<rows, world, recheck, withdrawal, patching, erasing>>

\* recheck(): the pending claims are read once, then visited one after the other.
RecheckBegin ==
    /\ "worker" \in Checkers
    /\ check["worker"] = Nothing
    /\ recheck = {}
    /\ recheck' = {c \in Claims : claim[c].status = "pending"}
    /\ recheck' # {}
    /\ UNCHANGED <<rows, world, check, withdrawal, patching, erasing>>

Failed(c) == IF claim[c].status = "pending" THEN SetStatus(c, "failed") ELSE UNCHANGED claim

RecheckVisit(c) ==
    /\ check["worker"] = Nothing
    /\ c \in recheck
    /\ recheck' = recheck \ {c}
    /\ IF c \in overdue
       THEN Failed(c) /\ UNCHANGED check
       ELSE check' = [check EXCEPT !["worker"] = [claim |-> c, found |-> FALSE]] /\ UNCHANGED claim
    /\ UNCHANGED <<source, world, withdrawal, patching, erasing>>

\* The lookup does not find the proof: only the check's own columns are written.
NotFound(p) ==
    /\ check[p] # Nothing
    /\ ~check[p].found
    /\ check[p].claim \notin proof
    /\ check' = [check EXCEPT ![p] = Nothing]
    /\ UNCHANGED <<rows, world, recheck, withdrawal, patching, erasing>>

Found(p) ==
    /\ check[p] # Nothing
    /\ ~check[p].found
    /\ check[p].claim \in proof
    /\ check' = [check EXCEPT ![p] = [@ EXCEPT !.found = TRUE]]
    /\ UNCHANGED <<rows, world, recheck, withdrawal, patching, erasing>>

PendingWhenLoaded(c) == claim[c].status # "erased"  \* mutant: the row is not read again
StillPending(c) == claim[c].status = "pending"

\* SELECT FOR UPDATE, registry.create, status verified: one transaction.
Verify(p) ==
    LET c == check[p].claim IN
    /\ check[p].found
    /\ check' = [check EXCEPT ![p] = Nothing]
    /\ IF StillPending(c)
       THEN /\ source' = [source EXCEPT ![c] = [exists |-> TRUE, enabled |-> TRUE, note |-> "permission"]]
            /\ claim' = [claim EXCEPT ![c] = [status |-> "verified", keyed |-> TRUE]]
       ELSE UNCHANGED rows
    /\ UNCHANGED <<world, recheck, withdrawal, patching, erasing>>

\* The transaction fails: the claim stays pending and is checked again later.
VerifyThrows(p) ==
    /\ check[p].found
    /\ check' = [check EXCEPT ![p] = Nothing]
    /\ UNCHANGED <<rows, world, recheck, withdrawal, patching, erasing>>

------------------------------------------------------------------------------
(* Withdrawal *)

WithdrawLoad(c) ==
    /\ "withdraw" \in Ops
    /\ Room
    /\ claim[c].status \notin {"none", "withdrawn", "erased"}
    /\ withdrawal' = withdrawal \cup
           {[claim |-> c, keyed |-> claim[c].keyed, pc |-> "loaded", row |-> NoSource]}
    /\ UNCHANGED <<rows, world, check, recheck, patching, erasing>>

\* In the transaction, registry.get and registry.patch read the source of the claim as it
\* was loaded, if there is one.
WithdrawRead(w) ==
    /\ w \in withdrawal
    /\ w.pc = "loaded"
    /\ withdrawal' = (withdrawal \ {w}) \cup
           {[w EXCEPT !.pc = "read", !.row = IF w.keyed THEN source[w.claim] ELSE NoSource]}
    /\ UNCHANGED <<rows, world, check, recheck, patching, erasing>>

WithdrawnNote(row) == [row EXCEPT !.enabled = FALSE, !.note = "none"]  \* mutant: the note is cleared
WithdrawnRow(row) == [row EXCEPT !.enabled = FALSE]

\* The row is written back as it was read but disabled; the claim is withdrawn as it is now.
\* Both take effect when the transaction commits.
Withdraw(w) ==
    LET c == w.claim IN
    /\ w \in withdrawal
    /\ w.pc = "read"
    /\ withdrawal' = withdrawal \ {w}
    /\ source' = IF w.row.exists /\ source[c].exists
                 THEN [source EXCEPT ![c] = WithdrawnRow(w.row)] ELSE source
    /\ IF claim[c].status = "erased" THEN UNCHANGED claim ELSE SetStatus(c, "withdrawn")
    /\ UNCHANGED <<world, check, recheck, patching, erasing>>

\* registry.patch refuses the row (a limit that was lowered), or the transaction fails.
WithdrawThrows(w) ==
    /\ w \in withdrawal
    /\ w.pc = "read"
    /\ withdrawal' = withdrawal \ {w}
    /\ UNCHANGED <<rows, world, check, recheck, patching, erasing>>

------------------------------------------------------------------------------
(* Operators and account erasure *)

\* PATCH /api/v1/sources/:key: the row is read, another field than enabled changes.
PatchRead(c) ==
    /\ "patch" \in Ops
    /\ Room
    /\ source[c].exists
    /\ patching' = patching \cup {[claim |-> c, row |-> source[c]]}
    /\ UNCHANGED <<rows, world, check, recheck, withdrawal, erasing>>

\* The UPDATE writes every configuration column as it was read.
PatchWrite(w) ==
    /\ w \in patching
    /\ patching' = patching \ {w}
    /\ source' = IF source[w.claim].exists THEN [source EXCEPT ![w.claim] = w.row] ELSE source
    /\ UNCHANGED <<claim, world, check, recheck, withdrawal, erasing>>

\* DELETE /api/v1/sources/:key of a source that has no items.
DeleteSource(c) ==
    /\ "delete" \in Ops
    /\ source[c].exists
    /\ source' = [source EXCEPT ![c] = NoSource]
    /\ UNCHANGED <<claim, world, requests>>

\* The account is closed: its claims are read, then their sources are disabled
\* and the claims deleted in the same transaction.
EraseRead(c) ==
    /\ "erase" \in Ops
    /\ Room
    /\ claim[c].status \notin {"none", "erased"}
    /\ erasing' = erasing \cup {[claim |-> c, keyed |-> claim[c].keyed]}
    /\ UNCHANGED <<rows, world, check, recheck, withdrawal, patching>>

EraseWrite(e) ==
    LET c == e.claim IN
    /\ e \in erasing
    /\ erasing' = erasing \ {e}
    /\ source' = IF e.keyed /\ source[c].exists
                 THEN [source EXCEPT ![c] = [@ EXCEPT !.enabled = FALSE, !.note = "closed"]]
                 ELSE source
    /\ SetStatus(c, "erased")
    /\ UNCHANGED <<world, check, recheck, withdrawal, patching>>

------------------------------------------------------------------------------

CheckStep(p) == NotFound(p) \/ Found(p) \/ Verify(p)
Worker == RecheckBegin \/ \E c \in Claims : RecheckVisit(c)

Next ==
    \/ \E c \in Claims : Add(c) \/ Publish(c) \/ Age(c) \/ CheckNow(c)
    \/ Worker
    \/ \E p \in Checkers : CheckStep(p) \/ VerifyThrows(p)
    \/ \E c \in Touched : WithdrawLoad(c) \/ PatchRead(c) \/ DeleteSource(c) \/ EraseRead(c)
    \/ \E w \in withdrawal : WithdrawRead(w) \/ Withdraw(w) \/ WithdrawThrows(w)
    \/ \E w \in patching : PatchWrite(w)
    \/ \E e \in erasing : EraseWrite(e)

Spec == Init /\ [][Next]_vars

\* The recheck timer keeps firing, lookups have a timeout, and days pass.
FairSpec ==
    /\ Spec
    /\ \A p \in Checkers : WF_vars(CheckStep(p))
    /\ WF_vars(RecheckBegin)
    /\ \A c \in Claims : WF_vars(RecheckVisit(c)) /\ WF_vars(Age(c))

------------------------------------------------------------------------------
(* Properties *)

\* A source is fetched only while the claim it rests on is verified: withdrawal
\* and the closing of the account both disable it (merchant.js:11-12; README,
\* Merchant opt-in; account-data.js:10-12).
PermissionBacked ==
    \A c \in Claims : source[c].exists /\ source[c].enabled => claim[c].status = "verified"

\* What a withdrawal disabled stays disabled: a PATCH of another field does not
\* enable it again (merchant.js:11-12).
WithdrawnStaysDisabled ==
    [][\A c \in Claims :
         claim[c].status = "withdrawn" /\ source[c].exists /\ ~source[c].enabled
            => ~source'[c].enabled]_vars

\* The note that names the person is gone for good when the account is closed
\* (account-data.js:10-12).  Not kept by the code: a withdrawal that read the source before
\* the erasure writes the note back after it.
ErasedNoteStaysOut ==
    [][\A c \in Claims : source[c].note = "closed" => source'[c].note # "permission"]_vars

\* A claim moves forward only, whatever check was under way: one that ended stays ended
\* and no source comes out of it (merchant.js:323-325, 180-184), and a verified one is
\* never failed for age, however the recheck that read it as pending and the check that
\* verified it interleave (merchant.js:184, 372-376).
MovesForward ==
    [][\A c \in Claims :
         /\ claim[c].status \in {"withdrawn", "failed", "erased"} =>
               /\ claim'[c].status # "pending" /\ claim'[c].status # "verified"
               /\ source'[c].exists => source[c].exists
         /\ claim[c].status = "verified" => claim'[c].status # "failed"]_vars

\* The permission note outlives the permission: only the closing of the account
\* takes it away (merchant.js:12, 354; account-data.js:10-12).
NoteKept ==
    [][\A c \in Claims :
         source[c].exists /\ source'[c].exists /\ source[c].note = "permission"
            /\ source'[c].note # "permission" => claim'[c].status = "erased"]_vars

=============================================================================
