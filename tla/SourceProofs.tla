---------------------------- MODULE SourceProofs ----------------------------
(***************************************************************************)
(* Proofs about a source's row.                                            *)
(*                                                                         *)
(* Merchant: for any number of claims and domains, either or both          *)
(* checkers, and whatever else happens to the claims: checks, withdrawals, *)
(* PATCHes and erasures that overlap, each deciding from what it read      *)
(* before.                                                                 *)
(*                                                                         *)
(* Registry: for any definitions, changes and endpoints whatever, and any  *)
(* limits: a row is a fixed point of validation.                           *)
(***************************************************************************)
EXTENDS Merchant, Registry, TLAPS

------------------------------------------------------------------------------
(* Merchant: the invariant *)

\* A source row carries the permission note, or the closing's once the claim is erased.
NoteSound(c, r) ==
    r.exists =>
        /\ r.note # "none"
        /\ r.note = "closed" => claim[c].status = "erased"

\* A check that found a proof has a claim in hand.
CheckSound == \A p \in Checkers : check[p].found => check[p].claim \in Claims

\* What a PATCH or a withdrawal has read is as sound as the row it will overwrite.
PatchSound ==
    /\ \A w \in patching : w.row.exists /\ NoteSound(w.claim, w.row)
    /\ \A w \in withdrawal : NoteSound(w.claim, w.row)

SourceSound == \A c \in Claims : NoteSound(c, source[c])

ClaimInv == TypeOK /\ CheckSound /\ PatchSound /\ SourceSound

\* An erased claim stays erased; it is what the notes depend on.
ErasedStays == \A c \in Claims : claim[c].status = "erased" => claim'[c].status = "erased"

\* The step reads no row.
NoRead ==
    /\ patching' \subseteq patching
    /\ \A w \in withdrawal' : w \in withdrawal \/ ~w.row.exists

\* A step that leaves the erased claims erased keeps what was read of the others.
LEMMA PatchesStay ==
    ASSUME ClaimInv, ErasedStays, NoRead
    PROVE  PatchSound'
<1>1. ASSUME NEW w \in patching' PROVE w.row.exists /\ NoteSound(w.claim, w.row)'
  <2>1. w \in patching /\ w.claim \in Claims
    BY <1>1 DEF ClaimInv, TypeOK, NoRead
  <2> QED
    BY <2>1 DEF ClaimInv, PatchSound, NoteSound, ErasedStays
<1>2. ASSUME NEW w \in withdrawal' PROVE NoteSound(w.claim, w.row)'
  <2>1. CASE ~w.row.exists
    BY <2>1 DEF NoteSound
  <2>2. CASE w \in withdrawal
    <3>1. w.claim \in Claims
      BY <2>2 DEF ClaimInv, TypeOK
    <3> QED
      BY <2>2, <3>1 DEF ClaimInv, PatchSound, NoteSound, ErasedStays
  <2> QED
    BY <1>2, <2>1, <2>2 DEF NoRead
<1> QED
  BY <1>1, <1>2 DEF PatchSound

LEMMA SourcesStay ==
    ASSUME ClaimInv, ErasedStays, NEW c \in Claims, source'[c] = source[c]
    PROVE  NoteSound(c, source[c])'
BY DEF ClaimInv, SourceSound, NoteSound, ErasedStays

\* The status of one claim changes.
LEMMA StatusSet ==
    ASSUME ClaimInv, NEW c \in Claims, NEW s \in Status, SetStatus(c, s)
    PROVE  /\ claim' \in [Claims -> [status : Status, keyed : BOOLEAN]]
           /\ \A d \in Claims : claim'[d].status = IF d = c THEN s ELSE claim[d].status
<1>1. claim[c] \in [status : Status, keyed : BOOLEAN]
  BY DEF ClaimInv, TypeOK
<1>2. [claim[c] EXCEPT !.status = s] \in [status : Status, keyed : BOOLEAN]
      /\ [claim[c] EXCEPT !.status = s].status = s
  BY <1>1
<1> QED
  BY <1>2 DEF SetStatus, ClaimInv, TypeOK

\* Steps that write neither a claim nor a source, but for what they read.
LEMMA Reads ==
    ASSUME ClaimInv, TypeOK', CheckSound', UNCHANGED rows, NoRead
    PROVE  ClaimInv'
<1>1. ErasedStays
  BY DEF ErasedStays, rows
<1>2. SourceSound'
  BY <1>1, SourcesStay DEF SourceSound, rows
<1> QED
  BY <1>1, <1>2, PatchesStay DEF ClaimInv

------------------------------------------------------------------------------
(* One lemma per action *)

LEMMA AddStep ==
    ASSUME ClaimInv, NEW c \in Claims, Add(c)
    PROVE  ClaimInv'
<1>1. /\ claim' \in [Claims -> [status : Status, keyed : BOOLEAN]]
      /\ \A d \in Claims : claim'[d].status = IF d = c THEN "pending" ELSE claim[d].status
  BY StatusSet DEF Add, Status
<1>2. ErasedStays
  BY <1>1 DEF ErasedStays, Add
<1>3. SourceSound'
  BY <1>2, SourcesStay DEF SourceSound, Add
<1>4. TypeOK' /\ CheckSound'
  BY <1>1 DEF ClaimInv, TypeOK, CheckSound, Add, world, requests
<1> QED
  BY <1>2, <1>3, <1>4, PatchesStay DEF ClaimInv, Add, requests, NoRead

LEMMA WorldStep ==
    ASSUME ClaimInv, NEW c \in Claims, Publish(c) \/ Age(c)
    PROVE  ClaimInv'
<1>1. UNCHANGED <<rows, requests>> /\ proof' \subseteq Claims /\ overdue' \subseteq Claims
  BY DEF Publish, Age, ClaimInv, TypeOK
<1>2. TypeOK' /\ CheckSound'
  BY <1>1 DEF ClaimInv, TypeOK, CheckSound, rows, requests
<1> QED
  BY <1>1, <1>2, Reads DEF requests, NoRead

LEMMA CheckNowStep ==
    ASSUME ClaimInv, NEW c \in Claims, CheckNow(c)
    PROVE  ClaimInv'
<1>1. TypeOK' /\ CheckSound'
  BY DEF ClaimInv, TypeOK, CheckSound, CheckNow, CheckState, rows, world
<1> QED
  BY <1>1, Reads DEF CheckNow, NoRead

LEMMA RecheckBeginStep ==
    ASSUME ClaimInv, RecheckBegin
    PROVE  ClaimInv'
<1>1. TypeOK' /\ CheckSound'
  BY DEF ClaimInv, TypeOK, CheckSound, RecheckBegin, rows, world
<1> QED
  BY <1>1, Reads DEF RecheckBegin, NoRead

\* Only a claim that is still pending fails.
LEMMA FailedStep ==
    ASSUME ClaimInv, NEW c \in Claims, Failed(c)
    PROVE  /\ claim' \in [Claims -> [status : Status, keyed : BOOLEAN]]
           /\ \A d \in Claims :
                 \/ claim'[d].status = claim[d].status
                 \/ claim[d].status = "pending" /\ claim'[d].status = "failed"
<1>1. CASE claim[c].status = "pending"
  <2>1. SetStatus(c, "failed") /\ "failed" \in Status
    BY <1>1 DEF Failed, Status
  <2> QED
    BY <1>1, <2>1, StatusSet
<1>2. CASE claim[c].status # "pending"
  <2>1. claim' = claim
    BY <1>2 DEF Failed
  <2> QED
    BY <2>1 DEF ClaimInv, TypeOK
<1> QED
  BY <1>1, <1>2

LEMMA RecheckVisitStep ==
    ASSUME ClaimInv, NEW c \in Claims, RecheckVisit(c)
    PROVE  ClaimInv'
<1>1. CASE c \in overdue
  <2>1. Failed(c) /\ UNCHANGED check
    BY <1>1 DEF RecheckVisit
  <2>2. ErasedStays
    BY <2>1, FailedStep DEF ErasedStays
  <2>3. SourceSound'
    BY <2>2, SourcesStay DEF SourceSound, RecheckVisit
  <2>4. TypeOK' /\ CheckSound'
    BY <2>1, FailedStep DEF ClaimInv, TypeOK, CheckSound, RecheckVisit, world
  <2> QED
    BY <2>2, <2>3, <2>4, PatchesStay DEF ClaimInv, RecheckVisit, NoRead
<1>2. CASE c \notin overdue
  <2> DEFINE hand == [claim |-> c, found |-> FALSE]
  <2>1. hand \in CheckState /\ ~hand.found
    BY DEF CheckState
  <2>2. check' = [check EXCEPT !["worker"] = hand] /\ UNCHANGED claim
    BY <1>2 DEF RecheckVisit
  <2>3. check' \in [Checkers -> CheckState] /\ CheckSound'
    BY <2>1, <2>2 DEF ClaimInv, TypeOK, CheckSound
  <2>4. TypeOK'
    BY <2>2, <2>3 DEF ClaimInv, TypeOK, RecheckVisit, world
  <2> QED
    BY <2>2, <2>3, <2>4, Reads DEF RecheckVisit, rows, NoRead
<1> QED
  BY <1>1, <1>2

LEMMA NoAnswerStep ==
    ASSUME ClaimInv, NEW p \in Checkers, NotFound(p) \/ VerifyThrows(p)
    PROVE  ClaimInv'
<1>1. check' = [check EXCEPT ![p] = Nothing] /\ UNCHANGED <<rows, world, recheck, withdrawal, patching, erasing>>
  BY DEF NotFound, VerifyThrows
<1>2. TypeOK' /\ CheckSound'
  BY <1>1 DEF ClaimInv, TypeOK, CheckSound, CheckState, Nothing, rows, world
<1> QED
  BY <1>1, <1>2, Reads DEF NoRead

LEMMA FoundStep ==
    ASSUME ClaimInv, NEW p \in Checkers, Found(p)
    PROVE  ClaimInv'
<1>1. check[p] \in CheckState /\ check[p].claim \in Claims
  BY DEF ClaimInv, TypeOK, Found
<1>2. TypeOK' /\ CheckSound'
  BY <1>1 DEF ClaimInv, TypeOK, CheckSound, Found, CheckState, rows, world
<1> QED
  BY <1>2, Reads DEF Found, NoRead

\* The claim is read again under its lock: only a pending one gets a source.
LEMMA VerifyStep ==
    ASSUME ClaimInv, NEW p \in Checkers, Verify(p)
    PROVE  ClaimInv'
<1>1. PICK c \in Claims : c = check[p].claim
  BY DEF ClaimInv, CheckSound, Verify
<1>2. check' \in [Checkers -> CheckState] /\ CheckSound'
  BY DEF ClaimInv, TypeOK, CheckSound, Verify, CheckState, Nothing
<1>3. CASE StillPending(c)
  <2>1. /\ source' = [source EXCEPT ![c] = [exists |-> TRUE, enabled |-> TRUE, note |-> "permission"]]
        /\ claim' = [claim EXCEPT ![c] = [status |-> "verified", keyed |-> TRUE]]
    BY <1>1, <1>3 DEF Verify
  <2>2. \A d \in Claims : d # c => claim'[d] = claim[d] /\ source'[d] = source[d]
    BY <2>1 DEF ClaimInv, TypeOK
  <2>3. ErasedStays
    BY <1>1, <1>3, <2>2 DEF ErasedStays, StillPending
  <2>4. NoteSound(c, source[c])'
    BY <1>1, <2>1 DEF NoteSound, ClaimInv, TypeOK
  <2>5. SourceSound'
    BY <2>2, <2>3, <2>4, SourcesStay DEF SourceSound
  <2>6. TypeOK'
    BY <1>2, <2>1 DEF ClaimInv, TypeOK, Verify, world, SourceRow, Note, Status
  <2> QED
    BY <1>2, <2>3, <2>5, <2>6, PatchesStay DEF ClaimInv, Verify, NoRead
<1>4. CASE ~StillPending(c)
  <2>1. UNCHANGED rows
    BY <1>1, <1>4 DEF Verify
  <2>2. TypeOK'
    BY <1>2, <2>1 DEF ClaimInv, TypeOK, Verify, rows, world
  <2> QED
    BY <1>2, <2>1, <2>2, Reads DEF Verify, NoRead
<1> QED
  BY <1>3, <1>4

LEMMA LoadStep ==
    ASSUME ClaimInv, NEW c \in Claims, WithdrawLoad(c) \/ EraseRead(c)
    PROVE  ClaimInv'
<1>1. claim[c].keyed \in BOOLEAN /\ NoSource \in SourceRow
  BY DEF ClaimInv, TypeOK, NoSource, SourceRow, Note
<1>2. TypeOK' /\ CheckSound'
  BY <1>1 DEF ClaimInv, TypeOK, CheckSound, WithdrawLoad, EraseRead, rows, world
<1> QED
  BY <1>2, Reads DEF WithdrawLoad, EraseRead, NoRead, NoSource

\* A withdrawal reads the row as it is, or finds none.
LEMMA WithdrawReadStep ==
    ASSUME ClaimInv, NEW w \in withdrawal, WithdrawRead(w)
    PROVE  ClaimInv'
<1> DEFINE r == IF w.keyed THEN source[w.claim] ELSE NoSource
           v == [w EXCEPT !.pc = "read", !.row = r]
<1>1. w.claim \in Claims /\ r \in SourceRow
  BY DEF ClaimInv, TypeOK, NoSource, SourceRow, Note
<1>2. NoteSound(w.claim, r)
  BY <1>1 DEF ClaimInv, SourceSound, NoteSound, NoSource
<1> HIDE DEF r
<1>3. v.claim = w.claim /\ v.row = r /\ v \in [claim : Claims, keyed : BOOLEAN, pc : {"loaded", "read"}, row : SourceRow]
  BY <1>1 DEF ClaimInv, TypeOK
<1>4. withdrawal' = (withdrawal \ {w}) \cup {v} /\ UNCHANGED <<rows, world, check, recheck, patching, erasing>>
  BY DEF WithdrawRead, r
<1> HIDE DEF v
<1>5. TypeOK' /\ CheckSound' /\ SourceSound'
  BY <1>3, <1>4 DEF ClaimInv, TypeOK, CheckSound, SourceSound, NoteSound, rows, world
<1>6. PatchSound'
  BY <1>2, <1>3, <1>4 DEF ClaimInv, PatchSound, NoteSound, rows
<1> QED
  BY <1>5, <1>6 DEF ClaimInv

LEMMA WithdrawThrowsStep ==
    ASSUME ClaimInv, NEW w \in withdrawal, WithdrawThrows(w)
    PROVE  ClaimInv'
<1>1. TypeOK' /\ CheckSound'
  BY DEF ClaimInv, TypeOK, CheckSound, WithdrawThrows, rows, world
<1> QED
  BY <1>1, Reads DEF WithdrawThrows, NoRead

\* The row that was read overwrites one that exists, disabled, and the claim ends unless it
\* is erased already.
LEMMA WithdrawStep ==
    ASSUME ClaimInv, NEW w \in withdrawal, Withdraw(w)
    PROVE  ClaimInv'
<1> DEFINE c == w.claim
<1>1. c \in Claims /\ w.row \in SourceRow /\ NoteSound(c, w.row)
  BY DEF ClaimInv, TypeOK, PatchSound
<1>2. /\ claim' \in [Claims -> [status : Status, keyed : BOOLEAN]]
      /\ ErasedStays
  <2>1. CASE claim[c].status = "erased"
    BY <2>1 DEF Withdraw, ErasedStays, ClaimInv, TypeOK
  <2>2. CASE claim[c].status # "erased"
    BY <1>1, <2>2, StatusSet DEF Withdraw, ErasedStays, Status
  <2> QED
    BY <2>1, <2>2
<1>3. /\ source' \in [Claims -> SourceRow]
      /\ \A d \in Claims : \/ source'[d] = source[d]
                           \/ /\ d = c /\ source'[d].exists = w.row.exists
                              /\ source'[d].note = w.row.note
  BY <1>1 DEF Withdraw, WithdrawnRow, ClaimInv, TypeOK, SourceRow
<1>4. SourceSound'
  <2> SUFFICES ASSUME NEW d \in Claims PROVE NoteSound(d, source[d])'
    BY DEF SourceSound
  <2>1. CASE source'[d] = source[d]
    BY <1>2, <2>1, SourcesStay
  <2>2. CASE d = c /\ source'[d].exists = w.row.exists /\ source'[d].note = w.row.note
    BY <1>1, <1>2, <2>2 DEF NoteSound, ErasedStays
  <2> QED
    BY <1>3, <2>1, <2>2
<1>5. TypeOK' /\ CheckSound'
  BY <1>2, <1>3 DEF ClaimInv, TypeOK, CheckSound, Withdraw, world
<1> QED
  BY <1>2, <1>4, <1>5, PatchesStay DEF ClaimInv, Withdraw, NoRead

LEMMA PatchReadStep ==
    ASSUME ClaimInv, NEW c \in Claims, PatchRead(c)
    PROVE  ClaimInv'
<1>1. source[c] \in SourceRow
  BY DEF ClaimInv, TypeOK
<1>2. TypeOK' /\ CheckSound' /\ SourceSound'
  BY <1>1 DEF ClaimInv, TypeOK, CheckSound, SourceSound, NoteSound, PatchRead, rows, world
<1>3. PatchSound'
  <2> SUFFICES ASSUME NEW w \in patching' PROVE w.row.exists /\ NoteSound(w.claim, w.row)
    BY DEF ClaimInv, PatchSound, NoteSound, PatchRead, rows
  <2>1. CASE w \in patching
    BY <2>1 DEF ClaimInv, PatchSound
  <2>2. CASE w = [claim |-> c, row |-> source[c]]
    BY <2>2 DEF ClaimInv, SourceSound, PatchRead
  <2> QED
    BY <2>1, <2>2 DEF PatchRead
<1> QED
  BY <1>2, <1>3 DEF ClaimInv

\* A row read long ago overwrites one that exists.
LEMMA PatchWriteStep ==
    ASSUME ClaimInv, NEW w \in patching, PatchWrite(w)
    PROVE  ClaimInv'
<1>1. w.claim \in Claims /\ w.row \in SourceRow /\ NoteSound(w.claim, w.row)
  BY DEF ClaimInv, TypeOK, PatchSound
<1>2. UNCHANGED claim /\ ErasedStays
  BY DEF PatchWrite, ErasedStays
<1>3. /\ source' \in [Claims -> SourceRow]
      /\ \A d \in Claims : source'[d] = source[d] \/ (d = w.claim /\ source'[d] = w.row)
  BY <1>1 DEF PatchWrite, ClaimInv, TypeOK
<1>4. SourceSound'
  BY <1>1, <1>2, <1>3 DEF SourceSound, NoteSound, ClaimInv
<1>5. TypeOK' /\ CheckSound'
  BY <1>3 DEF ClaimInv, TypeOK, CheckSound, PatchWrite, world
<1> QED
  BY <1>2, <1>4, <1>5, PatchesStay DEF ClaimInv, PatchWrite, NoRead

LEMMA DeleteStep ==
    ASSUME ClaimInv, NEW c \in Claims, DeleteSource(c)
    PROVE  ClaimInv'
<1>1. ErasedStays
  BY DEF DeleteSource, ErasedStays
<1>2. /\ source' \in [Claims -> SourceRow]
      /\ \A d \in Claims : source'[d] = source[d] \/ ~source'[d].exists
  BY DEF DeleteSource, ClaimInv, TypeOK, NoSource, SourceRow, Note
<1>3. SourceSound'
  BY <1>2, SourcesStay, <1>1 DEF SourceSound, NoteSound
<1>4. TypeOK' /\ CheckSound'
  BY <1>2 DEF ClaimInv, TypeOK, CheckSound, DeleteSource, world, requests
<1> QED
  BY <1>1, <1>3, <1>4, PatchesStay DEF ClaimInv, DeleteSource, requests, NoRead

\* The note is closed in the same transaction that erases the claim.
LEMMA EraseWriteStep ==
    ASSUME ClaimInv, NEW e \in erasing, EraseWrite(e)
    PROVE  ClaimInv'
<1> DEFINE c == e.claim
<1>1. c \in Claims
  BY DEF ClaimInv, TypeOK
<1>2. /\ claim' \in [Claims -> [status : Status, keyed : BOOLEAN]]
      /\ \A d \in Claims : claim'[d].status = IF d = c THEN "erased" ELSE claim[d].status
  BY <1>1, StatusSet DEF EraseWrite, Status
<1>3. ErasedStays
  BY <1>2 DEF ErasedStays
<1>4. /\ source' \in [Claims -> SourceRow]
      /\ \A d \in Claims : source'[d] = source[d] \/ (d = c /\ source'[d].note = "closed")
  BY <1>1 DEF EraseWrite, ClaimInv, TypeOK, SourceRow, Note
<1>5. SourceSound'
  BY <1>1, <1>2, <1>3, <1>4, SourcesStay DEF SourceSound, NoteSound
<1>6. TypeOK' /\ CheckSound'
  BY <1>2, <1>4 DEF ClaimInv, TypeOK, CheckSound, EraseWrite, world
<1> QED
  BY <1>3, <1>5, <1>6, PatchesStay DEF ClaimInv, EraseWrite, NoRead

LEMMA ClaimInvNext ==
    ASSUME ClaimInv, [Next]_vars
    PROVE  ClaimInv'
<1>1. CASE UNCHANGED vars
  BY <1>1 DEF vars, ClaimInv, TypeOK, CheckSound, PatchSound, SourceSound, NoteSound
<1>2. CASE Next
  <2>1. ASSUME NEW c \in Claims, Add(c) \/ Publish(c) \/ Age(c) \/ CheckNow(c) PROVE ClaimInv'
    BY <2>1, AddStep, WorldStep, CheckNowStep
  <2>2. CASE Worker
    BY <2>2, RecheckBeginStep, RecheckVisitStep DEF Worker
  <2>3. ASSUME NEW p \in Checkers, CheckStep(p) \/ VerifyThrows(p) PROVE ClaimInv'
    BY <2>3, NoAnswerStep, FoundStep, VerifyStep DEF CheckStep
  <2>4. ASSUME NEW c \in Touched, WithdrawLoad(c) \/ PatchRead(c) \/ DeleteSource(c) \/ EraseRead(c)
        PROVE  ClaimInv'
    <3>1. c \in Claims
      BY MerchantAssumption
    <3> QED
      BY <2>4, <3>1, LoadStep, PatchReadStep, DeleteStep
  <2> QED
    BY <1>2, <2>1, <2>2, <2>3, <2>4, WithdrawReadStep, WithdrawStep, WithdrawThrowsStep,
       PatchWriteStep, EraseWriteStep DEF Next
<1> QED
  BY <1>1, <1>2

LEMMA ClaimInvHolds == Spec => []ClaimInv
<1>1. Init => ClaimInv
  BY DEF Init, ClaimInv, TypeOK, CheckSound, PatchSound, SourceSound, NoteSound, Status, SourceRow,
         Note, NoSource, CheckState, Nothing
<1>2. ClaimInv /\ [Next]_vars => ClaimInv'
  BY ClaimInvNext
<1> QED
  BY <1>1, <1>2, PTL DEF Spec

------------------------------------------------------------------------------
(* What a step does to the claims and the sources *)

\* The steps that write rows: the others leave them as they are.
LEMMA WritesRows ==
    ASSUME ClaimInv, [Next]_vars
    PROVE  \/ UNCHANGED rows
           \/ UNCHANGED source /\ \E c \in Claims : Add(c) \/ Failed(c)
           \/ \E p \in Checkers : Verify(p) /\ StillPending(check[p].claim)
           \/ \E w \in withdrawal : Withdraw(w)
           \/ \E w \in patching : PatchWrite(w)
           \/ \E c \in Claims : DeleteSource(c)
           \/ \E e \in erasing : EraseWrite(e)
<1>1. ASSUME NEW c \in Claims, Add(c) \/ Publish(c) \/ Age(c) \/ CheckNow(c)
      PROVE  UNCHANGED rows \/ (UNCHANGED source /\ Add(c))
  BY <1>1 DEF Add, Publish, Age, CheckNow
<1>2. ASSUME Worker
      PROVE  UNCHANGED rows \/ (UNCHANGED source /\ \E c \in Claims : Failed(c))
  BY <1>2 DEF Worker, RecheckBegin, RecheckVisit, rows
<1>3. ASSUME NEW p \in Checkers, CheckStep(p) \/ VerifyThrows(p)
      PROVE  UNCHANGED rows \/ (Verify(p) /\ StillPending(check[p].claim))
  BY <1>3 DEF CheckStep, NotFound, Found, Verify, VerifyThrows
<1>4. ASSUME NEW c \in Touched, WithdrawLoad(c) \/ PatchRead(c) \/ DeleteSource(c) \/ EraseRead(c)
      PROVE  UNCHANGED rows \/ \E d \in Claims : DeleteSource(d)
  BY <1>4, MerchantAssumption DEF WithdrawLoad, PatchRead, EraseRead
<1>5. ASSUME NEW w \in withdrawal, WithdrawRead(w) \/ WithdrawThrows(w) PROVE UNCHANGED rows
  BY <1>5 DEF WithdrawRead, WithdrawThrows
<1>6. CASE UNCHANGED vars
  BY <1>6 DEF vars, rows
<1> QED
  BY <1>1, <1>2, <1>3, <1>4, <1>5, <1>6 DEF Next

\* The claim that changes is given one status; it is pending before it is verified
\* or failed, and was never made before it is pending.
LEMMA StatusMoves ==
    ASSUME ClaimInv, [Next]_vars, NEW c \in Claims
    PROVE  /\ claim'[c].status = "pending" => claim[c].status \in {"none", "pending"}
           /\ claim'[c].status = "verified" => claim[c].status \in {"pending", "verified"}
           /\ claim'[c].status = "failed" => claim[c].status \in {"pending", "failed"}
<1>1. CASE UNCHANGED claim
  BY <1>1
<1>2. ASSUME NEW d \in Claims, Add(d) \/ Failed(d)
      PROVE  \/ claim'[c].status = claim[c].status
             \/ claim'[c].status = "pending" /\ claim[c].status = "none"
             \/ claim'[c].status = "failed" /\ claim[c].status = "pending"
  <2>1. CASE Add(d)
    BY <2>1, StatusSet DEF Add, Status
  <2>2. CASE Failed(d)
    BY <2>2, FailedStep
  <2> QED
    BY <1>2, <2>1, <2>2
<1>3. ASSUME NEW p \in Checkers, Verify(p), StillPending(check[p].claim)
      PROVE  \/ claim'[c].status = claim[c].status
             \/ claim'[c].status = "verified" /\ claim[c].status = "pending"
  BY <1>3 DEF Verify, StillPending, ClaimInv, TypeOK
<1>4. ASSUME NEW w \in withdrawal, Withdraw(w)
      PROVE  claim'[c].status = claim[c].status \/ claim'[c].status = "withdrawn"
  <2>1. w.claim \in Claims
    BY DEF ClaimInv, TypeOK
  <2>2. CASE claim[w.claim].status = "erased"
    BY <1>4, <2>2 DEF Withdraw
  <2>3. CASE claim[w.claim].status # "erased"
    <3>1. SetStatus(w.claim, "withdrawn") /\ "withdrawn" \in Status
      BY <1>4, <2>3 DEF Withdraw, Status
    <3> QED
      BY <2>1, <3>1, StatusSet
  <2> QED
    BY <2>2, <2>3
<1>5. ASSUME NEW e \in erasing, EraseWrite(e)
      PROVE  claim'[c].status = claim[c].status \/ claim'[c].status = "erased"
  <2>1. e.claim \in Claims /\ SetStatus(e.claim, "erased") /\ "erased" \in Status
    BY <1>5 DEF ClaimInv, TypeOK, EraseWrite, Status
  <2> QED
    BY <2>1, StatusSet
<1> QED
  BY <1>1, <1>2, <1>3, <1>4, <1>5, WritesRows DEF rows, PatchWrite, DeleteSource

\* A source appears only where a pending claim is verified.
LEMMA SourceAppears ==
    ASSUME ClaimInv, [Next]_vars, NEW c \in Claims, source'[c].exists, ~source[c].exists
    PROVE  claim[c].status = "pending"
<1>1. ASSUME NEW p \in Checkers, Verify(p), StillPending(check[p].claim)
      PROVE  claim[c].status = "pending"
  BY <1>1 DEF Verify, StillPending, ClaimInv, TypeOK
<1>2. ASSUME NEW w \in withdrawal, Withdraw(w)
      PROVE  source'[c] = source[c] \/ source[c].exists
  BY <1>2 DEF Withdraw, ClaimInv, TypeOK
<1>3. ASSUME NEW w \in patching, PatchWrite(w)
      PROVE  source'[c] = source[c] \/ source[c].exists
  BY <1>3 DEF PatchWrite, ClaimInv, TypeOK
<1>4. ASSUME NEW d \in Claims, DeleteSource(d)
      PROVE  source'[c] = source[c] \/ ~source'[c].exists
  BY <1>4 DEF DeleteSource, NoSource, ClaimInv, TypeOK
<1>5. ASSUME NEW e \in erasing, EraseWrite(e)
      PROVE  source'[c].exists = source[c].exists
  BY <1>5 DEF EraseWrite, ClaimInv, TypeOK, SourceRow
<1> QED
  BY <1>1, <1>2, <1>3, <1>4, <1>5, WritesRows DEF rows

\* A claim moves forward only, whatever check was under way: one that ended stays
\* ended and no source comes out of it, and a verified one is never failed for age
\* (merchant.js:180-184, 323-325, 372-376).
THEOREM ClaimsMoveForward == Spec => MovesForward
<1> DEFINE Forward(c) == /\ claim[c].status \in {"withdrawn", "failed", "erased"} =>
                              /\ claim'[c].status # "pending" /\ claim'[c].status # "verified"
                              /\ source'[c].exists => source[c].exists
                         /\ claim[c].status = "verified" => claim'[c].status # "failed"
<1>1. ClaimInv /\ [Next]_vars => \A c \in Claims : Forward(c)
  BY StatusMoves, SourceAppears
<1>2. ClaimInv /\ [Next]_vars => [\A c \in Claims : Forward(c)]_vars
  BY <1>1
<1> QED
  BY <1>2, ClaimInvHolds, PTL DEF Spec, MovesForward

\* What takes the permission note away is the closing of the account only: a PATCH
\* writes back a note that it read while the claim stood, or the closed one
\* (merchant.js:12, 354; account-data.js:10-12).
THEOREM NoteOutlivesPermission == Spec => NoteKept
<1> DEFINE Kept(c) == source[c].exists /\ source'[c].exists /\ source[c].note = "permission"
                         /\ source'[c].note # "permission" => claim'[c].status = "erased"
<1>1. ASSUME ClaimInv, [Next]_vars, NEW c \in Claims PROVE Kept(c)
  <2>1. ClaimInv'
    BY <1>1, ClaimInvNext
  <2>2. source'[c].exists => source'[c].note # "none"
                             /\ (source'[c].note = "closed" => claim'[c].status = "erased")
    BY <2>1 DEF ClaimInv, SourceSound, NoteSound
  <2>3. source'[c].note \in Note
    BY <2>1 DEF ClaimInv, TypeOK, SourceRow
  <2> QED
    BY <2>2, <2>3 DEF Note
<1>2. ClaimInv /\ [Next]_vars => [\A c \in Claims : Kept(c)]_vars
  BY <1>1
<1> QED
  BY <1>2, ClaimInvHolds, PTL DEF Spec, NoteKept

------------------------------------------------------------------------------
(* Merchant without PATCH *)

\* No PATCH of an operator: one that overlaps with a withdrawal writes back what it read.
NoPatch == "patch" \notin Ops
\* None is under way then.
NoPatchInv == patching = {}

LEMMA NoPatchNext ==
    ASSUME NoPatch, NoPatchInv, [Next]_vars
    PROVE  NoPatchInv'
<1>1. ASSUME NEW c \in Claims, Add(c) \/ Publish(c) \/ Age(c) \/ CheckNow(c) PROVE patching' = patching
  BY <1>1 DEF Add, Publish, Age, CheckNow, requests
<1>2. ASSUME Worker PROVE patching' = patching
  BY <1>2 DEF Worker, RecheckBegin, RecheckVisit
<1>3. ASSUME NEW p \in Checkers, CheckStep(p) \/ VerifyThrows(p) PROVE patching' = patching
  BY <1>3 DEF CheckStep, NotFound, Found, Verify, VerifyThrows
<1>4. ASSUME NEW c \in Touched, WithdrawLoad(c) \/ PatchRead(c) \/ DeleteSource(c) \/ EraseRead(c)
      PROVE  patching' = patching
  BY <1>4 DEF NoPatch, WithdrawLoad, PatchRead, DeleteSource, EraseRead, requests
<1>5. ASSUME NEW w \in withdrawal, WithdrawRead(w) \/ Withdraw(w) \/ WithdrawThrows(w)
      PROVE  patching' = patching
  BY <1>5 DEF WithdrawRead, Withdraw, WithdrawThrows
<1>6. ASSUME NEW e \in erasing, EraseWrite(e) PROVE patching' = patching
  BY <1>6 DEF EraseWrite
<1>7. ASSUME UNCHANGED vars PROVE patching' = patching
  BY <1>7 DEF vars
<1> QED
  BY <1>1, <1>2, <1>3, <1>4, <1>5, <1>6, <1>7 DEF NoPatchInv, Next

LEMMA NoPatchHolds == NoPatch => (Spec => []NoPatchInv)
<1> SUFFICES ASSUME NoPatch PROVE Spec => []NoPatchInv
  OBVIOUS
<1>1. Init => NoPatchInv
  BY DEF Init, NoPatchInv
<1>2. NoPatchInv /\ [Next]_vars => NoPatchInv'
  BY NoPatchNext
<1> QED
  BY <1>1, <1>2, PTL DEF Spec

\* What a step can make of a source whose claim is over: it stays as it is, or it is
\* disabled, or it goes.
LEMMA OverStays ==
    ASSUME NoPatchInv, ClaimInv, [Next]_vars, NEW c \in Claims, claim[c].status \in {"withdrawn", "erased"}
    PROVE  source'[c] = source[c] \/ ~source'[c].enabled
<1>1. source \in [Claims -> SourceRow]
  BY DEF ClaimInv, TypeOK
<1>2. CASE UNCHANGED rows \/ UNCHANGED source
  BY <1>2 DEF rows
<1>3. ASSUME NEW p \in Checkers, Verify(p), StillPending(check[p].claim) PROVE source'[c] = source[c]
  BY <1>1, <1>3 DEF Verify, StillPending
<1>4. ASSUME NEW w \in withdrawal, Withdraw(w) PROVE source'[c] = source[c] \/ ~source'[c].enabled
  <2>1. w.row \in SourceRow
    BY DEF ClaimInv, TypeOK
  <2> QED
    BY <1>1, <1>4, <2>1 DEF Withdraw, WithdrawnRow, SourceRow
<1>5. ASSUME NEW d \in Claims, DeleteSource(d) PROVE source'[c] = source[c] \/ ~source'[c].enabled
  BY <1>1, <1>5 DEF DeleteSource, NoSource
<1>6. ASSUME NEW e \in erasing, EraseWrite(e) PROVE source'[c] = source[c] \/ ~source'[c].enabled
  BY <1>1, <1>6 DEF EraseWrite, SourceRow
<1> QED
  BY WritesRows, <1>2, <1>3, <1>4, <1>5, <1>6 DEF NoPatchInv

\* Without a PATCH that overlaps, what a withdrawal disabled stays disabled, whatever check
\* or withdrawal was under way and whatever else is deleted or erased (merchant.js:11-12).
THEOREM WithdrawnIsDisabled == NoPatch => (Spec => WithdrawnStaysDisabled)
<1> SUFFICES ASSUME NoPatch PROVE Spec => WithdrawnStaysDisabled
  OBVIOUS
<1> DEFINE Stays(c) == claim[c].status = "withdrawn" /\ source[c].exists /\ ~source[c].enabled => ~source'[c].enabled
<1>1. ASSUME ClaimInv, NoPatchInv, [Next]_vars, NEW c \in Claims PROVE Stays(c)
  BY <1>1, OverStays
<1>2. ClaimInv /\ NoPatchInv /\ [Next]_vars => [\A c \in Claims : Stays(c)]_vars
  BY <1>1
<1> QED
  BY <1>2, ClaimInvHolds, NoPatchHolds, PTL DEF Spec, WithdrawnStaysDisabled

------------------------------------------------------------------------------
(* Registry: functions laid over each other, and parts of them *)

LEMMA Laid ==
    ASSUME NEW f, NEW g
    PROVE  /\ DOMAIN Over(f, g) = DOMAIN f \cup DOMAIN g
           /\ \A k \in DOMAIN f : Over(f, g)[k] = f[k]
           /\ \A k \in DOMAIN g : k \notin DOMAIN f => Over(f, g)[k] = g[k]
BY DEF Over

LEMMA CopiedFields ==
    ASSUME NEW e, NEW keys
    PROVE  /\ DOMAIN Copied(e, keys) = DOMAIN e \cap keys
           /\ \A k \in DOMAIN e \cap keys : Copied(e, keys)[k] = e[k]
BY DEF Copied, Restrict

LEMMA CopiesAlike ==
    ASSUME NEW e, NEW f, NEW keys,
           DOMAIN e \cap keys = DOMAIN f \cap keys,
           \A k \in DOMAIN e \cap keys : e[k] = f[k]
    PROVE  Copied(e, keys) = Copied(f, keys)
BY DEF Copied, Restrict

\* The fields that every stored endpoint of an api source has.
Mapped == {"url", "format", "item_kind", "fields", "extra", "items_shape", "items_path"}

\* What an api endpoint is stored as, and that it reads as what it was made from.
StoredFrom(s, e, keys, kind) ==
    /\ DOMAIN s = (DOMAIN e \cap keys) \cup Mapped
    /\ \A k \in DOMAIN e \cap keys : s[k] = e[k]
    /\ s.url = e.url
    /\ s.format = Or(e, "format", "json")
    /\ s.item_kind = Or(e, "item_kind", kind)
    /\ s.fields = Or(e, "fields", <<>>)
    /\ s.extra = Or(e, "extra", <<>>)
    /\ s.items_shape = Or(e, "items_shape", "array")
    /\ s.items_path = Or(e, "items_path", "")
ReadAlike(s, e, keys, kind) ==
    /\ ApiOf(s, keys, kind) = s
    /\ Shape(s) = Shape(e)
    /\ Or(s, "format", "json") = Or(e, "format", "json")
    /\ Or(s, "fields", <<>>) = Or(e, "fields", <<>>)
    /\ Or(s, "extra", <<>>) = Or(e, "extra", <<>>)
    /\ Or(s, "items_shape", "array") = Or(e, "items_shape", "array")
    /\ Or(s, "items_path", "") = Or(e, "items_path", "")

LEMMA ApiFields ==
    ASSUME NEW e, NEW keys, NEW kind, keys \cap Mapped = {}
    PROVE  StoredFrom(ApiOf(e, keys, kind), e, keys, kind)
<1> DEFINE D == Defaults(e, "json", kind)
           S == Shape(e)
           C == Copied(e, keys)
           T == Over(D, S)
           s == ApiOf(e, keys, kind)
<1>1. /\ DOMAIN D = {"url", "format", "item_kind", "fields", "extra"}
      /\ D.url = e.url
      /\ D.format = Or(e, "format", "json")
      /\ D.item_kind = Or(e, "item_kind", kind)
      /\ D.fields = Or(e, "fields", <<>>)
      /\ D.extra = Or(e, "extra", <<>>)
  BY DEF Defaults
<1>2. /\ DOMAIN S = {"items_shape", "items_path"}
      /\ S.items_shape = Or(e, "items_shape", "array")
      /\ S.items_path = Or(e, "items_path", "")
  BY DEF Shape
<1>3. DOMAIN C = DOMAIN e \cap keys /\ \A k \in DOMAIN e \cap keys : C[k] = e[k]
  BY CopiedFields
<1>4. DOMAIN T = DOMAIN D \cup DOMAIN S
      /\ (\A k \in DOMAIN D : T[k] = D[k]) /\ (\A k \in DOMAIN S : k \notin DOMAIN D => T[k] = S[k])
  BY Laid
<1>5. s = Over(C, T)
  BY DEF ApiOf
<1> HIDE DEF D, S, C, T, s
<1>6. DOMAIN s = DOMAIN C \cup DOMAIN T
      /\ (\A k \in DOMAIN C : s[k] = C[k]) /\ (\A k \in DOMAIN T : k \notin DOMAIN C => s[k] = T[k])
  BY <1>5, Laid
<1>7. DOMAIN T = Mapped
  BY <1>1, <1>2, <1>4 DEF Mapped
<1>8. \A k \in Mapped : s[k] = T[k]
  BY <1>3, <1>6, <1>7
<1>9. /\ T.url = D.url /\ T.format = D.format /\ T.item_kind = D.item_kind /\ T.fields = D.fields
      /\ T.extra = D.extra /\ T.items_shape = S.items_shape /\ T.items_path = S.items_path
  BY <1>1, <1>2, <1>4
<1>10. /\ s.url = T.url /\ s.format = T.format /\ s.item_kind = T.item_kind /\ s.fields = T.fields
       /\ s.extra = T.extra /\ s.items_shape = T.items_shape /\ s.items_path = T.items_path
  BY <1>8 DEF Mapped
<1>11. /\ DOMAIN s = (DOMAIN e \cap keys) \cup Mapped
       /\ \A k \in DOMAIN e \cap keys : s[k] = e[k]
       /\ s.url = e.url
       /\ s.format = Or(e, "format", "json")
       /\ s.item_kind = Or(e, "item_kind", kind)
       /\ s.fields = Or(e, "fields", <<>>)
       /\ s.extra = Or(e, "extra", <<>>)
       /\ s.items_shape = Or(e, "items_shape", "array")
       /\ s.items_path = Or(e, "items_path", "")
  BY <1>1, <1>2, <1>3, <1>6, <1>7, <1>9, <1>10
<1> QED
  BY <1>11 DEF s, StoredFrom

LEMMA ApiAgain ==
    ASSUME NEW e, NEW keys, NEW kind, keys \cap Mapped = {}
    PROVE  ReadAlike(ApiOf(e, keys, kind), e, keys, kind)
<1> DEFINE s == ApiOf(e, keys, kind)
<1>1. /\ DOMAIN s = (DOMAIN e \cap keys) \cup Mapped
      /\ \A k \in DOMAIN e \cap keys : s[k] = e[k]
      /\ s.url = e.url
      /\ s.format = Or(e, "format", "json")
      /\ s.item_kind = Or(e, "item_kind", kind)
      /\ s.fields = Or(e, "fields", <<>>)
      /\ s.extra = Or(e, "extra", <<>>)
      /\ s.items_shape = Or(e, "items_shape", "array")
      /\ s.items_path = Or(e, "items_path", "")
  <2>1. StoredFrom(s, e, keys, kind)
    BY ApiFields
  <2> QED
    BY <2>1 DEF StoredFrom
<1> HIDE DEF s
<1>2. /\ Or(s, "format", "json") = Or(e, "format", "json")
      /\ Or(s, "item_kind", kind) = Or(e, "item_kind", kind)
      /\ Or(s, "fields", <<>>) = Or(e, "fields", <<>>)
      /\ Or(s, "extra", <<>>) = Or(e, "extra", <<>>)
      /\ Or(s, "items_shape", "array") = Or(e, "items_shape", "array")
      /\ Or(s, "items_path", "") = Or(e, "items_path", "")
  <2>1. Mapped \subseteq DOMAIN s
    BY <1>1
  <2>2. \A k \in Mapped : \A default : Or(s, k, default) = s[k]
    BY <2>1 DEF Or, Given
  <2> QED
    BY <1>1, <2>2 DEF Mapped
<1>3. Copied(s, keys) = Copied(e, keys)
  <2>1. DOMAIN s \cap keys = DOMAIN e \cap keys
    BY <1>1
  <2> QED
    BY <1>1, <2>1 DEF Copied, Restrict
<1>4. Defaults(s, "json", kind) = Defaults(e, "json", kind)
  BY <1>1, <1>2 DEF Defaults
<1>5. Shape(s) = Shape(e)
  BY <1>2 DEF Shape
<1>6. ApiOf(s, keys, kind) = s
  BY <1>3, <1>4, <1>5 DEF ApiOf, s
<1> QED
  BY <1>2, <1>5, <1>6 DEF s, ReadAlike

\* An endpoint of the resolver: what the row adds is accepted back.
LEMMA ResolverStable ==
    ASSUME NEW e, Given(e, "resolver"), EndpointAccepted("api", e)
    PROVE  LET s == EndpointOf("api", e)
           IN  EndpointAccepted("api", s) /\ EndpointOf("api", s) = s /\ s.url = e.url
<1> DEFINE keys == {"max_bytes", "resolver"}
           s == ApiOf(e, keys, "job")
<1>1. EndpointOf("api", e) = s
  BY DEF EndpointOf
<1>2. Given(e, "url") /\ ResolverAccepted(e)
  BY DEF EndpointAccepted
<1>3. keys \cap Mapped = {}
  BY DEF Mapped
<1> HIDE DEF keys
<1>a. StoredFrom(s, e, keys, "job") /\ ReadAlike(s, e, keys, "job")
  BY <1>3, ApiFields, ApiAgain
<1> HIDE DEF s
<1>4. /\ DOMAIN s = (DOMAIN e \cap keys) \cup Mapped
      /\ \A k \in DOMAIN e \cap keys : s[k] = e[k]
      /\ s.url = e.url
  BY <1>a DEF StoredFrom
<1>5. /\ ApiOf(s, keys, "job") = s
      /\ Shape(s) = Shape(e)
      /\ Or(s, "format", "json") = Or(e, "format", "json")
      /\ Or(s, "fields", <<>>) = Or(e, "fields", <<>>)
      /\ Or(s, "extra", <<>>) = Or(e, "extra", <<>>)
  BY <1>a DEF ReadAlike
<1>6. Given(s, "resolver") /\ Given(s, "url") /\ s.resolver = e.resolver
  BY <1>4 DEF Given, Mapped, keys
<1>7. EndpointOf("api", s) = s
  BY <1>5, <1>6 DEF EndpointOf, keys
<1>8. DOMAIN s \subseteq ResolverKeys
  BY <1>4 DEF Mapped, ResolverKeys, keys
<1>9. ResolverAccepted(s)
  BY <1>2, <1>4, <1>5, <1>6, <1>8 DEF ResolverAccepted
<1>10. EndpointAccepted("api", s)
  BY <1>6, <1>9 DEF EndpointAccepted
<1> QED
  BY <1>1, <1>4, <1>7, <1>10

\* An endpoint with a mapping.
LEMMA MappingStable ==
    ASSUME NEW e, ~Given(e, "resolver"), EndpointAccepted("api", e)
    PROVE  LET s == EndpointOf("api", e)
           IN  EndpointAccepted("api", s) /\ EndpointOf("api", s) = s /\ s.url = e.url
<1> DEFINE s == ApiOf(e, ApiKeys, "record")
<1>1. EndpointOf("api", e) = s
  BY DEF EndpointOf
<1>2. Given(e, "url") /\ Mappable(e, FALSE)
  BY DEF EndpointAccepted
<1>3. ApiKeys \cap Mapped = {}
  BY DEF ApiKeys, Mapped
<1>a. StoredFrom(s, e, ApiKeys, "record") /\ ReadAlike(s, e, ApiKeys, "record")
  BY <1>3, ApiFields, ApiAgain
<1> HIDE DEF s
<1>4. /\ DOMAIN s = (DOMAIN e \cap ApiKeys) \cup Mapped
      /\ \A k \in DOMAIN e \cap ApiKeys : s[k] = e[k]
      /\ s.url = e.url
  BY <1>a DEF StoredFrom
<1>5. /\ ApiOf(s, ApiKeys, "record") = s
      /\ Or(s, "format", "json") = Or(e, "format", "json")
      /\ Or(s, "fields", <<>>) = Or(e, "fields", <<>>)
      /\ Or(s, "extra", <<>>) = Or(e, "extra", <<>>)
      /\ Or(s, "items_shape", "array") = Or(e, "items_shape", "array")
      /\ Or(s, "items_path", "") = Or(e, "items_path", "")
  BY <1>a DEF ReadAlike
<1>6. ~Given(s, "resolver") /\ Given(s, "url") /\ ~Given(s, "max_rows")
  BY <1>4 DEF Given, Mapped, ApiKeys
<1>7. EndpointOf("api", s) = s
  BY <1>5, <1>6 DEF EndpointOf
<1>8. /\ Or(s, "extra_lists", <<>>) = Or(e, "extra_lists", <<>>)
      /\ Given(s, "identity_fields") <=> Given(e, "identity_fields")
  BY <1>4 DEF Or, Given, Mapped, ApiKeys
<1>9. Or(e, "format", "json") \in {"json", "xml"} \/ Or(e, "items_path", "") = ""
  BY <1>2 DEF Mappable, Or
<1>10. Mappable(s, FALSE)
  BY <1>2, <1>5, <1>6, <1>8, <1>9 DEF Mappable
<1>11. EndpointAccepted("api", s)
  BY <1>6, <1>10 DEF EndpointAccepted
<1> QED
  BY <1>1, <1>4, <1>7, <1>11

\* The same of a bulk source.
BulkMapped == {"url", "format", "item_kind", "fields", "extra", "max_rows"}

BulkStoredFrom(s, e) ==
    /\ DOMAIN s = (DOMAIN e \cap BulkKeys) \cup BulkMapped
    /\ \A k \in DOMAIN e \cap BulkKeys : s[k] = e[k]
    /\ s.url = e.url
    /\ s.format = Or(e, "format", "csv")
    /\ s.item_kind = Or(e, "item_kind", "record")
    /\ s.fields = Or(e, "fields", <<>>)
    /\ s.extra = Or(e, "extra", <<>>)
    /\ s.max_rows = Or(e, "max_rows", 1000)

LEMMA BulkFields ==
    ASSUME NEW e
    PROVE  BulkStoredFrom(BulkOf(e), e)
<1> DEFINE D == Defaults(e, "csv", "record")
           M == [max_rows |-> Or(e, "max_rows", 1000)]
           C == Copied(e, BulkKeys)
           T == Over(D, M)
           s == BulkOf(e)
<1>1. /\ DOMAIN D = {"url", "format", "item_kind", "fields", "extra"}
      /\ D.url = e.url
      /\ D.format = Or(e, "format", "csv")
      /\ D.item_kind = Or(e, "item_kind", "record")
      /\ D.fields = Or(e, "fields", <<>>)
      /\ D.extra = Or(e, "extra", <<>>)
  BY DEF Defaults
<1>2. DOMAIN M = {"max_rows"} /\ M.max_rows = Or(e, "max_rows", 1000)
  OBVIOUS
<1>3. DOMAIN C = DOMAIN e \cap BulkKeys /\ \A k \in DOMAIN e \cap BulkKeys : C[k] = e[k]
  BY CopiedFields
<1> HIDE DEF D, M, C
<1>4. DOMAIN T = DOMAIN D \cup DOMAIN M
      /\ (\A k \in DOMAIN D : T[k] = D[k]) /\ (\A k \in DOMAIN M : k \notin DOMAIN D => T[k] = M[k])
  BY Laid
<1>5. s = Over(C, T)
  BY DEF BulkOf, D, M, C
<1> HIDE DEF T, s
<1>6. DOMAIN s = DOMAIN C \cup DOMAIN T
      /\ (\A k \in DOMAIN C : s[k] = C[k]) /\ (\A k \in DOMAIN T : k \notin DOMAIN C => s[k] = T[k])
  <2>1. /\ DOMAIN Over(C, T) = DOMAIN C \cup DOMAIN T
        /\ \A k \in DOMAIN C : Over(C, T)[k] = C[k]
        /\ \A k \in DOMAIN T : k \notin DOMAIN C => Over(C, T)[k] = T[k]
    BY Laid
  <2> QED
    BY <1>5, <2>1
<1>7. DOMAIN T = BulkMapped
  BY <1>1, <1>2, <1>4 DEF BulkMapped
<1>8. \A k \in BulkMapped : s[k] = T[k]
  BY <1>3, <1>6, <1>7 DEF BulkMapped, BulkKeys
<1>9. /\ T.url = D.url /\ T.format = D.format /\ T.item_kind = D.item_kind /\ T.fields = D.fields
      /\ T.extra = D.extra /\ T.max_rows = M.max_rows
  BY <1>1, <1>2, <1>4
<1>10. /\ s.url = T.url /\ s.format = T.format /\ s.item_kind = T.item_kind /\ s.fields = T.fields
       /\ s.extra = T.extra /\ s.max_rows = T.max_rows
  BY <1>8 DEF BulkMapped
<1>11. /\ DOMAIN s = (DOMAIN e \cap BulkKeys) \cup BulkMapped
       /\ \A k \in DOMAIN e \cap BulkKeys : s[k] = e[k]
       /\ s.url = e.url
       /\ s.format = Or(e, "format", "csv")
       /\ s.item_kind = Or(e, "item_kind", "record")
       /\ s.fields = Or(e, "fields", <<>>)
       /\ s.extra = Or(e, "extra", <<>>)
       /\ s.max_rows = Or(e, "max_rows", 1000)
  BY <1>1, <1>2, <1>3, <1>6, <1>7, <1>9, <1>10
<1> QED
  BY <1>11 DEF s, BulkStoredFrom

\* The endpoint of a bulk source.
LEMMA BulkStable ==
    ASSUME NEW e, EndpointAccepted("bulk", e)
    PROVE  LET s == EndpointOf("bulk", e)
           IN  EndpointAccepted("bulk", s) /\ EndpointOf("bulk", s) = s /\ s.url = e.url
<1> DEFINE s == BulkOf(e)
<1>1. EndpointOf("bulk", e) = s
  BY DEF EndpointOf
<1>2. Given(e, "url") /\ BulkAccepted(e)
  BY DEF EndpointAccepted
<1> HIDE DEF s
<1>3. /\ DOMAIN s = (DOMAIN e \cap BulkKeys) \cup BulkMapped
      /\ \A k \in DOMAIN e \cap BulkKeys : s[k] = e[k]
      /\ s.url = e.url
      /\ s.format = Or(e, "format", "csv")
      /\ s.item_kind = Or(e, "item_kind", "record")
      /\ s.fields = Or(e, "fields", <<>>)
      /\ s.extra = Or(e, "extra", <<>>)
      /\ s.max_rows = Or(e, "max_rows", 1000)
  <2>1. BulkStoredFrom(s, e)
    BY BulkFields DEF s
  <2> QED
    BY <2>1 DEF BulkStoredFrom
<1>4. /\ Or(s, "format", "csv") = Or(e, "format", "csv")
      /\ Or(s, "item_kind", "record") = Or(e, "item_kind", "record")
      /\ Or(s, "fields", <<>>) = Or(e, "fields", <<>>)
      /\ Or(s, "extra", <<>>) = Or(e, "extra", <<>>)
      /\ Or(s, "max_rows", 1000) = Or(e, "max_rows", 1000)
  <2>1. \A k \in BulkMapped : \A default : Or(s, k, default) = s[k]
    BY <1>3 DEF Or, Given
  <2> QED
    BY <1>3, <2>1 DEF BulkMapped
<1>5. /\ Or(s, "extra_lists", <<>>) = Or(e, "extra_lists", <<>>)
      /\ Given(s, "resolver") <=> Given(e, "resolver")
      /\ Given(e, "resolver") => s.resolver = e.resolver
  BY <1>3 DEF Or, Given, BulkMapped, BulkKeys
<1>6. /\ ~Given(s, "identity_fields") /\ ~Given(e, "identity_fields")
      /\ Or(s, "items_shape", "array") = "array" /\ Or(e, "items_shape", "array") = "array"
      /\ Or(s, "items_path", "") = "" /\ Or(e, "items_path", "") = ""
  <2> DEFINE others == {"identity_fields", "items_shape", "items_path"}
  <2>1. DOMAIN e \cap others = {}
    BY <1>2 DEF BulkAccepted
  <2>2. DOMAIN s \cap others = {}
    BY <1>3 DEF BulkMapped, BulkKeys
  <2> QED
    BY <2>1, <2>2 DEF Or, Given
<1>7. Mappable(s, TRUE)
  <2>1. Mappable(e, TRUE)
    BY <1>2 DEF BulkAccepted
  <2> QED
    <3>1. Or(s, "format", "csv") \in {"csv", "tsv", "jsonl"}
      <4>1. Or(e, "format", "csv") \in {"csv", "tsv"} \cup {"jsonl"}
        BY <2>1 DEF Mappable
      <4> QED
        BY <1>4, <4>1
    <3>2. LET fields == Or(s, "fields", <<>>) IN Given(fields, "identity") \/ Given(fields, "url")
      BY <1>4, <1>6, <2>1 DEF Mappable
    <3>3. "$key" \notin Range(Or(s, "fields", <<>>)) \cup Range(Or(s, "extra", <<>>))
      BY <1>4, <1>6, <2>1 DEF Mappable
    <3>4. DOMAIN Or(s, "extra", <<>>) \cap DOMAIN Or(s, "extra_lists", <<>>) = {}
      BY <1>4, <1>5, <2>1 DEF Mappable
    <3> QED
      BY <1>6, <3>1, <3>2, <3>3, <3>4 DEF Mappable
<1>8. /\ DOMAIN s \subseteq {"url", "format", "item_kind", "fields", "extra", "extra_lists", "max_bytes", "max_rows", "resolver"}
      /\ Given(s, "url")
  BY <1>3 DEF BulkMapped, BulkKeys, Given
<1>9. BulkAccepted(s)
  <2>1. Given(s, "resolver") => s.resolver = "off-delta" /\ s.url = "index.txt" /\ Or(s, "format", "csv") = "jsonl"
    BY <1>2, <1>3, <1>4, <1>5 DEF BulkAccepted
  <2> QED
    BY <1>7, <1>8, <2>1 DEF BulkAccepted
<1>10. EndpointAccepted("bulk", s)
  BY <1>8, <1>9 DEF EndpointAccepted
<1>11. BulkOf(s) = s
  <2>1. DOMAIN s \cap BulkKeys = DOMAIN e \cap BulkKeys
    BY <1>3 DEF BulkMapped, BulkKeys
  <2>2. Copied(s, BulkKeys) = Copied(e, BulkKeys)
    BY <1>3, <2>1 DEF Copied, Restrict
  <2>3. Defaults(s, "csv", "record") = Defaults(e, "csv", "record")
    BY <1>3, <1>4 DEF Defaults
  <2>4. BulkOf(s) = BulkOf(e)
    BY <1>4, <2>2, <2>3 DEF BulkOf
  <2> QED
    BY <2>4 DEF s
<1>12. EndpointOf("bulk", s) = s
  BY <1>11 DEF EndpointOf
<1> QED
  BY <1>1, <1>3, <1>10, <1>12

\* The endpoint of any other source.
LEMMA PlainStable ==
    ASSUME NEW type, type \notin {"api", "bulk"}, NEW e, EndpointAccepted(type, e)
    PROVE  LET s == EndpointOf(type, e)
           IN  EndpointAccepted(type, s) /\ EndpointOf(type, s) = s /\ s.url = e.url
<1> DEFINE s == Copied(e, {"url", "extract"})
<1>1. EndpointOf(type, e) = s
  BY DEF EndpointOf
<1>2. Given(e, "url") /\ DOMAIN e \subseteq {"url"} \cup (IF type \in Feeds THEN {"extract"} ELSE {})
  BY DEF EndpointAccepted
<1>3. /\ DOMAIN s = DOMAIN e \cap {"url", "extract"}
      /\ \A k \in DOMAIN e \cap {"url", "extract"} : s[k] = e[k]
  BY CopiedFields
<1> HIDE DEF s
<1>4. DOMAIN s = DOMAIN e /\ s.url = e.url
  BY <1>2, <1>3 DEF Given
<1>5. EndpointAccepted(type, s)
  BY <1>2, <1>4 DEF EndpointAccepted, Given
<1>6. EndpointOf(type, s) = s
  <2>1. Copied(s, {"url", "extract"}) = Copied(e, {"url", "extract"})
    BY <1>3, <1>4 DEF Copied, Restrict
  <2>2. EndpointOf(type, s) = Copied(s, {"url", "extract"})
    BY DEF EndpointOf
  <2> QED
    BY <2>1, <2>2 DEF s
<1> QED
  BY <1>1, <1>4, <1>5, <1>6

\* An endpoint of any type is accepted back as it is stored, and stored the same.
LEMMA EndpointsStable ==
    ASSUME NEW type, NEW e, EndpointAccepted(type, e)
    PROVE  LET s == EndpointOf(type, e)
           IN  EndpointAccepted(type, s) /\ EndpointOf(type, s) = s /\ s.url = e.url
<1>1. CASE type = "api" /\ Given(e, "resolver")
  BY <1>1, ResolverStable
<1>2. CASE type = "api" /\ ~Given(e, "resolver")
  BY <1>2, MappingStable
<1>3. CASE type = "bulk"
  BY <1>3, BulkStable
<1>4. CASE type \notin {"api", "bulk"}
  BY <1>4, PlainStable
<1> QED
  BY <1>1, <1>2, <1>3, <1>4

------------------------------------------------------------------------------
(* Records *)

SettingFields == {"type", "endpoints", "auth", "max_items", "enabled", "review_required", "sensitive", "default_indexability"}
CrawlField(input) == IF input.type = "crawl" THEN {"crawl"} ELSE {}

\* What a definition is stored as.
RecordFrom(r, input, limit) ==
    /\ DOMAIN r = (DOMAIN input \cap Optional) \cup SettingFields \cup CrawlField(input)
    /\ \A k \in DOMAIN input \cap Optional : r[k] = input[k]
    /\ \A k \in SettingFields : r[k] = Settings(input, limit)[k]
    /\ input.type = "crawl" => r.crawl = Over(Or(input, "crawl", <<>>), CrawlDefaults)

LEMMA RecordFields ==
    ASSUME NEW input, NEW limit
    PROVE  RecordFrom(RecordOf(input, limit), input, limit)
<1> DEFINE C == Copied(input, Optional)
           S == Settings(input, limit)
           W == CrawlOf(input)
           T == Over(S, W)
           r == RecordOf(input, limit)
<1>1. DOMAIN C = DOMAIN input \cap Optional /\ \A k \in DOMAIN input \cap Optional : C[k] = input[k]
  BY CopiedFields
<1>2. DOMAIN S = SettingFields
  BY DEF Settings, SettingFields
<1>3. /\ DOMAIN W = CrawlField(input)
      /\ input.type = "crawl" => W.crawl = Over(Or(input, "crawl", <<>>), CrawlDefaults)
  <2>1. CASE input.type = "crawl"
    BY <2>1 DEF CrawlOf, CrawlField
  <2>2. CASE input.type # "crawl"
    BY <2>2 DEF CrawlOf, CrawlField
  <2> QED
    BY <2>1, <2>2
<1> HIDE DEF C, S, W
<1>4. /\ DOMAIN T = DOMAIN S \cup DOMAIN W
      /\ \A k \in DOMAIN S : T[k] = S[k]
      /\ \A k \in DOMAIN W : k \notin DOMAIN S => T[k] = W[k]
  BY Laid
<1>5. r = Over(C, T)
  BY DEF RecordOf, C, S, W
<1> HIDE DEF T, r
<1>6. /\ DOMAIN r = DOMAIN C \cup DOMAIN T
      /\ \A k \in DOMAIN C : r[k] = C[k]
      /\ \A k \in DOMAIN T : k \notin DOMAIN C => r[k] = T[k]
  <2>1. /\ DOMAIN Over(C, T) = DOMAIN C \cup DOMAIN T
        /\ \A k \in DOMAIN C : Over(C, T)[k] = C[k]
        /\ \A k \in DOMAIN T : k \notin DOMAIN C => Over(C, T)[k] = T[k]
    BY Laid
  <2> QED
    BY <1>5, <2>1
<1>7. Optional \cap SettingFields = {} /\ CrawlField(input) \subseteq {"crawl"}
      /\ "crawl" \notin Optional \cup SettingFields
  BY DEF Optional, SettingFields, CrawlField
<1>8. DOMAIN r = (DOMAIN input \cap Optional) \cup SettingFields \cup CrawlField(input)
  BY <1>1, <1>2, <1>3, <1>4, <1>6
<1>9. \A k \in DOMAIN input \cap Optional : r[k] = input[k]
  BY <1>1, <1>6
<1>10. \A k \in SettingFields : r[k] = S[k]
  BY <1>1, <1>2, <1>4, <1>6, <1>7
<1>11. ASSUME input.type = "crawl" PROVE r.crawl = Over(Or(input, "crawl", <<>>), CrawlDefaults)
  <2>1. "crawl" \in DOMAIN W
    BY <1>3, <1>11 DEF CrawlField
  <2>2. T["crawl"] = W["crawl"] /\ "crawl" \in DOMAIN T
    BY <1>2, <1>4, <1>7, <2>1
  <2>3. r["crawl"] = T["crawl"]
    BY <1>1, <1>6, <1>7, <2>2
  <2> QED
    BY <1>3, <1>11, <2>2, <2>3
<1> QED
  BY <1>8, <1>9, <1>10, <1>11 DEF RecordFrom, r, S

\* The endpoints of a row, or of the definition it was made from.
LEMMA EndpointsAgain ==
    ASSUME NEW input, GivenAccepted(input), NEW eps,
           \/ eps = EndpointsOf(input)
           \/ eps = [n \in DOMAIN EndpointsOf(input) |-> EndpointOf(input.type, EndpointsOf(input)[n])]
    PROVE  /\ DOMAIN eps = DOMAIN EndpointsOf(input)
           /\ \A n \in DOMAIN eps : /\ EndpointAccepted(input.type, eps[n])
                                    /\ eps[n].url = EndpointsOf(input)[n].url
                                    /\ EndpointOf(input.type, eps[n]) = EndpointOf(input.type, EndpointsOf(input)[n])
<1>1. \A n \in DOMAIN EndpointsOf(input) : EndpointAccepted(input.type, EndpointsOf(input)[n])
  BY DEF GivenAccepted
<1>2. CASE eps = EndpointsOf(input)
  BY <1>1, <1>2
<1>3. CASE eps = [n \in DOMAIN EndpointsOf(input) |-> EndpointOf(input.type, EndpointsOf(input)[n])]
  <2>1. DOMAIN eps = DOMAIN EndpointsOf(input)
    BY <1>3
  <2>2. ASSUME NEW n \in DOMAIN eps
        PROVE  /\ EndpointAccepted(input.type, eps[n])
               /\ eps[n].url = EndpointsOf(input)[n].url
               /\ EndpointOf(input.type, eps[n]) = EndpointOf(input.type, EndpointsOf(input)[n])
    <3>1. eps[n] = EndpointOf(input.type, EndpointsOf(input)[n])
      BY <1>3, <2>1
    <3>2. EndpointAccepted(input.type, EndpointsOf(input)[n])
      BY <1>1, <2>1
    <3> QED
      BY <3>1, <3>2, EndpointsStable
  <2> QED
    BY <2>1, <2>2
<1> QED
  BY <1>2, <1>3

\* The credential, of which a row keeps what its mode uses.
LEMMA AuthAgain ==
    ASSUME NEW input, GivenAccepted(input), NEW auth,
           \/ auth = AuthOf(input)
           \/ auth = Copied(AuthOf(input), AuthKeys(AuthOf(input).mode))
    PROVE  /\ Given(auth, "mode") /\ auth.mode = AuthOf(input).mode
           /\ AuthKeys(auth.mode) \subseteq DOMAIN auth /\ DOMAIN auth \subseteq {"mode", "env", "header", "param"}
           /\ Copied(auth, AuthKeys(auth.mode)) = Copied(AuthOf(input), AuthKeys(AuthOf(input).mode))
<1> DEFINE a == AuthOf(input)
           keys == AuthKeys(a.mode)
<1>1. /\ Given(a, "mode") /\ keys \subseteq DOMAIN a /\ DOMAIN a \subseteq {"mode", "env", "header", "param"}
  BY DEF GivenAccepted
<1>2. "mode" \in keys
  BY DEF AuthKeys
<1>3. CASE auth = a
  BY <1>1, <1>3
<1>4. CASE auth = Copied(a, keys)
  <2> HIDE DEF a, keys
  <2>1. DOMAIN Copied(a, keys) = DOMAIN a \cap keys /\ \A k \in DOMAIN a \cap keys : Copied(a, keys)[k] = a[k]
    BY CopiedFields
  <2>2. DOMAIN auth = keys /\ \A k \in keys : auth[k] = a[k]
    BY <1>1, <1>4, <2>1
  <2>3. auth.mode = a.mode
    BY <1>2, <2>2
  <2>4. DOMAIN auth \cap keys = DOMAIN a \cap keys
    BY <1>1, <2>2
  <2>5. Copied(auth, keys) = Copied(a, keys)
    BY <2>2, <2>4 DEF Copied, Restrict
  <2>6. AuthKeys(auth.mode) = keys
    BY <2>3 DEF keys
  <2> QED
    BY <1>1, <1>2, <2>2, <2>3, <2>5, <2>6 DEF Given, a, keys
<1> QED
  BY <1>3, <1>4

LEMMA CrawlAgain ==
    ASSUME NEW c, NEW d, d = c \/ d = Over(c, CrawlDefaults), DOMAIN c \subseteq DOMAIN CrawlDefaults
    PROVE  Over(d, CrawlDefaults) = Over(c, CrawlDefaults) /\ DOMAIN d \subseteq DOMAIN CrawlDefaults
BY DEF Over

\* A row, or the definition it was made from laid over it.
Between(m, input, r) ==
    /\ DOMAIN m = DOMAIN r
    /\ \A k \in DOMAIN m : m[k] = r[k] \/ (k \in DOMAIN input /\ m[k] = input[k])

LEMMA FieldsBetween ==
    ASSUME NEW input, NEW limit, GivenAccepted(input), NEW m, Between(m, input, RecordOf(input, limit))
    PROVE  /\ DOMAIN m = (DOMAIN input \cap Optional) \cup SettingFields \cup CrawlField(input)
           /\ \A k \in DOMAIN input \cap Optional : m[k] = input[k]
           /\ m.type = input.type
           /\ \/ EndpointsOf(m) = EndpointsOf(input)
              \/ EndpointsOf(m) = Settings(input, limit).endpoints
           /\ AuthOf(m) = AuthOf(input) \/ AuthOf(m) = Settings(input, limit).auth
           /\ \A k \in SettingFields \ {"endpoints", "auth"} : m[k] = Settings(input, limit)[k]
           /\ input.type = "crawl" =>
                \/ m.crawl = Or(input, "crawl", <<>>)
                \/ m.crawl = Over(Or(input, "crawl", <<>>), CrawlDefaults)
<1> DEFINE r == RecordOf(input, limit)
           S == Settings(input, limit)
<1>1. /\ DOMAIN r = (DOMAIN input \cap Optional) \cup SettingFields \cup CrawlField(input)
      /\ \A k \in DOMAIN input \cap Optional : r[k] = input[k]
      /\ \A k \in SettingFields : r[k] = S[k]
      /\ input.type = "crawl" => r.crawl = Over(Or(input, "crawl", <<>>), CrawlDefaults)
  <2>1. RecordFrom(r, input, limit)
    BY RecordFields
  <2> QED
    BY <2>1 DEF RecordFrom
<1>2. /\ DOMAIN m = DOMAIN r
      /\ \A k \in DOMAIN m : m[k] = r[k] \/ (k \in DOMAIN input /\ m[k] = input[k])
  BY DEF Between
<1> HIDE DEF r
<1>3. Given(input, "type")
  BY DEF GivenAccepted
<1>4. S.type = input.type
  BY DEF Settings
<1>5. \A k \in SettingFields : m[k] = S[k] \/ (k \in DOMAIN input /\ m[k] = input[k])
  BY <1>1, <1>2
<1>6. EndpointsOf(m) = m.endpoints /\ AuthOf(m) = m.auth
  BY <1>1, <1>2 DEF EndpointsOf, AuthOf, Or, Given, SettingFields
<1>7. "endpoints" \in DOMAIN input => EndpointsOf(input) = input.endpoints
  BY DEF EndpointsOf, Or, Given
<1>8. "auth" \in DOMAIN input => AuthOf(input) = input.auth
  BY DEF AuthOf, Or, Given
<1>9. \A k \in SettingFields \ {"endpoints", "auth"} : k \in DOMAIN input => S[k] = input[k]
  <2>1. \A k, d : k \in DOMAIN input => Or(input, k, d) = input[k]
    BY DEF Or, Given
  <2>2. /\ "max_items" \in DOMAIN input => S.max_items = input.max_items
        /\ "enabled" \in DOMAIN input => S.enabled = input.enabled
        /\ "review_required" \in DOMAIN input => S.review_required = input.review_required
        /\ "sensitive" \in DOMAIN input => S.sensitive = input.sensitive
        /\ "default_indexability" \in DOMAIN input => S.default_indexability = input.default_indexability
    BY <2>1 DEF Settings
  <2> HIDE DEF S
  <2> QED
    BY <1>4, <2>2 DEF SettingFields
<1> HIDE DEF S
<1>10. \A k \in SettingFields \ {"endpoints", "auth"} : m[k] = S[k]
  BY <1>5, <1>9
<1>11. m.type = input.type
  BY <1>4, <1>10 DEF SettingFields
<1>12. \A k \in DOMAIN input \cap Optional : m[k] = input[k]
  BY <1>1, <1>2
<1>13. EndpointsOf(m) = EndpointsOf(input) \/ EndpointsOf(m) = S.endpoints
  BY <1>5, <1>6, <1>7 DEF SettingFields
<1>14. AuthOf(m) = AuthOf(input) \/ AuthOf(m) = S.auth
  BY <1>5, <1>6, <1>8 DEF SettingFields
<1>15. ASSUME input.type = "crawl"
       PROVE  m.crawl = Or(input, "crawl", <<>>) \/ m.crawl = Over(Or(input, "crawl", <<>>), CrawlDefaults)
  <2>1. "crawl" \in DOMAIN m
    BY <1>1, <1>2, <1>15 DEF CrawlField
  <2>2. m.crawl = r.crawl \/ ("crawl" \in DOMAIN input /\ m.crawl = input.crawl)
    BY <1>2, <2>1
  <2> QED
    BY <1>1, <1>15, <2>2 DEF Or, Given
<1> QED
  BY <1>1, <1>2, <1>10, <1>11, <1>12, <1>13, <1>14, <1>15 DEF S

\* It is accepted, and makes the same row.
LEMMA RecordAgain ==
    ASSUME NEW input, NEW limit, GivenAccepted(input), NEW m, Between(m, input, RecordOf(input, limit)), NEW l
    PROVE  GivenAccepted(m) /\ RecordOf(m, l) = RecordOf(input, limit)
<1> DEFINE S == Settings(input, limit)
           type == input.type
<1>1. /\ DOMAIN m = (DOMAIN input \cap Optional) \cup SettingFields \cup CrawlField(input)
      /\ \A k \in DOMAIN input \cap Optional : m[k] = input[k]
      /\ m.type = type
      /\ EndpointsOf(m) = EndpointsOf(input) \/ EndpointsOf(m) = S.endpoints
      /\ AuthOf(m) = AuthOf(input) \/ AuthOf(m) = S.auth
      /\ \A k \in SettingFields \ {"endpoints", "auth"} : m[k] = S[k]
      /\ type = "crawl" => m.crawl = Or(input, "crawl", <<>>) \/ m.crawl = Over(Or(input, "crawl", <<>>), CrawlDefaults)
  BY FieldsBetween
<1>2. /\ DOMAIN EndpointsOf(m) = DOMAIN EndpointsOf(input)
      /\ \A n \in DOMAIN EndpointsOf(m) :
           /\ EndpointAccepted(type, EndpointsOf(m)[n])
           /\ EndpointsOf(m)[n].url = EndpointsOf(input)[n].url
           /\ EndpointOf(type, EndpointsOf(m)[n]) = EndpointOf(type, EndpointsOf(input)[n])
  <2>1. S.endpoints = [n \in DOMAIN EndpointsOf(input) |-> EndpointOf(type, EndpointsOf(input)[n])]
    BY DEF Settings
  <2> HIDE DEF S
  <2> QED
    BY <1>1, <2>1, EndpointsAgain
<1>3. /\ Given(AuthOf(m), "mode") /\ AuthOf(m).mode = AuthOf(input).mode
      /\ AuthKeys(AuthOf(m).mode) \subseteq DOMAIN AuthOf(m) /\ DOMAIN AuthOf(m) \subseteq {"mode", "env", "header", "param"}
      /\ Copied(AuthOf(m), AuthKeys(AuthOf(m).mode)) = Copied(AuthOf(input), AuthKeys(AuthOf(input).mode))
  <2>1. S.auth = Copied(AuthOf(input), AuthKeys(AuthOf(input).mode))
    BY DEF Settings
  <2> HIDE DEF S
  <2> QED
    BY <1>1, <2>1, AuthAgain
<1>4. Given(input, "crawl") => type = "crawl" /\ DOMAIN input.crawl \subseteq DOMAIN CrawlDefaults
  BY DEF GivenAccepted
<1>5. DOMAIN Or(input, "crawl", <<>>) \subseteq DOMAIN CrawlDefaults
  BY <1>4 DEF Or, Given
<1>6. ASSUME type = "crawl"
      PROVE  /\ DOMAIN m.crawl \subseteq DOMAIN CrawlDefaults
             /\ Over(m.crawl, CrawlDefaults) = Over(Or(input, "crawl", <<>>), CrawlDefaults)
  BY <1>1, <1>5, <1>6, CrawlAgain
<1>7. Given(m, "crawl") <=> type = "crawl"
  BY <1>1 DEF Given, CrawlField, SettingFields, Optional
<1>8. GivenAccepted(m)
  <2>1. DOMAIN m \subseteq Fields /\ Given(m, "type") /\ m.type \in Types
    <3>1. type \in Types
      BY DEF GivenAccepted
    <3> QED
      BY <1>1, <3>1 DEF Given, CrawlField, SettingFields, Optional, Fields
  <2>2. /\ DOMAIN EndpointsOf(m) \in {1..n : n \in 0..20}
        /\ m.type = "manual" <=> DOMAIN EndpointsOf(m) = {}
        /\ m.type = "bulk" => DOMAIN EndpointsOf(m) = {1}
    BY <1>1, <1>2 DEF GivenAccepted
  <2>3. \A n \in DOMAIN EndpointsOf(m) : EndpointAccepted(m.type, EndpointsOf(m)[n])
    BY <1>1, <1>2
  <2>4. \A k, n \in DOMAIN EndpointsOf(m) : k # n => EndpointsOf(m)[k].url # EndpointsOf(m)[n].url
    <3>1. \A k, n \in DOMAIN EndpointsOf(input) : k # n => EndpointsOf(input)[k].url # EndpointsOf(input)[n].url
      BY DEF GivenAccepted
    <3> QED
      BY <1>2, <3>1
  <2>5. AuthOf(m).mode \in AuthModes /\ (m.type = "manual" => AuthOf(m).mode = "none")
    BY <1>1, <1>3 DEF GivenAccepted
  <2>6. Given(m, "crawl") => m.type = "crawl" /\ DOMAIN m.crawl \subseteq DOMAIN CrawlDefaults
    BY <1>1, <1>6, <1>7
  <2> QED
    BY <1>3, <2>1, <2>2, <2>3, <2>4, <2>5, <2>6 DEF GivenAccepted
<1>9. Copied(m, Optional) = Copied(input, Optional)
  <2>1. DOMAIN m \cap Optional = DOMAIN input \cap Optional
    BY <1>1 DEF CrawlField, SettingFields, Optional
  <2> QED
    BY <1>1, <2>1 DEF Copied, Restrict
<1>10. Settings(m, l) = S
  <2>1. [n \in DOMAIN EndpointsOf(m) |-> EndpointOf(m.type, EndpointsOf(m)[n])] =
        [n \in DOMAIN EndpointsOf(input) |-> EndpointOf(type, EndpointsOf(input)[n])]
    BY <1>1, <1>2
  <2>2. \A k \in SettingFields : \A d : Or(m, k, d) = m[k]
    BY <1>1 DEF Or, Given
  <2> DEFINE max == IF DefaultItems < l THEN DefaultItems ELSE l
  <2>3. /\ Or(m, "max_items", max) = S.max_items
        /\ Or(m, "enabled", FALSE) = S.enabled
        /\ Or(m, "review_required", TRUE) = S.review_required
        /\ Or(m, "sensitive", FALSE) = S.sensitive
        /\ Or(m, "default_indexability", "noindex") = S.default_indexability
    <3> HIDE DEF max, S
    <3> QED
      BY <1>1, <2>2 DEF SettingFields
  <2>4. S = [type |-> type,
             endpoints |-> [n \in DOMAIN EndpointsOf(input) |-> EndpointOf(type, EndpointsOf(input)[n])],
             auth |-> Copied(AuthOf(input), AuthKeys(AuthOf(input).mode)),
             max_items |-> S.max_items, enabled |-> S.enabled, review_required |-> S.review_required,
             sensitive |-> S.sensitive, default_indexability |-> S.default_indexability]
    BY DEF Settings
  <2>5. Settings(m, l) =
            [type |-> m.type,
             endpoints |-> [n \in DOMAIN EndpointsOf(m) |-> EndpointOf(m.type, EndpointsOf(m)[n])],
             auth |-> Copied(AuthOf(m), AuthKeys(AuthOf(m).mode)),
             max_items |-> Or(m, "max_items", max), enabled |-> Or(m, "enabled", FALSE),
             review_required |-> Or(m, "review_required", TRUE),
             sensitive |-> Or(m, "sensitive", FALSE),
             default_indexability |-> Or(m, "default_indexability", "noindex")]
    BY DEF Settings
  <2> HIDE DEF S, max
  <2> QED
    BY <1>1, <1>3, <2>1, <2>3, <2>4, <2>5
<1>11. CrawlOf(m) = CrawlOf(input)
  <2>1. CASE type = "crawl"
    <3>1. Or(m, "crawl", <<>>) = m.crawl
      BY <1>7, <2>1 DEF Or
    <3> QED
      BY <1>1, <1>6, <2>1, <3>1 DEF CrawlOf
  <2>2. CASE type # "crawl"
    BY <1>1, <2>2 DEF CrawlOf
  <2> QED
    BY <2>1, <2>2
<1> QED
  BY <1>8, <1>9, <1>10, <1>11 DEF RecordOf

\* Within any limit that the row is within.
LEMMA AcceptedAgain ==
    ASSUME NEW input, NEW limit \in Nat, Accepted(input, limit), NEW m, Between(m, input, RecordOf(input, limit)),
           NEW l \in Nat, RecordOf(input, limit).max_items <= l
    PROVE  Accepted(m, l) /\ RecordOf(m, l) = RecordOf(input, limit)
<1>1. GivenAccepted(m) /\ RecordOf(m, l) = RecordOf(input, limit)
  BY RecordAgain DEF Accepted
<1> DEFINE r == RecordOf(input, limit)
<1>2. RecordAccepted(r, limit)
  BY DEF Accepted
<1> HIDE DEF r
<1>3. r.max_items \in 1..l
  BY <1>2 DEF RecordAccepted, r
<1>4. RecordAccepted(r, l)
  BY <1>2, <1>3 DEF RecordAccepted
<1> QED
  BY <1>1, <1>4 DEF Accepted, r

LEMMA RowBetween ==
    ASSUME NEW input, NEW limit
    PROVE  Between(RecordOf(input, limit), input, RecordOf(input, limit))
BY DEF Between

LEMMA DefinitionBetween ==
    ASSUME NEW input, NEW limit, GivenAccepted(input)
    PROVE  Between(Over(input, RecordOf(input, limit)), input, RecordOf(input, limit))
<1> DEFINE r == RecordOf(input, limit)
<1>1. RecordFrom(r, input, limit)
  BY RecordFields
<1>2. DOMAIN r = (DOMAIN input \cap Optional) \cup SettingFields \cup CrawlField(input)
  BY <1>1 DEF RecordFrom
<1>3. DOMAIN input \subseteq Fields /\ (Given(input, "crawl") => input.type = "crawl")
  BY DEF GivenAccepted
<1> HIDE DEF r
<1>4. DOMAIN input \subseteq DOMAIN r
  BY <1>2, <1>3 DEF Fields, Optional, SettingFields, CrawlField, Given
<1>5. /\ DOMAIN Over(input, r) = DOMAIN input \cup DOMAIN r
      /\ \A k \in DOMAIN input : Over(input, r)[k] = input[k]
      /\ \A k \in DOMAIN r : k \notin DOMAIN input => Over(input, r)[k] = r[k]
  BY Laid
<1> DEFINE m == Over(input, r)
<1> HIDE DEF m
<1>6. DOMAIN m = DOMAIN r
  BY <1>4, <1>5 DEF m
<1>7. \A k \in DOMAIN m : m[k] = r[k] \/ (k \in DOMAIN input /\ m[k] = input[k])
  BY <1>5, <1>6 DEF m
<1> QED
  BY <1>6, <1>7 DEF Between, r, m

------------------------------------------------------------------------------
(* The row, and the rows that PATCHes will write *)

\* A row that is valid within its own limit, and makes itself again.
Sound(r) == /\ r # NoRow
            /\ r.max_items \in Nat
            /\ Accepted(r, r.max_items)
            /\ RecordOf(r, r.max_items) = r

RowSound == row # NoRow => Sound(row)
PatchesSound == /\ patch = [p \in Operators |-> patch[p]]
                /\ \A p \in Operators : patch[p].pc = "valid" => Sound(patch[p].row)

RegistryInv == cap \in Caps /\ RowSound /\ PatchesSound

LEMMA RecordIsSound ==
    ASSUME NEW input, NEW limit \in Nat, Accepted(input, limit), NEW r, r = RecordOf(input, limit)
    PROVE  Sound(r)
<1>1. RecordFrom(RecordOf(input, limit), input, limit)
  BY RecordFields
<1>2. "type" \in DOMAIN RecordOf(input, limit)
  BY <1>1 DEF RecordFrom, SettingFields
<1>3. r # NoRow
  BY <1>2 DEF NoRow
<1>4. RecordOf(input, limit).max_items \in 1..limit
  BY DEF Accepted, RecordAccepted
<1>5. RecordOf(input, limit).max_items \in Nat /\ RecordOf(input, limit).max_items <= RecordOf(input, limit).max_items
  BY <1>4
<1>6. Accepted(RecordOf(input, limit), RecordOf(input, limit).max_items)
      /\ RecordOf(RecordOf(input, limit), RecordOf(input, limit).max_items) = RecordOf(input, limit)
  BY <1>5, RowBetween, AcceptedAgain
<1> QED
  BY <1>3, <1>5, <1>6 DEF Sound

LEMMA OverAlike ==
    ASSUME NEW f, NEW g, NEW h, NEW i, DOMAIN Over(f, g) = DOMAIN Over(h, i),
           \A k \in DOMAIN Over(f, g) : Over(f, g)[k] = Over(h, i)[k]
    PROVE  Over(f, g) = Over(h, i)
BY DEF Over

\* A row that is disabled, perhaps with another note, is still one that validation makes.
LEMMA DisabledIsSound ==
    ASSUME NEW r, NEW l \in Nat, Accepted(r, l), RecordOf(r, l) = r,
           NEW changes, DOMAIN changes = {"enabled"} \/ DOMAIN changes = {"enabled", "terms_note"}, changes.enabled = FALSE
    PROVE  /\ Accepted(Over(changes, r), l)
           /\ RecordOf(Over(changes, r), l) = Over(changes, r)
           /\ Over(changes, r).max_items = r.max_items
           /\ Over(changes, r).endpoints = r.endpoints
<1> DEFINE m == Over(changes, r)
           rec == RecordOf(m, l)
<1>1. "enabled" \in DOMAIN changes /\ DOMAIN changes \subseteq {"enabled", "terms_note"}
  OBVIOUS
<1>2. m = Over(changes, r)
  OBVIOUS
<1>3. /\ DOMAIN Over(changes, r) = DOMAIN changes \cup DOMAIN r
      /\ Over(changes, r)["enabled"] = FALSE
      /\ \A k \in DOMAIN r : k \notin {"enabled", "terms_note"} => Over(changes, r)[k] = r[k]
  <2>1. /\ DOMAIN Over(changes, r) = DOMAIN changes \cup DOMAIN r
        /\ \A k \in DOMAIN changes : Over(changes, r)[k] = changes[k]
        /\ \A k \in DOMAIN r : k \notin DOMAIN changes => Over(changes, r)[k] = r[k]
    BY Laid
  <2> QED
    BY <1>1, <2>1
<1> HIDE DEF m
<1>4. /\ DOMAIN m = DOMAIN changes \cup DOMAIN r
      /\ m.enabled = FALSE
      /\ \A k \in DOMAIN r : k \notin {"enabled", "terms_note"} => m[k] = r[k]
  BY <1>2, <1>3
<1>5. /\ DOMAIN r = (DOMAIN r \cap Optional) \cup SettingFields \cup CrawlField(r)
      /\ \A k \in SettingFields : r[k] = Settings(r, l)[k]
      /\ r.type = "crawl" => r.crawl = Over(Or(r, "crawl", <<>>), CrawlDefaults)
  <2>1. RecordFrom(r, r, l)
    BY RecordFields
  <2> QED
    BY <2>1 DEF RecordFrom
<1>6. \A k \in SettingFields \ {"enabled"} : m[k] = r[k]
  BY <1>1, <1>4, <1>5 DEF SettingFields
<1>7. m.type = r.type /\ m.max_items = r.max_items /\ m.endpoints = r.endpoints /\ CrawlField(m) = CrawlField(r)
  BY <1>6 DEF SettingFields, CrawlField
<1>8. \A k, d : k \notin {"enabled", "terms_note"} => Or(m, k, d) = Or(r, k, d)
  BY <1>1, <1>4 DEF Or, Given
<1>9. EndpointsOf(m) = EndpointsOf(r) /\ AuthOf(m) = AuthOf(r) /\ Or(m, "crawl", <<>>) = Or(r, "crawl", <<>>)
  BY <1>8 DEF EndpointsOf, AuthOf
<1>10. GivenAccepted(r) /\ RecordAccepted(r, l)
  BY DEF Accepted
<1>11. GivenAccepted(m)
  <2>1. DOMAIN m \subseteq Fields /\ Given(m, "type") /\ m.type \in Types
    BY <1>1, <1>4, <1>7, <1>10 DEF GivenAccepted, Given, Fields
  <2>2. Given(m, "crawl") => m.type = "crawl" /\ DOMAIN m.crawl \subseteq DOMAIN CrawlDefaults
    <3>1. Given(m, "crawl") <=> Given(r, "crawl")
      BY <1>1, <1>4 DEF Given
    <3>2. Given(r, "crawl") => m.crawl = r.crawl
      BY <1>1, <1>4 DEF Given
    <3> QED
      BY <1>7, <1>10, <3>1, <3>2 DEF GivenAccepted
  <2>3. LET endpoints == EndpointsOf(m)
            auth == AuthOf(m)
        IN
        /\ DOMAIN endpoints \in {1..n : n \in 0..20}
        /\ m.type = "manual" <=> DOMAIN endpoints = {}
        /\ m.type = "bulk" => DOMAIN endpoints = {1}
        /\ \A n \in DOMAIN endpoints : EndpointAccepted(m.type, endpoints[n])
        /\ \A k, n \in DOMAIN endpoints : k # n => endpoints[k].url # endpoints[n].url
        /\ Given(auth, "mode") /\ auth.mode \in AuthModes
        /\ AuthKeys(auth.mode) \subseteq DOMAIN auth /\ DOMAIN auth \subseteq {"mode", "env", "header", "param"}
        /\ m.type = "manual" => auth.mode = "none"
    BY <1>7, <1>9, <1>10 DEF GivenAccepted
  <2> QED
    BY <2>1, <2>2, <2>3 DEF GivenAccepted
<1>12. \A k \in SettingFields \ {"enabled"} : Settings(m, l)[k] = Settings(r, l)[k]
  <2>1. /\ Settings(m, l).type = Settings(r, l).type
        /\ Settings(m, l).endpoints = Settings(r, l).endpoints
        /\ Settings(m, l).auth = Settings(r, l).auth
        /\ Settings(m, l).max_items = Settings(r, l).max_items
        /\ Settings(m, l).review_required = Settings(r, l).review_required
        /\ Settings(m, l).sensitive = Settings(r, l).sensitive
        /\ Settings(m, l).default_indexability = Settings(r, l).default_indexability
    BY <1>7, <1>8, <1>9 DEF Settings
  <2> QED
    BY <2>1 DEF SettingFields
<1>13. Settings(m, l).enabled = m.enabled
  BY <1>1, <1>4 DEF Settings, Or, Given
<1>14. rec = m
  <2>1. /\ DOMAIN rec = (DOMAIN m \cap Optional) \cup SettingFields \cup CrawlField(m)
        /\ \A k \in DOMAIN m \cap Optional : rec[k] = m[k]
        /\ \A k \in SettingFields : rec[k] = Settings(m, l)[k]
        /\ m.type = "crawl" => rec.crawl = Over(Or(m, "crawl", <<>>), CrawlDefaults)
    <3>1. RecordFrom(rec, m, l)
      BY RecordFields
    <3> QED
      BY <3>1 DEF RecordFrom
  <2> HIDE DEF rec
  <2>2. DOMAIN rec = DOMAIN m
    BY <1>1, <1>4, <1>5, <1>7, <2>1 DEF Optional, SettingFields, CrawlField
  <2>3. \A k \in SettingFields : rec[k] = m[k]
    BY <1>5, <1>6, <1>12, <1>13, <2>1
  <2>4. m.type = "crawl" => rec.crawl = m.crawl
    <3>1. r.type = "crawl" => "crawl" \in DOMAIN r
      BY <1>5 DEF CrawlField
    <3> QED
      BY <1>1, <1>4, <1>5, <1>7, <1>9, <2>1, <3>1
  <2>5. \A k \in DOMAIN m : rec[k] = m[k]
    BY <1>7, <2>1, <2>2, <2>3, <2>4 DEF CrawlField
  <2>6. rec = Over(Copied(m, Optional), Over(Settings(m, l), CrawlOf(m)))
    BY DEF rec, RecordOf
  <2> QED
    BY <1>2, <2>2, <2>5, <2>6, OverAlike
<1>15. RecordAccepted(m, l)
  <2>1. Given(m, "retire_after_sec") <=> Given(r, "retire_after_sec")
    BY <1>1, <1>4 DEF Given
  <2>2. /\ m.sensitive = r.sensitive
        /\ m.default_indexability = r.default_indexability
        /\ m.review_required = r.review_required
    BY <1>6 DEF SettingFields
  <2> QED
    BY <1>1, <1>4, <1>7, <1>10, <2>1, <2>2 DEF RecordAccepted
<1> QED
  BY <1>7, <1>11, <1>14, <1>15 DEF Accepted, m

LEMMA LimitIsNatural == RegistryInv => cap \in Nat
BY ConstantsAssumption DEF RegistryInv

LEMMA CreateStep ==
    ASSUME RegistryInv, NEW input, Create(input)
    PROVE  RegistryInv'
<1>1. Accepted(input, cap) /\ row' = RecordOf(input, cap)
  BY DEF Create
<1>2. Sound(row')
  BY <1>1, LimitIsNatural, RecordIsSound
<1> QED
  BY <1>2 DEF RegistryInv, RowSound, PatchesSound, Create

\* What one PATCH has in hand is replaced.
LEMMA PatchSet ==
    ASSUME PatchesSound, NEW p \in Operators, NEW q, patch' = [patch EXCEPT ![p] = q],
           q.pc = "valid" => Sound(q.row)
    PROVE  PatchesSound'
<1>1. \A o \in Operators : patch'[o] = IF o = p THEN q ELSE patch[o]
  BY DEF PatchesSound
<1>2. patch' = [o \in Operators |-> patch'[o]]
  BY DEF PatchesSound
<1> QED
  BY <1>1, <1>2 DEF PatchesSound

\* Validation leaves a refusal, or a row that is sound.
LEMMA ValidatedStep ==
    ASSUME RegistryInv, NEW p \in Operators, NEW changes, NEW stored, Validated(p, changes, stored)
    PROVE  PatchesSound'
<1> DEFINE merged == Merged(changes, stored)
           valid == [pc |-> "valid", changes |-> <<>>, row |-> RecordOf(merged, cap)]
<1>1. patch' = [patch EXCEPT ![p] = IF Accepted(merged, cap) THEN valid ELSE NotPatching]
  BY DEF Validated
<1>2. valid.row = RecordOf(merged, cap) /\ NotPatching.pc # "valid"
  BY DEF NotPatching
<1> HIDE DEF merged, valid
<1>3. CASE Accepted(merged, cap)
  <2>1. Sound(valid.row)
    BY <1>2, <1>3, LimitIsNatural, RecordIsSound
  <2>2. patch' = [patch EXCEPT ![p] = valid]
    BY <1>1, <1>3
  <2> QED
    BY <2>1, <2>2, PatchSet DEF RegistryInv
<1>4. CASE ~Accepted(merged, cap)
  <2>1. patch' = [patch EXCEPT ![p] = NotPatching]
    BY <1>1, <1>4
  <2> QED
    BY <1>2, <2>1, PatchSet DEF RegistryInv
<1> QED
  BY <1>3, <1>4

LEMMA PatchBeginStep ==
    ASSUME RegistryInv, NEW p \in Operators, NEW changes, PatchBegin(p, changes)
    PROVE  RegistryInv'
<1>1. PatchesSound'
  <2> DEFINE other == [pc |-> "count", changes |-> changes, row |-> row]
  <2>1. CASE Or(changes, "type", row.type) # row.type
    <3>1. patch' = [patch EXCEPT ![p] = other] /\ other.pc # "valid"
      BY <2>1 DEF PatchBegin
    <3> HIDE DEF other
    <3> QED
      BY <3>1, PatchSet DEF RegistryInv
  <2>2. CASE Or(changes, "type", row.type) = row.type
    BY <2>2, ValidatedStep DEF PatchBegin
  <2> QED
    BY <2>1, <2>2
<1> QED
  BY <1>1 DEF RegistryInv, RowSound, PatchBegin

LEMMA PatchCountStep ==
    ASSUME RegistryInv, NEW p \in Operators, PatchCount(p)
    PROVE  RegistryInv'
<1>1. PatchesSound'
  <2>1. CASE hasItems
    <3>1. patch' = [patch EXCEPT ![p] = NotPatching] /\ NotPatching.pc # "valid"
      BY <2>1 DEF PatchCount, NotPatching
    <3> QED
      BY <3>1, PatchSet DEF RegistryInv
  <2>2. CASE ~hasItems
    BY <2>2, ValidatedStep DEF PatchCount
  <2> QED
    BY <2>1, <2>2
<1> QED
  BY <1>1 DEF RegistryInv, RowSound, PatchCount

\* The row that was found valid replaces one that may have changed since, or gone.
LEMMA PatchStoreStep ==
    ASSUME RegistryInv, NEW p \in Operators, PatchStore(p)
    PROVE  RegistryInv'
<1>1. Sound(patch[p].row)
  BY DEF PatchStore, RegistryInv, PatchesSound
<1>2. RowSound'
  BY <1>1 DEF PatchStore, RegistryInv, RowSound
<1>3. PatchesSound'
  <2>1. patch' = [patch EXCEPT ![p] = NotPatching] /\ NotPatching.pc # "valid"
    BY DEF PatchStore, NotPatching
  <2> QED
    BY <2>1, PatchSet DEF RegistryInv
<1> QED
  BY <1>2, <1>3 DEF RegistryInv, PatchStore

\* A restart ends some of the PATCHes.
LEMMA RestartStep ==
    ASSUME RegistryInv, Restart
    PROVE  RegistryInv'
<1>1. PICK died \in SUBSET Operators : patch' = [p \in Operators |-> IF p \in died THEN NotPatching ELSE patch[p]]
  BY DEF Restart
<1>2. PatchesSound'
  BY <1>1 DEF RegistryInv, PatchesSound, NotPatching
<1> QED
  BY <1>2 DEF Restart, RegistryInv, RowSound

LEMMA CloseStep ==
    ASSUME RegistryInv, CloseAccount
    PROVE  RegistryInv'
<1> DEFINE l == row.max_items
           changes == [enabled |-> FALSE, terms_note |-> "closed"]
<1>1. /\ row # NoRow /\ row' = Over(changes, row)
      /\ l \in Nat /\ Accepted(row, l) /\ RecordOf(row, l) = row
  BY DEF CloseAccount, Closed, RegistryInv, RowSound, Sound
<1>2. DOMAIN changes = {"enabled", "terms_note"} /\ changes.enabled = FALSE
  OBVIOUS
<1> HIDE DEF l, changes
<1>3. Accepted(row', l) /\ RecordOf(row', l) = row' /\ row'.max_items = l
  BY <1>1, <1>2, DisabledIsSound DEF l
<1>4. row' # NoRow
  <2>1. "enabled" \in DOMAIN row'
    BY <1>1, <1>2 DEF Over
  <2> QED
    BY <2>1 DEF NoRow
<1>5. RowSound'
  BY <1>1, <1>3, <1>4 DEF RowSound, Sound
<1> QED
  BY <1>5 DEF RegistryInv, PatchesSound, CloseAccount

LEMMA RegistryInvariant == RegistrySpec => []RegistryInv
<1>1. ASSUME RegistryInit PROVE RegistryInv
  BY <1>1 DEF RegistryInit, RegistryInv, RowSound, PatchesSound, NotPatching
<1>2. ASSUME RegistryInv, [RegistryNext]_registryVars PROVE RegistryInv'
  <2>1. ASSUME NEW input, Create(input) PROVE RegistryInv'
    BY <1>2, <2>1, CreateStep
  <2>2. CASE Seed
    BY <1>2, <2>2, CreateStep DEF Seed
  <2>3. ASSUME NEW p \in Operators, NEW changes, PatchBegin(p, changes) \/ Register(p, changes) PROVE RegistryInv'
    BY <1>2, <2>3, CreateStep, PatchBeginStep DEF Register
  <2>4. ASSUME NEW p \in Operators, PatchCount(p) \/ PatchStore(p) PROVE RegistryInv'
    BY <1>2, <2>4, PatchCountStep, PatchStoreStep
  <2>5. CASE RemoveCount \/ Remove
    BY <1>2, <2>5 DEF RemoveCount, Remove, RegistryInv, RowSound, PatchesSound
  <2>6. CASE CloseAccount
    BY <1>2, <2>6, CloseStep
  <2>7. CASE FetchBegin \/ FetchEnd \/ Prune
    BY <1>2, <2>7 DEF FetchBegin, FetchEnd, Prune, RegistryInv, RowSound, PatchesSound
  <2>8. CASE Restart
    BY <1>2, <2>8, RestartStep
  <2>9. CASE UNCHANGED registryVars
    BY <1>2, <2>9 DEF registryVars, RegistryInv, RowSound, PatchesSound
  <2> QED
    BY <1>2, <2>1, <2>2, <2>3, <2>4, <2>5, <2>6, <2>7, <2>8, <2>9 DEF RegistryNext
<1> QED
  BY <1>1, <1>2, PTL DEF RegistrySpec

LEMMA SoundIsAccepted == RegistryInv => RowsAccepted
<1> SUFFICES ASSUME RegistryInv PROVE RowsAccepted
  OBVIOUS
<1>1. ASSUME NEW type, NEW e PROVE EndpointStable(type, e)
  BY EndpointsStable DEF EndpointStable
<1>2. ASSUME row # NoRow, row.max_items <= cap PROVE Accepted(row, cap) /\ RecordOf(row, cap) = row
  <2> DEFINE l == row.max_items
  <2>1. l \in Nat /\ Accepted(row, l) /\ RecordOf(row, l) = row
    BY <1>2 DEF RegistryInv, RowSound, Sound
  <2>2. Between(row, row, RecordOf(row, l))
    BY <2>1, RowBetween
  <2>3. RecordOf(row, l).max_items <= cap /\ cap \in Nat
    BY <1>2, <2>1, LimitIsNatural
  <2> HIDE DEF l
  <2> QED
    BY <2>1, <2>2, <2>3, AcceptedAgain
<1>3. ASSUME row # NoRow, row.max_items <= cap,
             NEW input \in Definitions, Accepted(input, cap), RecordOf(input, cap) = row
      PROVE  Accepted(Over(input, row), cap) /\ RecordOf(Over(input, row), cap) = row
  <2>1. GivenAccepted(input)
    BY <1>3 DEF Accepted
  <2>2. Between(Over(input, row), input, RecordOf(input, cap))
    BY <1>3, <2>1, DefinitionBetween
  <2>3. RecordOf(input, cap).max_items <= cap /\ cap \in Nat
    BY <1>3, LimitIsNatural
  <2> QED
    BY <1>3, <2>2, <2>3, AcceptedAgain
<1> QED
  BY <1>1, <1>2, <1>3 DEF RowsAccepted, EndpointsAccepted

\* Every stored row that its process may keep is valid as it is and is made again by its own
\* validation and by that of its definition laid over it, so that a PATCH is refused only for
\* what it gives and a script that runs twice changes nothing (registry.js:334; 111-113).
THEOREM RowsAreAccepted == RegistrySpec => []RowsAccepted
BY RegistryInvariant, SoundIsAccepted, PTL

------------------------------------------------------------------------------
(* With one limit *)

OneLimit == \A c, d \in Caps : c = d

\* The limit of every process is the one that a row was validated with, and a PATCH's.
WithinLimit ==
    /\ row # NoRow => row.max_items <= cap
    /\ \A p \in Operators : patch[p].pc = "valid" => patch[p].row.max_items <= cap

LEMMA ValidatedWithin ==
    ASSUME RegistryInv, WithinLimit, NEW p \in Operators, NEW changes, NEW stored, Validated(p, changes, stored),
           UNCHANGED <<row, cap>>
    PROVE  WithinLimit'
<1> DEFINE merged == Merged(changes, stored)
           valid == [pc |-> "valid", changes |-> <<>>, row |-> RecordOf(merged, cap)]
           q == IF Accepted(merged, cap) THEN valid ELSE NotPatching
<1>1. patch' = [patch EXCEPT ![p] = q]
  BY DEF Validated
<1>2. q.pc = "valid" => q.row.max_items <= cap
  BY LimitIsNatural DEF Accepted, RecordAccepted, NotPatching
<1> HIDE DEF q
<1>3. \A o \in Operators : patch'[o] = IF o = p THEN q ELSE patch[o]
  BY <1>1 DEF RegistryInv, PatchesSound
<1> QED
  BY <1>2, <1>3 DEF WithinLimit

LEMMA PatchWithin ==
    ASSUME RegistryInv, WithinLimit, NEW p \in Operators,
           PatchCount(p) \/ PatchStore(p) \/ \E changes : PatchBegin(p, changes)
    PROVE  WithinLimit'
<1>1. ASSUME NEW q, patch' = [patch EXCEPT ![p] = q], q.pc # "valid", UNCHANGED cap,
             row' # NoRow => row'.max_items <= cap
      PROVE  WithinLimit'
  <2>1. \A o \in Operators : patch'[o] = IF o = p THEN q ELSE patch[o]
    BY <1>1 DEF RegistryInv, PatchesSound
  <2> QED
    BY <1>1, <2>1 DEF WithinLimit
<1>2. NotPatching.pc # "valid"
  BY DEF NotPatching
<1>3. ASSUME PatchStore(p) PROVE WithinLimit'
  BY <1>1, <1>2, <1>3 DEF PatchStore, WithinLimit
<1>4. ASSUME PatchCount(p) PROVE WithinLimit'
  <2>1. CASE hasItems
    BY <1>1, <1>2, <1>4, <2>1 DEF PatchCount, WithinLimit
  <2>2. CASE ~hasItems
    BY <1>4, <2>2, ValidatedWithin DEF PatchCount
  <2> QED
    BY <2>1, <2>2
<1>5. ASSUME NEW changes, PatchBegin(p, changes) PROVE WithinLimit'
  <2> DEFINE other == [pc |-> "count", changes |-> changes, row |-> row]
  <2>1. CASE Or(changes, "type", row.type) # row.type
    <3>1. patch' = [patch EXCEPT ![p] = other] /\ other.pc # "valid" /\ UNCHANGED <<row, cap>>
      BY <1>5, <2>1 DEF PatchBegin
    <3> HIDE DEF other
    <3> QED
      BY <1>1, <3>1 DEF WithinLimit
  <2>2. CASE Or(changes, "type", row.type) = row.type
    BY <1>5, <2>2, ValidatedWithin DEF PatchBegin
  <2> QED
    BY <2>1, <2>2
<1> QED
  BY <1>3, <1>4, <1>5

LEMMA LimitKept == OneLimit => (RegistrySpec => []WithinLimit)
<1> SUFFICES ASSUME OneLimit PROVE RegistrySpec => []WithinLimit
  OBVIOUS
<1>1. ASSUME RegistryInit PROVE WithinLimit
  BY <1>1 DEF RegistryInit, WithinLimit, NotPatching
<1>2. ASSUME RegistryInv, WithinLimit, [RegistryNext]_registryVars PROVE WithinLimit'
  <2>1. ASSUME NEW input, Create(input) PROVE WithinLimit'
    BY <1>2, <2>1, LimitIsNatural DEF Create, Accepted, RecordAccepted, WithinLimit
  <2>2. ASSUME NEW p \in Operators, PatchCount(p) \/ PatchStore(p) \/ \E changes : PatchBegin(p, changes)
        PROVE  WithinLimit'
    BY <1>2, <2>2, PatchWithin
  <2>3. CASE CloseAccount
    <3> DEFINE l == row.max_items
               closing == [enabled |-> FALSE, terms_note |-> "closed"]
    <3>1. row' = Over(closing, row) /\ row # NoRow /\ cap' = cap /\ patch' = patch
      BY <2>3 DEF CloseAccount, Closed
    <3>2. l \in Nat /\ Accepted(row, l) /\ RecordOf(row, l) = row
      BY <1>2, <3>1 DEF RegistryInv, RowSound, Sound
    <3>3. DOMAIN closing = {"enabled", "terms_note"} /\ closing.enabled = FALSE
      OBVIOUS
    <3> HIDE DEF closing, l
    <3>4. row'.max_items = l
      BY <3>1, <3>2, <3>3, DisabledIsSound DEF l
    <3> QED
      BY <1>2, <3>1, <3>4 DEF WithinLimit, l
  <2>4. CASE Restart
    <3>1. cap' = cap
      BY <1>2, <2>4 DEF Restart, RegistryInv, OneLimit
    <3>2. PICK died \in SUBSET Operators : patch' = [p \in Operators |-> IF p \in died THEN NotPatching ELSE patch[p]]
      BY <2>4 DEF Restart
    <3> QED
      BY <1>2, <2>4, <3>1, <3>2 DEF Restart, WithinLimit, NotPatching
  <2>5. CASE RemoveCount \/ Remove \/ FetchBegin \/ FetchEnd \/ Prune \/ UNCHANGED registryVars
    BY <1>2, <2>5 DEF RemoveCount, Remove, FetchBegin, FetchEnd, Prune, registryVars, WithinLimit
  <2> QED
    BY <1>2, <2>1, <2>2, <2>3, <2>4, <2>5 DEF RegistryNext, Seed, Register
<1> QED
  BY <1>1, <1>2, RegistryInvariant, PTL DEF RegistrySpec

\* Where the limit is never lowered, every source can be disabled, whatever happened to it
\* before (registry.js:344); AlwaysDisabled fails only by a limit that was.
THEOREM OneLimitDisables == OneLimit => (RegistrySpec => []AlwaysDisabled)
<1> SUFFICES ASSUME OneLimit PROVE RegistrySpec => []AlwaysDisabled
  OBVIOUS
<1>1. ASSUME RegistryInv, RowsAccepted, WithinLimit PROVE AlwaysDisabled
  <2> SUFFICES ASSUME row # NoRow PROVE Accepted(Over([enabled |-> FALSE], row), cap)
    BY DEF AlwaysDisabled
  <2>1. Accepted(row, cap) /\ RecordOf(row, cap) = row /\ cap \in Nat
    BY <1>1, LimitIsNatural DEF RowsAccepted, WithinLimit
  <2> DEFINE changes == [enabled |-> FALSE]
  <2>2. DOMAIN changes = {"enabled"} /\ changes.enabled = FALSE
    OBVIOUS
  <2> HIDE DEF changes
  <2>3. Accepted(Over(changes, row), cap)
    BY <2>1, <2>2, DisabledIsSound
  <2> QED
    BY <2>3 DEF changes
<1> QED
  BY <1>1, RegistryInvariant, RowsAreAccepted, LimitKept, PTL
=============================================================================
