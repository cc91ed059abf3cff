----------------------------- MODULE HttpProofs -----------------------------
(***************************************************************************)
(* The slots and responses of the HTTP API, for any set of connections and *)
(* any positive limits.                                                    *)
(***************************************************************************)
EXTENDS Http, FiniteSetTheorems, TLAPS

\* Responses begun so far, by the place the handler has reached.
ResponsesByPlace ==
    \A c \in Connections :
        /\ pc[c] \in {"new", "authorizing", "routed", "submitting", "answering"}
             => started[c] = 0
        /\ pc[c] = "writing" => started[c] = 1 /\ kind[c] = "read"
        /\ started[c] <= (IF kind[c] = "read" THEN 2 ELSE 1)

HttpInv == HttpTypeOK /\ SlotsAccounted /\ ResponsesByPlace

-----------------------------------------------------------------------------
\* Both limits are positive, and submissions leave a request slot when they can.
LEMMA LimitFacts ==
    ASSUME LimitsPositive
    PROVE  /\ request_limit \in Nat /\ submission_limit \in Nat
           /\ request_limit > 1 => submission_limit < request_limit
BY DEF LimitsPositive, request_limit, submission_limit

\* Where one handler moves, the holders change by that connection at most.
LEMMA HoldersAfter ==
    ASSUME HttpTypeOK, NEW c \in Connections, NEW to \in Pcs, Goes(c, to)
    PROVE  /\ pc' \in [Connections -> Pcs]
           /\ Handlers' = IF to \in {"new", "done"} THEN Handlers \ {c}
                          ELSE Handlers \cup {c}
           /\ Submitters' = IF to \in {"submitting", "refusing"} THEN Submitters \cup {c}
                            ELSE Submitters \ {c}
BY DEF HttpTypeOK, Goes, Handlers, Submitters

\* One more or one fewer holder, and the size of the set.
LEMMA OneMore ==
    ASSUME NEW S, NEW x, IsFiniteSet(S)
    PROVE  /\ IsFiniteSet(S \cup {x}) /\ IsFiniteSet(S \ {x})
           /\ Cardinality(S) \in Nat
           /\ Cardinality(S \cup {x}) =
                IF x \in S THEN Cardinality(S) ELSE Cardinality(S) + 1
           /\ Cardinality(S \ {x}) =
                IF x \in S THEN Cardinality(S) - 1 ELSE Cardinality(S)
BY FS_AddElement, FS_RemoveElement, FS_CardinalityType

-----------------------------------------------------------------------------
\* The slot equations hold at the start, when nobody holds anything.
LEMMA InitHttpInv ==
    ASSUME LimitsPositive, Init
    PROVE  HttpInv
<1>1. Handlers = {} /\ Submitters = {}
    BY DEF Init, Handlers, Submitters
<1>2. SlotsAccounted
    BY <1>1, LimitFacts, FS_EmptySet DEF Init, SlotsAccounted
<1>3. HttpTypeOK /\ ResponsesByPlace
    BY LimitFacts DEF Init, HttpTypeOK, ResponsesByPlace, Pcs, Kinds
<1>4. QED
    BY <1>2, <1>3 DEF HttpInv

\* A step that changes no semaphore and keeps the holders keeps the equations.
LEMMA SlotsUntouched ==
    ASSUME HttpInv, NEW c \in Connections, NEW to \in Pcs, Goes(c, to),
           (pc[c] \in {"new", "done"}) <=> (to \in {"new", "done"}),
           (pc[c] \in {"submitting", "refusing"}) <=> (to \in {"submitting", "refusing"}),
           UNCHANGED <<request_slots, submission_slots>>
    PROVE  SlotsAccounted'
<1>1. c \in Handlers <=> to \notin {"new", "done"}
    BY DEF Handlers
<1>2. c \in Submitters <=> to \in {"submitting", "refusing"}
    BY DEF Submitters
<1>3. Handlers' = Handlers /\ Submitters' = Submitters
    BY <1>1, <1>2, HoldersAfter DEF HttpInv
<1>4. QED
    BY <1>3 DEF HttpInv, SlotsAccounted

\* The accept loop takes a request slot with the connection's first step.
LEMMA AcceptSlots ==
    ASSUME HttpInv, NEW c \in Connections, Accept(c)
    PROVE  SlotsAccounted'
<1>1. c \notin Handlers /\ c \notin Submitters
    BY DEF Accept, Handlers, Submitters
<1>2. Handlers' = Handlers \cup {c} /\ Submitters' = Submitters
    BY <1>1, HoldersAfter DEF HttpInv, Accept, Pcs
<1>3. QED
    BY <1>1, <1>2, OneMore DEF HttpInv, HttpTypeOK, SlotsAccounted, Accept

\* The finally clause of the handler thread gives it back.
LEMMA CloseSlots ==
    ASSUME HttpInv, NEW c \in Connections, Close(c)
    PROVE  SlotsAccounted'
<1>1. c \in Handlers /\ c \notin Submitters
    BY DEF Close, Handlers, Submitters
<1>2. Handlers' = Handlers \ {c} /\ Submitters' = Submitters
    BY <1>1, HoldersAfter DEF HttpInv, Close, Pcs
<1>3. QED
    BY <1>1, <1>2, OneMore DEF HttpInv, HttpTypeOK, SlotsAccounted, Close

\* A submission slot is taken by a handler, which stays one.
LEMMA SubmissionAdmittedSlots ==
    ASSUME HttpInv, NEW c \in Connections, SubmissionAdmitted(c)
    PROVE  SlotsAccounted'
<1>1. c \in Handlers /\ c \notin Submitters
    BY DEF SubmissionAdmitted, Handlers, Submitters
<1>2. Handlers' = Handlers /\ Submitters' = Submitters \cup {c}
    BY <1>1, HoldersAfter DEF HttpInv, SubmissionAdmitted, Pcs
<1>3. QED
    BY <1>1, <1>2, OneMore DEF HttpInv, HttpTypeOK, SlotsAccounted, SubmissionAdmitted

\* Both ways out of a submission give its slot back, once.
LEMMA SubmissionReleases ==
    ASSUME HttpInv, NEW c \in Connections, SubmissionEnds(c) \/ RefusalReleases(c)
    PROVE  SlotsAccounted'
<1>1. c \in Handlers /\ c \in Submitters
    BY DEF SubmissionEnds, RefusalReleases, Handlers, Submitters
<1>2. Handlers' = Handlers /\ Submitters' = Submitters \ {c}
    BY <1>1, HoldersAfter DEF HttpInv, SubmissionEnds, RefusalReleases, Pcs
<1>3. request_slots' = request_slots /\ submission_slots' = submission_slots + 1
    BY DEF SubmissionEnds, RefusalReleases
<1>4. QED
    BY <1>1, <1>2, <1>3, OneMore DEF HttpInv, HttpTypeOK, SlotsAccounted

-----------------------------------------------------------------------------
\* Every step of the server keeps the slot equations.
LEMMA NextSlots ==
    ASSUME HttpInv, [Next]_vars
    PROVE  SlotsAccounted'
<1>1. CASE StopListening \/ UNCHANGED vars
    BY <1>1 DEF StopListening, vars, HttpInv, SlotsAccounted, Handlers, Submitters
<1>2. CASE \E c \in Connections : Refuse(c) \/ Accept(c) \/ ThreadFails(c)
    <2>1. PICK c \in Connections : Refuse(c) \/ Accept(c) \/ ThreadFails(c)
        BY <1>2
    <2>2. CASE Accept(c)
        BY <2>2, AcceptSlots
    <2>3. CASE Refuse(c) \/ ThreadFails(c)
        <3>1. pc[c] = "new" /\ Goes(c, "done") /\ UNCHANGED <<request_slots, submission_slots>>
            BY <2>3 DEF Refuse, ThreadFails
        <3>2. c \notin Handlers /\ c \notin Submitters
            BY <3>1 DEF Handlers, Submitters
        <3>3. Handlers' = Handlers /\ Submitters' = Submitters
            BY <3>1, <3>2, HoldersAfter DEF HttpInv, Pcs
        <3>4. QED
            BY <3>1, <3>3 DEF HttpInv, SlotsAccounted
    <2>4. QED
        BY <2>1, <2>2, <2>3
<1>3. CASE \E c \in Connections : Route(c) \/ Read(c)
    <2>1. PICK c \in Connections : Route(c) \/ Read(c)
        BY <1>3
    <2>2. /\ pc[c] \in {"authorizing", "routed", "writing"}
          /\ \E to \in {"routed", "writing", "closing"} : Goes(c, to)
          /\ UNCHANGED <<request_slots, submission_slots>>
        BY <2>1 DEF Route, Read, TimesOut, Denied, Authorized, Simple,
                    ReadFails, ReadAnswers, ReadWritten, ReadWriteFails
    <2>3. QED
        BY <2>2, SlotsUntouched DEF Pcs
<1>4. CASE \E c \in Connections : Submission(c)
    <2>1. PICK c \in Connections : Submission(c)
        BY <1>4
    <2>2. CASE SubmissionAdmitted(c)
        BY <2>2, SubmissionAdmittedSlots
    <2>3. CASE SubmissionEnds(c) \/ RefusalReleases(c)
        BY <2>3, SubmissionReleases
    <2>4. CASE SubmissionFull(c) \/ Answer(c)
        <3>1. /\ pc[c] \in {"routed", "answering"} /\ Goes(c, "closing")
              /\ UNCHANGED <<request_slots, submission_slots>>
            BY <2>4 DEF SubmissionFull, Answer
        <3>2. QED
            BY <3>1, SlotsUntouched DEF Pcs
    <2>5. CASE SubmissionRefused(c)
        BY <2>5, SlotsUntouched DEF SubmissionRefused, Pcs
    <2>6. QED
        BY <2>1, <2>2, <2>3, <2>4, <2>5 DEF Submission
<1>5. CASE \E c \in Connections : Close(c)
    BY <1>5, CloseSlots
<1>6. QED
    BY <1>1, <1>2, <1>3, <1>4, <1>5 DEF Next

\* Every step keeps the types; a release adds to a semaphore, an acquire finds a place.
LEMMA NextHttpType ==
    ASSUME HttpTypeOK, [Next]_vars
    PROVE  HttpTypeOK'
<1>1. CASE UNCHANGED vars \/ StopListening
    BY <1>1 DEF HttpTypeOK, vars, StopListening
<1>2. CASE \E c \in Connections : Refuse(c) \/ Accept(c) \/ ThreadFails(c) \/ Close(c)
    BY <1>2 DEF HttpTypeOK, Refuse, Accept, ThreadFails, Close, Goes, Responds, Pcs
<1>3. CASE \E c \in Connections : Route(c) \/ Read(c)
    BY <1>3 DEF HttpTypeOK, Route, Read, TimesOut, Denied, Authorized, Simple,
                ReadFails, ReadAnswers, ReadWritten, ReadWriteFails, Goes, Responds, Pcs
<1>4. CASE \E c \in Connections : Submission(c)
    BY <1>4 DEF HttpTypeOK, Submission, SubmissionFull, SubmissionAdmitted, SubmissionEnds,
                Answer, SubmissionRefused, RefusalReleases, Goes, Responds, Pcs
<1>5. QED
    BY <1>1, <1>2, <1>3, <1>4 DEF Next

\* Every step keeps the count of responses in line with the handler's place.
LEMMA NextResponses ==
    ASSUME HttpTypeOK, ResponsesByPlace, [Next]_vars
    PROVE  ResponsesByPlace'
<1>1. CASE UNCHANGED vars \/ StopListening
    BY <1>1 DEF ResponsesByPlace, vars, StopListening
<1>2. CASE \E c \in Connections : Refuse(c) \/ Accept(c) \/ ThreadFails(c) \/ Close(c)
    BY <1>2 DEF HttpTypeOK, ResponsesByPlace, Refuse, Accept, ThreadFails, Close, Goes, Responds
<1>3. CASE \E c \in Connections : Route(c)
    BY <1>3 DEF HttpTypeOK, ResponsesByPlace, Route, TimesOut, Denied, Authorized, Simple,
                Goes, Responds
<1>4. CASE \E c \in Connections : Read(c)
    BY <1>4 DEF HttpTypeOK, ResponsesByPlace, Read, ReadFails, ReadAnswers, ReadWritten,
                ReadWriteFails, Goes, Responds
<1>5. CASE \E c \in Connections : Submission(c)
    BY <1>5 DEF HttpTypeOK, ResponsesByPlace, Submission, SubmissionFull, SubmissionAdmitted,
                SubmissionEnds, Answer, SubmissionRefused, RefusalReleases, Goes, Responds
<1>6. QED
    BY <1>1, <1>2, <1>3, <1>4, <1>5 DEF Next

-----------------------------------------------------------------------------
\* The slots, the types and the responses together, for any connections and limits.
THEOREM HttpInvariant == ASSUME LimitsPositive PROVE Spec => []HttpInv
<1>1. Init => HttpInv
    BY InitHttpInv
<1>2. HttpInv /\ [Next]_vars => HttpInv'
    BY NextSlots, NextHttpType, NextResponses DEF HttpInv
<1>3. QED
    BY <1>1, <1>2, PTL DEF Spec

\* No path of the nested handlers loses or doubles a slot of either semaphore.
THEOREM SlotsAccountedHolds == ASSUME LimitsPositive PROVE Spec => []SlotsAccounted
<1>1. HttpInv => SlotsAccounted
    BY DEF HttpInv
<1>2. QED
    BY <1>1, HttpInvariant, PTL

\* Submissions never hold every request slot when there is more than one.
THEOREM ReserveKeptHolds == ASSUME LimitsPositive PROVE Spec => []ReserveKept
<1>1. HttpInv => ReserveKept
    <2>1. SUFFICES ASSUME HttpInv, request_limit > 1
                   PROVE  Cardinality(Submitters) < request_limit
        BY DEF ReserveKept
    <2>2. Cardinality(Submitters) \in Nat
        BY <2>1, FS_CardinalityType DEF HttpInv, SlotsAccounted
    <2>3. QED
        BY <2>1, <2>2, LimitFacts DEF HttpInv, HttpTypeOK, SlotsAccounted
<1>2. QED
    BY <1>1, HttpInvariant, PTL

\* No request but a job read ever has two responses begun on its connection.
THEOREM OneResponseHolds == ASSUME LimitsPositive PROVE Spec => []OneResponse
<1>1. HttpInv => OneResponse
    BY DEF HttpInv, ResponsesByPlace, OneResponse
<1>2. QED
    BY <1>1, HttpInvariant, PTL
=============================================================================
