-------------------------- MODULE BalanceVoteProofs --------------------------
(***************************************************************************)
(* Theorems of BalanceVote, for every set of users, requests and colors.   *)
(***************************************************************************)
EXTENDS BalanceVote, FiniteSetTheorems, TLAPS

-----------------------------------------------------------------------------
\* The strengthening.

\* Which requests can be named by a record or a counter.
NamingInv ==
  /\ \A r \in Requests : pc[r] \in {"insert", "lower", "delete"} => color[r] \in Colors
  /\ \A v \in votes : pc[v] \in {"raise", "done"} /\ color[v] \in Colors
  /\ \A r \in raised : pc[r] = "done"
  /\ \A r \in lowered : pc[r] \in {"delete", "done"}

\* The form is there until the clean-up is over.
FormInv == cl # "done" => form

\* A cancellation that races with no other has its vote recorded, until the clean-up.
CancelInv ==
  \A r \in Requests :
    pc[r] \in {"lower", "delete"} /\ Owner[r] \notin raced =>
      /\ Cancelling(Owner[r]) = {r}
      /\ cl = "idle" => \E v \in VotesOf(Owner[r]) : color[v] = color[r]

\* Votes that nobody has begun to cancel.
Standing(c) == {v \in With(c, votes) : Cancelling(Owner[v]) = {}}

\* What has been, or will be, taken from a counter has been, or will be, added to it.
CoverInv ==
  raced = {} /\ faults = 0 /\ form =>
    \A c \in Colors :
      Cardinality(With(c, lowered)) + Cardinality(At(c, "lower")) + Cardinality(Standing(c))
        <= Cardinality(With(c, raised)) + Cardinality(At(c, "raise"))

\* Who still runs when the clean-up has listed the form is late, and only late votes
\* survive the deletion.
LateInv ==
  /\ cl # "idle" => Running \subseteq late
  /\ faults = 0 /\ cl \in {"comments", "forms", "done"} => votes \subseteq late
  /\ faults = 0 /\ cl = "done" => ~form

IInv ==
  /\ TypeOK
  /\ NamingInv
  /\ OneVoteEach
  /\ FormInv
  /\ CancelInv
  /\ CountersFollowVotes
  /\ CoverInv
  /\ LateInv

-----------------------------------------------------------------------------
\* The types, and the parts that need no counting.

\* The new form is typed.
LEMMA TypeInit == Init => TypeOK
  BY ConstantsAssumption DEF Init, TypeOK, Pcs, CleanupPcs

\* Requests, clean-up and faults keep the types.
LEMMA TypeNext == TypeOK /\ [Next]_vars => TypeOK'
<1> SUFFICES ASSUME TypeOK, [Next]_vars PROVE TypeOK'
  OBVIOUS
<1> USE ConstantsAssumption DEF TypeOK, vars, formVars, Goto, Pcs, CleanupPcs, Begins
<1>1. ASSUME NEW r \in Requests, NEW c \in Colors, CheckVote(r, c) PROVE TypeOK'
  BY <1>1 DEF CheckVote
<1>2. ASSUME NEW r \in Requests, InsertVote(r) \/ RaiseCounter(r) PROVE TypeOK'
  BY <1>2 DEF InsertVote, RaiseCounter
<1>3. ASSUME NEW r \in Requests, FindVote(r) PROVE TypeOK'
  BY <1>3 DEF FindVote, VotesOf
<1>4. ASSUME NEW r \in Requests, LowerCounter(r) \/ DeleteVote(r) PROVE TypeOK'
  BY <1>4 DEF LowerCounter, DeleteVote
<1>5. ASSUME NEW r \in Requests, InsertBalanceFormComment(r) PROVE TypeOK'
  BY <1>5 DEF InsertBalanceFormComment, AddComment, LookUpRoom, PublishComment
<1>6. CASE CleanupForm
  <2>1. CASE ListForms
    BY <2>1 DEF ListForms, Running
  <2>2. CASE DeleteFormVotes
    BY <2>2 DEF DeleteFormVotes, CleanupStep
  <2>3. CASE DeleteFormComments
    BY <2>3 DEF DeleteFormComments, CleanupStep
  <2>4. CASE DeleteForms
    <3>1. form' \in BOOLEAN
      BY <2>4, Zenon DEF DeleteForms, CleanupStep
    <3>2. faults' \in Nat /\ cl' = "done" /\ UNCHANGED <<pc, color, votes, raised, lowered>>
      BY <2>4 DEF DeleteForms, CleanupStep
    <3>3. UNCHANGED <<comments, announced, raced, late>>
      BY <2>4 DEF DeleteForms, CleanupStep
    <3> QED
      BY <3>1, <3>2, <3>3
  <2> QED
    BY <1>6, <2>1, <2>2, <2>3, <2>4 DEF CleanupForm
<1>7. ASSUME NEW r \in Requests, RequestFails(r) PROVE TypeOK'
  BY <1>7 DEF RequestFails
<1>8. CASE Crash
  BY <1>8 DEF Crash
<1>9. CASE UNCHANGED vars
  BY <1>9
<1> QED
  BY <1>1, <1>2, <1>3, <1>4, <1>5, <1>6, <1>7, <1>8, <1>9
  DEF Next, Handle, InsertBalanceFormVote, CancelBalanceFormVote

\* Records and counters name the requests that made them.
LEMMA NamingNext == TypeOK /\ NamingInv /\ [Next]_vars => NamingInv'
<1> SUFFICES ASSUME TypeOK, NamingInv, [Next]_vars PROVE NamingInv'
  OBVIOUS
<1> USE DEF TypeOK, NamingInv, vars, formVars, Goto, Running
<1>1. ASSUME NEW r \in Requests, NEW c \in Colors, CheckVote(r, c) PROVE NamingInv'
  BY <1>1 DEF CheckVote
<1>2. ASSUME NEW r \in Requests, InsertVote(r) PROVE NamingInv'
  <2>1. pc[r] = "insert" /\ color[r] \in Colors
    BY <1>2 DEF InsertVote
  <2> QED
    BY <1>2, <2>1 DEF InsertVote
<1>3. ASSUME NEW r \in Requests, RaiseCounter(r) \/ LowerCounter(r) \/ DeleteVote(r)
      PROVE  NamingInv'
  BY <1>3 DEF RaiseCounter, LowerCounter, DeleteVote
<1>4. ASSUME NEW r \in Requests, FindVote(r) PROVE NamingInv'
  BY <1>4 DEF FindVote, VotesOf
<1>5. ASSUME NEW r \in Requests, InsertBalanceFormComment(r) PROVE NamingInv'
  BY <1>5 DEF InsertBalanceFormComment, AddComment, LookUpRoom, PublishComment
<1>6. CASE CleanupForm
  BY <1>6 DEF CleanupForm, ListForms, CleanupStep, DeleteFormVotes, DeleteFormComments,
              DeleteForms
<1>7. ASSUME NEW r \in Requests, RequestFails(r) PROVE NamingInv'
  BY <1>7 DEF RequestFails
<1>8. CASE Crash
  BY <1>8 DEF Crash
<1>9. CASE UNCHANGED vars
  BY <1>9
<1> QED
  BY <1>1, <1>2, <1>3, <1>4, <1>5, <1>6, <1>7, <1>8, <1>9
  DEF Next, Handle, InsertBalanceFormVote, CancelBalanceFormVote

\* One record for each user, by the index.
LEMMA OneVoteNext == TypeOK /\ OneVoteEach /\ [Next]_vars => OneVoteEach'
<1> SUFFICES ASSUME TypeOK, OneVoteEach, [Next]_vars PROVE OneVoteEach'
  OBVIOUS
<1> USE DEF TypeOK, OneVoteEach, vars, formVars
<1>1. ASSUME NEW r \in Requests, InsertVote(r) PROVE OneVoteEach'
  BY <1>1 DEF InsertVote, IndexAdmits, VotesOf
<1>2. ASSUME NEW r \in Requests, DeleteVote(r) PROVE OneVoteEach'
  BY <1>2 DEF DeleteVote
<1>3. CASE DeleteFormVotes
  BY <1>3 DEF DeleteFormVotes, CleanupStep
<1>4. CASE UNCHANGED votes
  BY <1>4
<1> QED
  BY <1>1, <1>2, <1>3, <1>4
  DEF Next, Handle, InsertBalanceFormVote, CancelBalanceFormVote, InsertBalanceFormComment,
      CheckVote, RaiseCounter, FindVote, LowerCounter, AddComment, LookUpRoom, PublishComment,
      CleanupForm, ListForms, DeleteFormComments, DeleteForms, RequestFails, Crash

\* The form goes with the last step of the clean-up.
LEMMA FormNext == TypeOK /\ FormInv /\ [Next]_vars => FormInv'
<1> SUFFICES ASSUME TypeOK, FormInv, [Next]_vars PROVE FormInv'
  OBVIOUS
<1> USE DEF TypeOK, CleanupPcs, FormInv, vars, formVars
<1>1. CASE ListForms \/ DeleteFormVotes \/ DeleteFormComments
  BY <1>1 DEF ListForms, DeleteFormVotes, DeleteFormComments, CleanupStep
<1>2. CASE DeleteForms
  BY <1>2 DEF DeleteForms, CleanupStep
<1>3. CASE Crash
  BY <1>3 DEF Crash
<1>4. CASE UNCHANGED <<form, cl>>
  BY <1>4
<1> QED
  BY <1>1, <1>2, <1>3, <1>4
  DEF Next, Handle, InsertBalanceFormVote, CancelBalanceFormVote, InsertBalanceFormComment,
      CheckVote, InsertVote, RaiseCounter, FindVote, LowerCounter, DeleteVote, AddComment,
      LookUpRoom, PublishComment, CleanupForm, RequestFails

\* A cancellation that nothing races with has its vote.
LEMMA CancelNext == TypeOK /\ NamingInv /\ OneVoteEach /\ CancelInv /\ [Next]_vars => CancelInv'
<1> SUFFICES ASSUME TypeOK, NamingInv, OneVoteEach, CancelInv, [Next]_vars PROVE CancelInv'
  OBVIOUS
<1> USE DEF TypeOK, CancelInv, Cancelling, VotesOf, vars, formVars, Goto
<1>1. ASSUME NEW r \in Requests, NEW c \in Colors, CheckVote(r, c) PROVE CancelInv'
  BY <1>1 DEF CheckVote, NamingInv
<1>2. ASSUME NEW r \in Requests, InsertVote(r) PROVE CancelInv'
  BY <1>2 DEF InsertVote
<1>3. ASSUME NEW r \in Requests, RaiseCounter(r) PROVE CancelInv'
  BY <1>3 DEF RaiseCounter
<1>4. ASSUME NEW r \in Requests, FindVote(r) PROVE CancelInv'
  BY <1>4 DEF FindVote, NamingInv
<1>5. ASSUME NEW r \in Requests, LowerCounter(r) PROVE CancelInv'
  BY <1>5 DEF LowerCounter
<1>6. ASSUME NEW r \in Requests, DeleteVote(r) PROVE CancelInv'
  BY <1>6 DEF DeleteVote
<1>7. ASSUME NEW r \in Requests, InsertBalanceFormComment(r) PROVE CancelInv'
  BY <1>7 DEF InsertBalanceFormComment, AddComment, LookUpRoom, PublishComment
<1>8. CASE CleanupForm
  <2>1. cl' # "idle" /\ UNCHANGED <<pc, color, raced>>
    BY <1>8 DEF CleanupForm, ListForms, CleanupStep, DeleteFormVotes, DeleteFormComments,
                DeleteForms
  <2> QED
    BY <2>1
<1>9. ASSUME NEW r \in Requests, RequestFails(r) PROVE CancelInv'
  BY <1>9 DEF RequestFails, Running
<1>10. CASE Crash
  BY <1>10 DEF Crash, Running
<1>11. CASE UNCHANGED vars
  BY <1>11
<1> QED
  BY <1>1, <1>2, <1>3, <1>4, <1>5, <1>6, <1>7, <1>8, <1>9, <1>10, <1>11
  DEF Next, Handle, InsertBalanceFormVote, CancelBalanceFormVote

\* Only late requests add to what the clean-up has deleted.
LEMMA LateNext == TypeOK /\ LateInv /\ [Next]_vars => LateInv'
<1> SUFFICES ASSUME TypeOK, LateInv, [Next]_vars PROVE LateInv'
  OBVIOUS
<1> USE DEF TypeOK, CleanupPcs, LateInv, Running, vars, formVars, Goto, Begins
<1>1. ASSUME NEW r \in Requests, NEW c \in Colors, CheckVote(r, c) PROVE LateInv'
  BY <1>1 DEF CheckVote
<1>2. ASSUME NEW r \in Requests, InsertVote(r) PROVE LateInv'
  BY <1>2 DEF InsertVote
<1>3. ASSUME NEW r \in Requests, RaiseCounter(r) \/ LowerCounter(r) \/ DeleteVote(r)
      PROVE  LateInv'
  BY <1>3 DEF RaiseCounter, LowerCounter, DeleteVote
<1>4. ASSUME NEW r \in Requests, FindVote(r) PROVE LateInv'
  BY <1>4 DEF FindVote
<1>5. ASSUME NEW r \in Requests, InsertBalanceFormComment(r) PROVE LateInv'
  BY <1>5 DEF InsertBalanceFormComment, AddComment, LookUpRoom, PublishComment
<1>6. CASE ListForms
  BY <1>6 DEF ListForms
<1>7. CASE DeleteFormVotes
  BY <1>7 DEF DeleteFormVotes, CleanupStep
<1>8. CASE DeleteFormComments
  BY <1>8 DEF DeleteFormComments, CleanupStep
<1>9. CASE DeleteForms
  BY <1>9 DEF DeleteForms, CleanupStep
<1>10. ASSUME NEW r \in Requests, RequestFails(r) PROVE LateInv'
  BY <1>10 DEF RequestFails
<1>11. CASE Crash
  BY <1>11 DEF Crash
<1>12. CASE UNCHANGED vars
  BY <1>12
<1> QED
  BY <1>1, <1>2, <1>3, <1>4, <1>5, <1>6, <1>7, <1>8, <1>9, <1>10, <1>11, <1>12
  DEF Next, Handle, InsertBalanceFormVote, CancelBalanceFormVote, CleanupForm

-----------------------------------------------------------------------------
\* Counting.

\* Sets of requests are finite: adding or taking one counts as one.
LEMMA OneMoreOrLess ==
  ASSUME NEW S \in SUBSET Requests, NEW r \in Requests
  PROVE  /\ Cardinality(S) \in Nat
         /\ r \notin S => Cardinality(S \cup {r}) = Cardinality(S) + 1
         /\ r \in S => Cardinality(S \ {r}) = Cardinality(S) - 1
<1>1. IsFiniteSet(S)
  BY ConstantsAssumption, FS_Subset
<1> QED
  BY <1>1, FS_CardinalityType, FS_AddElement, FS_RemoveElement

\* A smaller set of requests counts no more.
LEMMA FewerCountLess ==
  ASSUME NEW S \in SUBSET Requests, NEW T \in SUBSET S
  PROVE  Cardinality(T) <= Cardinality(S) /\ Cardinality(T) \in Nat /\ Cardinality(S) \in Nat
<1>1. IsFiniteSet(S)
  BY ConstantsAssumption, FS_Subset
<1> QED
  BY <1>1, FS_Subset, FS_CardinalityType

\* The steps of a vote and of a cancellation, one counter at a time.
LEMMA CountersNext ==
  TypeOK /\ NamingInv /\ OneVoteEach /\ FormInv /\ CancelInv /\ CountersFollowVotes
    /\ [Next]_vars => CountersFollowVotes'
<1> SUFFICES ASSUME TypeOK, NamingInv, OneVoteEach, FormInv, CancelInv, CountersFollowVotes,
                    [Next]_vars, raced' = {}, faults' = 0, cl' = "idle", NEW c \in Colors
             PROVE  InStep(c)'
  BY DEF CountersFollowVotes
<1> DEFINE R == With(c, raised)
           L == With(c, lowered)
           V == With(c, votes)
           I == At(c, "raise")
           D == At(c, "delete")
<1> USE DEF TypeOK, NamingInv, vars, formVars, Goto
<1>1. raced = {} /\ faults = 0 /\ cl = "idle" /\ form
  BY DEF Next, Handle, InsertBalanceFormVote, CancelBalanceFormVote, InsertBalanceFormComment,
         CheckVote, InsertVote, RaiseCounter, FindVote, LowerCounter, DeleteVote, AddComment,
         LookUpRoom, PublishComment, CleanupForm, ListForms, CleanupStep, DeleteFormVotes,
         DeleteFormComments, DeleteForms, RequestFails, Crash, FormInv
<1>2. /\ R \in SUBSET Requests /\ L \in SUBSET Requests /\ V \in SUBSET Requests
      /\ I \in SUBSET Requests /\ D \in SUBSET Requests
  BY DEF With, At
<1>nat. /\ Cardinality(R) \in Nat /\ Cardinality(L) \in Nat /\ Cardinality(V) \in Nat
        /\ Cardinality(I) \in Nat /\ Cardinality(D) \in Nat
  BY <1>2, FewerCountLess
<1>3. Cardinality(R) + Cardinality(I) + Cardinality(D) = Cardinality(V) + Cardinality(L)
  BY <1>1 DEF CountersFollowVotes, InStep
<1> SUFFICES Cardinality(R') + Cardinality(I') + Cardinality(D')
               = Cardinality(V') + Cardinality(L')
  BY DEF InStep
<1>4. ASSUME R' = R, L' = L, V' = V, I' = I, D' = D
      PROVE  Cardinality(R') + Cardinality(I') + Cardinality(D')
               = Cardinality(V') + Cardinality(L')
  BY <1>3, <1>4
<1> HIDE DEF R, L, V, I, D
<1>5. ASSUME NEW r \in Requests, Handle(r)
      PROVE  Cardinality(R') + Cardinality(I') + Cardinality(D')
               = Cardinality(V') + Cardinality(L')
  <2>1. ASSUME NEW d \in Colors, CheckVote(r, d)
        PROVE  R' = R /\ L' = L /\ V' = V /\ I' = I /\ D' = D
    BY <2>1 DEF CheckVote, With, At, R, L, V, I, D
  <2>2. ASSUME FindVote(r)
        PROVE  R' = R /\ L' = L /\ V' = V /\ I' = I /\ D' = D
    BY <2>2 DEF FindVote, With, At, R, L, V, I, D
  <2>3. ASSUME InsertBalanceFormComment(r)
        PROVE  R' = R /\ L' = L /\ V' = V /\ I' = I /\ D' = D
    BY <2>3 DEF InsertBalanceFormComment, AddComment, LookUpRoom, PublishComment,
                With, At, R, L, V, I, D
  <2>4. CASE InsertVote(r)
    <3>1. R' = R /\ L' = L /\ D' = D
      BY <2>4 DEF InsertVote, With, At, R, L, D
    <3>2. CASE color[r] = c /\ IndexAdmits(Owner[r])
      <4>1. V' = V \cup {r} /\ r \notin V /\ I' = I \cup {r} /\ r \notin I
        BY <2>4, <3>2 DEF InsertVote, With, At, V, I
      <4>2. Cardinality(V') = Cardinality(V) + 1 /\ Cardinality(I') = Cardinality(I) + 1
        BY <1>2, <4>1, OneMoreOrLess
      <4> QED
        BY <1>nat, <1>3, <3>1, <4>2
    <3>3. CASE ~(color[r] = c /\ IndexAdmits(Owner[r]))
      <4>1. V' = V /\ I' = I
        BY <2>4, <3>3 DEF InsertVote, With, At, V, I
      <4> QED
        BY <1>4, <3>1, <4>1
    <3> QED
      BY <3>2, <3>3
  <2>5. CASE RaiseCounter(r)
    <3>1. V' = V /\ L' = L /\ D' = D
      BY <2>5 DEF RaiseCounter, With, At, L, V, D
    <3>2. CASE color[r] = c
      <4>1. R' = R \cup {r} /\ r \notin R /\ I' = I \ {r} /\ r \in I
        BY <1>1, <2>5, <3>2 DEF RaiseCounter, With, At, R, I
      <4>2. Cardinality(R') = Cardinality(R) + 1 /\ Cardinality(I') = Cardinality(I) - 1
        BY <1>2, <4>1, OneMoreOrLess
      <4> QED
        BY <1>nat, <1>3, <3>1, <4>2
    <3>3. CASE color[r] # c
      <4>1. R' = R /\ I' = I
        BY <2>5, <3>3 DEF RaiseCounter, With, At, R, I
      <4> QED
        BY <1>4, <3>1, <4>1
    <3> QED
      BY <3>2, <3>3
  <2>6. CASE LowerCounter(r)
    <3>1. V' = V /\ R' = R /\ I' = I
      BY <2>6 DEF LowerCounter, With, At, V, R, I
    <3>2. CASE color[r] = c
      <4>1. L' = L \cup {r} /\ r \notin L /\ D' = D \cup {r} /\ r \notin D
        BY <1>1, <2>6, <3>2 DEF LowerCounter, With, At, L, D
      <4>2. Cardinality(L') = Cardinality(L) + 1 /\ Cardinality(D') = Cardinality(D) + 1
        BY <1>2, <4>1, OneMoreOrLess
      <4> QED
        BY <1>nat, <1>3, <3>1, <4>2
    <3>3. CASE color[r] # c
      <4>1. L' = L /\ D' = D
        BY <2>6, <3>3 DEF LowerCounter, With, At, L, D
      <4> QED
        BY <1>4, <3>1, <4>1
    <3> QED
      BY <3>2, <3>3
  <2>7. CASE DeleteVote(r)
    <3>1. R' = R /\ L' = L /\ I' = I
      BY <2>7 DEF DeleteVote, With, At, R, L, I
    <3>2. PICK v \in VotesOf(Owner[r]) : color[v] = color[r]
      BY <1>1, <2>7 DEF DeleteVote, CancelInv
    <3>3. VotesOf(Owner[r]) = {v} /\ v \in Requests
      BY <3>2 DEF VotesOf, OneVoteEach
    <3>4. CASE color[r] = c
      <4>1. V' = V \ {v} /\ v \in V /\ D' = D \ {r} /\ r \in D
        BY <2>7, <3>2, <3>3, <3>4 DEF DeleteVote, VotesOf, With, At, V, D
      <4>2. Cardinality(V') = Cardinality(V) - 1 /\ Cardinality(D') = Cardinality(D) - 1
        BY <1>2, <3>3, <4>1, OneMoreOrLess
      <4> QED
        BY <1>nat, <1>3, <3>1, <4>2
    <3>5. CASE color[r] # c
      <4>1. V' = V /\ D' = D
        BY <2>7, <3>2, <3>3, <3>5 DEF DeleteVote, With, At, V, D
      <4> QED
        BY <1>4, <3>1, <4>1
    <3> QED
      BY <3>4, <3>5
  <2> QED
    BY <1>4, <1>5, <2>1, <2>2, <2>3, <2>4, <2>5, <2>6, <2>7
    DEF Handle, InsertBalanceFormVote, CancelBalanceFormVote
<1>6. CASE UNCHANGED vars
  BY <1>4, <1>6 DEF With, At, R, L, V, I, D
<1>7. CASE CleanupForm \/ Crash \/ \E r \in Requests : RequestFails(r)
  BY <1>1, <1>7 DEF CleanupForm, ListForms, CleanupStep, DeleteFormVotes, DeleteFormComments,
                    DeleteForms, RequestFails, Crash
<1> QED
  BY <1>5, <1>6, <1>7 DEF Next

\* A cancellation takes over the vote it cancels, so nothing is lowered twice.
LEMMA CoverNext ==
  TypeOK /\ NamingInv /\ OneVoteEach /\ CancelInv /\ CoverInv /\ [Next]_vars => CoverInv'
<1> SUFFICES ASSUME TypeOK, NamingInv, OneVoteEach, CancelInv, CoverInv, [Next]_vars,
                    raced' = {}, faults' = 0, form' = TRUE, NEW c \in Colors
             PROVE  (Cardinality(With(c, lowered)) + Cardinality(At(c, "lower"))
                       + Cardinality(Standing(c))
                     <= Cardinality(With(c, raised)) + Cardinality(At(c, "raise")))'
  BY DEF CoverInv, TypeOK
<1> DEFINE L == With(c, lowered)
           P == At(c, "lower")
           S == Standing(c)
           R == With(c, raised)
           I == At(c, "raise")
           Goal == Cardinality(L') + Cardinality(P') + Cardinality(S')
                     <= Cardinality(R') + Cardinality(I')
<1> USE DEF TypeOK, NamingInv, vars, formVars, Goto
<1>1. raced = {} /\ faults = 0 /\ form = TRUE
  <2>1. CASE DeleteForms
    <3>1. (form' = FALSE /\ faults' = faults) \/ faults' = faults + 1
      BY <2>1, Zenon DEF DeleteForms, CleanupStep
    <3> QED
      BY <3>1
  <2>2. ASSUME NEW r \in Requests, Handle(r) PROVE raced = {} /\ faults = 0 /\ form = TRUE
    BY <2>2 DEF Handle, InsertBalanceFormVote, CancelBalanceFormVote, InsertBalanceFormComment,
         CheckVote, InsertVote, RaiseCounter, FindVote, LowerCounter, DeleteVote, AddComment,
         LookUpRoom, PublishComment
  <2>3. CASE ListForms
    BY <2>3 DEF ListForms
  <2>4. CASE DeleteFormVotes
    BY <2>4 DEF DeleteFormVotes, CleanupStep
  <2>5. CASE DeleteFormComments
    BY <2>5 DEF DeleteFormComments, CleanupStep
  <2>6. CASE Crash
    BY <2>6 DEF Crash
  <2>7. ASSUME NEW r \in Requests, RequestFails(r) PROVE FALSE
    BY <2>7 DEF RequestFails
  <2>8. CASE UNCHANGED vars
    BY <2>8
  <2> QED
    BY <2>1, <2>2, <2>3, <2>4, <2>5, <2>6, <2>7, <2>8 DEF Next, CleanupForm
<1>2. /\ L \in SUBSET Requests /\ P \in SUBSET Requests /\ S \in SUBSET Requests
      /\ R \in SUBSET Requests /\ I \in SUBSET Requests
  BY DEF With, At, Standing
<1>3. /\ Cardinality(L) \in Nat /\ Cardinality(P) \in Nat /\ Cardinality(S) \in Nat
      /\ Cardinality(R) \in Nat /\ Cardinality(I) \in Nat
  BY <1>2, FewerCountLess
<1>4. Cardinality(L) + Cardinality(P) + Cardinality(S) <= Cardinality(R) + Cardinality(I)
  BY <1>1 DEF CoverInv
<1> SUFFICES Goal
  OBVIOUS
<1> HIDE DEF L, P, S, R, I
<1>5. ASSUME L' = L, P' = P, R' = R, I' = I, S' \in SUBSET S
      PROVE  Goal
  <2>1. Cardinality(S') <= Cardinality(S) /\ Cardinality(S') \in Nat
    BY <1>2, <1>5, FewerCountLess
  <2> QED
    BY <1>3, <1>4, <1>5, <2>1
<1>6. ASSUME NEW r \in Requests, Handle(r) PROVE Goal
  <2>1. ASSUME NEW d \in Colors, CheckVote(r, d)
        PROVE  L' = L /\ P' = P /\ R' = R /\ I' = I /\ S' \in SUBSET S
    BY <2>1 DEF CheckVote, With, At, Standing, Cancelling, L, P, R, I, S
  <2>2. ASSUME InsertBalanceFormComment(r)
        PROVE  L' = L /\ P' = P /\ R' = R /\ I' = I /\ S' \in SUBSET S
    BY <2>2 DEF InsertBalanceFormComment, AddComment, LookUpRoom, PublishComment,
                With, At, Standing, Cancelling, L, P, R, I, S
  <2>3. CASE InsertVote(r)
    <3>1. L' = L /\ P' = P /\ R' = R
      BY <2>3 DEF InsertVote, With, At, L, P, R
    <3>2. CASE color[r] = c /\ IndexAdmits(Owner[r])
      <4>1. S' \in SUBSET (S \cup {r}) /\ r \notin S /\ I' = I \cup {r} /\ r \notin I
        BY <2>3, <3>2 DEF InsertVote, With, At, Standing, Cancelling, I, S
      <4>2. Cardinality(S \cup {r}) = Cardinality(S) + 1 /\ Cardinality(I') = Cardinality(I) + 1
        BY <1>2, <4>1, OneMoreOrLess
      <4>3. S \cup {r} \in SUBSET Requests
        BY <1>2
      <4>4. Cardinality(S') <= Cardinality(S \cup {r}) /\ Cardinality(S') \in Nat
        BY <4>1, <4>3, FewerCountLess
      <4> QED
        BY <1>3, <1>4, <3>1, <4>2, <4>4
    <3>3. CASE ~(color[r] = c /\ IndexAdmits(Owner[r]))
      <4>1. I' = I /\ S' \in SUBSET S
        BY <2>3, <3>3 DEF InsertVote, With, At, Standing, Cancelling, I, S
      <4> QED
        BY <1>5, <3>1, <4>1
    <3> QED
      BY <3>2, <3>3
  <2>4. CASE RaiseCounter(r)
    <3>1. L' = L /\ P' = P /\ S' = S
      BY <2>4 DEF RaiseCounter, With, At, Standing, Cancelling, L, P, S
    <3>2. CASE color[r] = c
      <4>1. R' = R \cup {r} /\ r \notin R /\ I' = I \ {r} /\ r \in I
        BY <1>1, <2>4, <3>2 DEF RaiseCounter, With, At, R, I
      <4>2. Cardinality(R') = Cardinality(R) + 1 /\ Cardinality(I') = Cardinality(I) - 1
        BY <1>2, <4>1, OneMoreOrLess
      <4> QED
        BY <1>3, <1>4, <3>1, <4>2
    <3>3. CASE color[r] # c
      <4>1. R' = R /\ I' = I
        BY <2>4, <3>3 DEF RaiseCounter, With, At, R, I
      <4> QED
        BY <1>5, <3>1, <4>1
    <3> QED
      BY <3>2, <3>3
  <2>5. CASE FindVote(r)
    <3>1. L' = L /\ R' = R /\ I' = I
      BY <2>5 DEF FindVote, With, At, L, R, I
    <3>2. CASE VotesOf(Owner[r]) = {}
      <4>1. P' = P /\ S' \in SUBSET S
        BY <2>5, <3>2 DEF FindVote, With, At, Standing, Cancelling, P, S
      <4> QED
        BY <1>5, <3>1, <4>1
    <3>3. ASSUME NEW v \in VotesOf(Owner[r]), pc[r] = "new",
                 pc' = [pc EXCEPT ![r] = "lower"], color' = [color EXCEPT ![r] = color[v]]
          PROVE  Goal
      <4>1. VotesOf(Owner[r]) = {v} /\ v \in votes /\ v \in Requests /\ Owner[v] = Owner[r]
        BY <3>3 DEF VotesOf, OneVoteEach
      <4>2. Cancelling(Owner[r]) = {} /\ UNCHANGED votes /\ r \notin votes
        BY <2>5, <3>3, <4>1 DEF FindVote
      <4>3. CASE color[v] = c
        <5>1. P' = P \cup {r} /\ r \notin P
          BY <3>3, <4>3 DEF At, P
        <5>2. v \in S /\ S' \in SUBSET (S \ {v})
          BY <3>3, <4>1, <4>2, <4>3 DEF With, Standing, Cancelling, S
        <5>3. Cardinality(P') = Cardinality(P) + 1
          BY <1>2, <5>1, OneMoreOrLess
        <5>4. Cardinality(S \ {v}) = Cardinality(S) - 1
          BY <1>2, <4>1, <5>2, OneMoreOrLess
        <5>5. S \ {v} \in SUBSET Requests
          BY <1>2
        <5>6. Cardinality(S') <= Cardinality(S \ {v}) /\ Cardinality(S') \in Nat
          BY <5>2, <5>5, FewerCountLess
        <5> QED
          BY <1>3, <1>4, <3>1, <5>3, <5>4, <5>6
      <4>4. CASE color[v] # c
        <5>1. P' = P
          BY <3>3, <4>4 DEF At, P
        <5>2. S' \in SUBSET S
          BY <3>3, <4>1, <4>2, <4>4 DEF With, Standing, Cancelling, S
        <5> QED
          BY <1>5, <3>1, <5>1, <5>2
      <4> QED
        BY <4>3, <4>4
    <3> QED
      BY <2>5, <3>2, <3>3 DEF FindVote
  <2>6. CASE LowerCounter(r)
    <3>1. R' = R /\ I' = I /\ S' = S
      BY <2>6 DEF LowerCounter, With, At, Standing, Cancelling, R, I, S
    <3>2. CASE color[r] = c
      <4>1. L' = L \cup {r} /\ r \notin L /\ P' = P \ {r} /\ r \in P
        BY <1>1, <2>6, <3>2 DEF LowerCounter, With, At, L, P
      <4>2. Cardinality(L') = Cardinality(L) + 1 /\ Cardinality(P') = Cardinality(P) - 1
        BY <1>2, <4>1, OneMoreOrLess
      <4> QED
        BY <1>3, <1>4, <3>1, <4>2
    <3>3. CASE color[r] # c
      <4>1. L' = L /\ P' = P
        BY <2>6, <3>3 DEF LowerCounter, With, At, L, P
      <4> QED
        BY <1>5, <3>1, <4>1
    <3> QED
      BY <3>2, <3>3
  <2>7. CASE DeleteVote(r)
    <3>1. L' = L /\ P' = P /\ R' = R /\ I' = I
      BY <2>7 DEF DeleteVote, With, At, L, P, R, I
    <3>2. \A v \in votes' : v \in votes /\ Owner[v] # Owner[r]
      BY <2>7 DEF DeleteVote, VotesOf
    <3>3. S' \in SUBSET S
      BY <2>7, <3>2 DEF DeleteVote, With, Standing, Cancelling, S
    <3> QED
      BY <1>5, <3>1, <3>3
  <2> QED
    BY <1>5, <1>6, <2>1, <2>2, <2>3, <2>4, <2>5, <2>6, <2>7
    DEF Handle, InsertBalanceFormVote, CancelBalanceFormVote
<1>7. CASE CleanupForm
  <2>1. votes' \subseteq votes /\ UNCHANGED <<pc, color, raised, lowered>>
    <3>1. CASE ListForms
      BY <3>1 DEF ListForms
    <3>2. CASE DeleteFormVotes
      BY <3>2 DEF DeleteFormVotes, CleanupStep
    <3>3. CASE DeleteFormComments \/ DeleteForms
      BY <3>3 DEF DeleteFormComments, DeleteForms, CleanupStep
    <3> QED
      BY <1>7, <3>1, <3>2, <3>3 DEF CleanupForm
  <2>2. L' = L /\ P' = P /\ R' = R /\ I' = I /\ S' \in SUBSET S
    BY <2>1 DEF With, At, Standing, Cancelling, L, P, R, I, S
  <2> QED
    BY <1>5, <2>2
<1>8. CASE UNCHANGED vars
  <2>1. L' = L /\ P' = P /\ R' = R /\ I' = I /\ S' \in SUBSET S
    BY <1>8 DEF With, At, Standing, Cancelling, L, P, R, I, S
  <2> QED
    BY <1>5, <2>1
<1>9. CASE Crash \/ \E r \in Requests : RequestFails(r)
  BY <1>1, <1>9 DEF RequestFails, Crash
<1> QED
  BY <1>6, <1>7, <1>8, <1>9 DEF Next

-----------------------------------------------------------------------------
\* The theorems.

\* A new form has no votes and counters of zero.
LEMMA InitIInv == Init => IInv
<1> SUFFICES ASSUME Init PROVE IInv
  OBVIOUS
<1>1. TypeOK
  BY TypeInit
<1>2. NamingInv /\ OneVoteEach /\ FormInv /\ CancelInv /\ LateInv
  BY DEF Init, NamingInv, OneVoteEach, FormInv, CancelInv, LateInv, Running
<1>3. ASSUME NEW c \in Colors
      PROVE  /\ With(c, raised) = {} /\ With(c, lowered) = {} /\ With(c, votes) = {}
             /\ At(c, "raise") = {} /\ At(c, "lower") = {} /\ At(c, "delete") = {}
             /\ Standing(c) = {}
  BY DEF Init, With, At, Standing
<1>4. Cardinality({}) = 0
  BY FS_EmptySet
<1>5. CountersFollowVotes
  BY <1>3, <1>4 DEF CountersFollowVotes, InStep
<1>6. CoverInv
  BY <1>3, <1>4 DEF CoverInv
<1> QED
  BY <1>1, <1>2, <1>5, <1>6 DEF IInv

\* The conjunction is inductive.
THEOREM Invariance == Spec => []IInv
<1>1. Init => IInv
  BY InitIInv
<1>2. IInv /\ [Next]_vars => IInv'
  BY TypeNext, NamingNext, OneVoteNext, FormNext, CancelNext, CountersNext, CoverNext, LateNext
  DEF IInv
<1> QED
  BY <1>1, <1>2, PTL DEF Spec

\* Every variable keeps its type, whatever requests, the clean-up and faults do.
THEOREM TypeCorrect == Spec => []TypeOK
  BY Invariance, PTL DEF IInv

\* InsertBalanceFormVote records one vote for each user, however many he sends at once.
THEOREM RecordsOneVoteEach == Spec => []OneVoteEach
  BY Invariance, PTL DEF IInv

\* Counters and records of any number of users agree, up to the requests in flight,
\* until somebody cancels twice at once, a call fails or the clean-up begins.
THEOREM CountersAgree == Spec => []CountersFollowVotes
  BY Invariance, PTL DEF IInv

\* A counter at rest is negative only after a double cancellation or a fault.
THEOREM NegativeIsRaced == Spec => []NegativeOnlyByRace
<1>1. IInv => NegativeOnlyByRace
  <2> SUFFICES ASSUME IInv, form, Running = {}, NEW c \in Colors, Counter(c) < 0,
                      raced = {}, faults = 0
               PROVE  FALSE
    BY DEF NegativeOnlyByRace, IInv, TypeOK
  <2>1. At(c, "raise") = {}
    BY DEF At, Running
  <2>2. Cardinality(At(c, "raise")) = 0
    BY <2>1, FS_EmptySet
  <2>3. /\ With(c, lowered) \in SUBSET Requests /\ With(c, raised) \in SUBSET Requests
        /\ At(c, "lower") \in SUBSET Requests /\ Standing(c) \in SUBSET Requests
    BY DEF IInv, TypeOK, With, At, Standing
  <2>4. /\ Cardinality(With(c, lowered)) \in Nat /\ Cardinality(With(c, raised)) \in Nat
        /\ Cardinality(At(c, "lower")) \in Nat /\ Cardinality(Standing(c)) \in Nat
    BY <2>3, FewerCountLess
  <2>5. Cardinality(With(c, lowered)) + Cardinality(At(c, "lower")) + Cardinality(Standing(c))
          <= Cardinality(With(c, raised)) + Cardinality(At(c, "raise"))
    BY DEF IInv, CoverInv
  <2> QED
    BY <2>2, <2>4, <2>5 DEF Counter
<1> QED
  BY <1>1, Invariance, PTL

\* cleanupRoomData leaves no vote behind but those of late requests.
THEOREM LeftVotesAreLate == Spec => []VotesLeftAreLate
<1>1. IInv => VotesLeftAreLate
  BY DEF IInv, LateInv, VotesLeftAreLate
<1> QED
  BY <1>1, Invariance, PTL

-----------------------------------------------------------------------------
\* The refinement.

\* The papers that the records and the requests stand for.
InBox == {<<v, color[v]>> : v \in votes}

Spent == {r \in Requests : pc[r] \notin {"new", "insert"}}

\* A step that changes neither records nor their colors is a stutter, or spends papers.
LEMMA BallotSpends ==
  ASSUME TypeOK, InBox' = InBox, Spent \subseteq Spent', TypeOK', UNCHANGED (cl # "idle")
  PROVE  [Box!Next]_(Box!vars)
<1>1. Spent' \in SUBSET Requests
  BY DEF Spent
<1>2. Spent' = Spent \cup Spent'
  OBVIOUS
<1>3. \E S \in SUBSET Requests : Box!Spoil(S)
  BY <1>1, <1>2 DEF Box!Spoil, InBox, Spent
<1> QED
  BY <1>3 DEF Box!Next

\* Every step of the requests, the clean-up or a fault is one of the ballot, or none.
LEMMA BallotStep ==
  TypeOK /\ TypeOK' /\ NamingInv /\ [Next]_vars => [Box!Next]_(Box!vars)
<1> SUFFICES ASSUME TypeOK, TypeOK', NamingInv, [Next]_vars PROVE [Box!Next]_(Box!vars)
  OBVIOUS
<1> USE DEF vars, formVars, Goto
<1>1. ASSUME NEW r \in Requests, InsertVote(r) PROVE [Box!Next]_(Box!vars)
  <2>1. CASE IndexAdmits(Owner[r])
    <3>1. /\ pc[r] = "insert" /\ color[r] \in Colors
          /\ pc' = [pc EXCEPT ![r] = "raise"] /\ votes' = votes \cup {r}
          /\ UNCHANGED <<color, cl>>
      BY <1>1, <2>1 DEF InsertVote, NamingInv
    <3>2. InBox' = InBox \cup {<<r, color[r]>>}
      BY <3>1 DEF InBox
    <3>3. r \notin Spent /\ Spent' = Spent \cup {r}
      BY <3>1 DEF Spent, TypeOK
    <3>4. {b \in InBox : Owner[b[1]] = Owner[r]} = {}
      BY <2>1 DEF InBox, IndexAdmits, VotesOf
    <3>5. \E c \in Colors : Box!Cast(r, c)
      BY <3>1, <3>2, <3>3, <3>4 DEF Box!Cast, Box!Of, InBox, Spent
    <3> QED
      BY <3>5 DEF Box!Next
  <2>2. CASE ~IndexAdmits(Owner[r])
    <3>1. InBox' = InBox
      BY <1>1, <2>2 DEF InsertVote, InBox
    <3>2. Spent \subseteq Spent'
      BY <1>1, <2>2 DEF InsertVote, Spent, TypeOK
    <3> QED
      BY <1>1, <3>1, <3>2, BallotSpends DEF InsertVote
  <2> QED
    BY <2>1, <2>2
<1>2. ASSUME NEW r \in Requests, DeleteVote(r) PROVE [Box!Next]_(Box!vars)
  <2>1. /\ InBox' = InBox \ {b \in InBox : Owner[b[1]] = Owner[r]}
        /\ UNCHANGED cl
    BY <1>2 DEF DeleteVote, VotesOf, InBox
  <2>2. Spent' = Spent
    BY <1>2 DEF DeleteVote, Spent, TypeOK
  <2>3. Box!Withdraw(Owner[r])
    BY <2>1, <2>2 DEF Box!Withdraw, Box!Of, InBox, Spent
  <2> QED
    BY <2>3, ConstantsAssumption DEF Box!Next
<1>3. CASE ListForms
  <2>1. InBox' = InBox /\ Spent' = Spent /\ cl' # "idle"
    BY <1>3 DEF ListForms, InBox, Spent
  <2>2. Box!Close
    BY <2>1 DEF Box!Close, InBox, Spent
  <2> QED
    BY <2>2 DEF Box!Next
<1>4. CASE DeleteFormVotes
  <2>1. /\ cl = "votes" /\ cl' = "comments" /\ UNCHANGED <<pc, color>>
        /\ votes' = {} \/ votes' = votes
    BY <1>4 DEF DeleteFormVotes, CleanupStep
  <2>2. Spent' = Spent
    BY <2>1 DEF Spent
  <2>3. CASE votes' = {}
    <3>1. InBox' = {}
      BY <2>3 DEF InBox
    <3>2. Box!Empty
      BY <2>1, <2>2, <3>1 DEF Box!Empty, InBox, Spent
    <3> QED
      BY <3>2 DEF Box!Next
  <2>4. CASE votes' = votes
    <3>1. InBox' = InBox
      BY <2>1, <2>4 DEF InBox
    <3> QED
      BY <2>1, <2>2, <3>1, BallotSpends
  <2> QED
    BY <2>1, <2>3, <2>4
\* All other steps leave the records and their colors alone.
<1>5. ASSUME votes' = votes, \A v \in votes : color'[v] = color[v], Spent \subseteq Spent',
             UNCHANGED (cl # "idle")
      PROVE  [Box!Next]_(Box!vars)
  <2>1. InBox' = InBox
    BY <1>5 DEF InBox
  <2> QED
    BY <1>5, <2>1, BallotSpends
<1>6. ASSUME NEW r \in Requests, NEW c \in Colors, CheckVote(r, c) PROVE [Box!Next]_(Box!vars)
  <2>1. \A v \in votes : color'[v] = color[v]
    BY <1>6 DEF CheckVote, NamingInv, TypeOK
  <2>2. Spent \subseteq Spent'
    BY <1>6 DEF CheckVote, Spent, TypeOK
  <2> QED
    BY <1>5, <1>6, <2>1, <2>2 DEF CheckVote
<1>7. ASSUME NEW r \in Requests, FindVote(r) PROVE [Box!Next]_(Box!vars)
  <2>1. \A v \in votes : color'[v] = color[v]
    BY <1>7 DEF FindVote, NamingInv, TypeOK
  <2>2. Spent \subseteq Spent'
    BY <1>7 DEF FindVote, Spent, TypeOK
  <2> QED
    BY <1>5, <1>7, <2>1, <2>2 DEF FindVote
<1>8. ASSUME NEW r \in Requests, RaiseCounter(r) \/ LowerCounter(r) \/ InsertBalanceFormComment(r)
      PROVE  [Box!Next]_(Box!vars)
  <2>1. Spent \subseteq Spent'
    BY <1>8 DEF RaiseCounter, LowerCounter, InsertBalanceFormComment, AddComment, LookUpRoom,
                PublishComment, Spent, TypeOK
  <2>2. UNCHANGED <<votes, color, cl>>
    BY <1>8 DEF RaiseCounter, LowerCounter, InsertBalanceFormComment, AddComment, LookUpRoom,
                PublishComment
  <2> QED
    BY <1>5, <2>1, <2>2
<1>9. CASE DeleteFormComments \/ DeleteForms
  <2>1. cl # "idle" /\ cl' # "idle" /\ UNCHANGED <<pc, color, votes>>
    BY <1>9 DEF DeleteFormComments, DeleteForms, CleanupStep
  <2>2. Spent' = Spent
    BY <2>1 DEF Spent
  <2> QED
    BY <1>5, <2>1, <2>2
<1>10. CASE Crash \/ \E r \in Requests : RequestFails(r)
  <2>1. Spent \subseteq Spent'
    BY <1>10 DEF Crash, RequestFails, Running, Spent, TypeOK
  <2>2. UNCHANGED <<votes, color, cl # "idle">>
    BY <1>10 DEF Crash, RequestFails
  <2> QED
    BY <1>5, <2>1, <2>2
<1>11. CASE UNCHANGED vars
  <2>1. Spent' = Spent
    BY <1>11 DEF Spent
  <2> QED
    BY <1>5, <1>11, <2>1
<1> QED
  BY <1>1, <1>2, <1>3, <1>4, <1>6, <1>7, <1>8, <1>9, <1>10, <1>11
  DEF Next, Handle, InsertBalanceFormVote, CancelBalanceFormVote, CleanupForm

\* The vote requests of a form, however they interleave, are the ballot of Ballot: one
\* paper for each voter, which keeps its color, is withdrawn by him alone, and is not
\* cast a second time.
THEOREM VotesAreBallot == Spec => ImplementsBallot
<1>1. Init => Box!Init
  BY DEF Init, Box!Init
<1>2. IInv /\ IInv' /\ [Next]_vars => [Box!Next]_(Box!vars)
  BY BallotStep DEF IInv
<1> QED
  BY <1>1, <1>2, Invariance, PTL DEF Spec, ImplementsBallot, Box!Spec
=============================================================================
