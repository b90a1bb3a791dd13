----------------------------- MODULE BalanceVote -----------------------------
(***************************************************************************)
(* The votes and comments of one balance game form, and the deletion of    *)
(* the form's data when its room is cleaned up.  Every HTTP request is a   *)
(* goroutine of the chat service; its Mongo calls run in a session, but    *)
(* without a transaction, so the calls of several requests interleave.     *)
(*                                                                         *)
(* A vote record is named by the request that inserted it.  The number in  *)
(* votes.red_cnt or votes.blue_cnt is given by who raised and who lowered  *)
(* it, see Counter.                                                        *)
(***************************************************************************)
EXTENDS Integers, FiniteSets

CONSTANTS
  Requests,   \* HTTP requests that concern the form
  Users,      \* who sends them
  Owner,      \* whose request it is
  Colors,     \* what can be voted for
  NoColor,    \* a request that has not chosen or found a color
  MaxFaults   \* bound: failed Mongo calls and crashes of the chat service

ASSUME ConstantsAssumption ==
  /\ IsFiniteSet(Requests)
  /\ Owner \in [Requests -> Users]
  /\ NoColor \notin Colors
  /\ MaxFaults \in Nat

VARIABLES
  pc,        \* position of each request's handler
  color,     \* the color voted for, or found in the vote to cancel
  votes,     \* balance_form_votes: records, by the request that inserted them
  raised,    \* requests whose $inc of 1 reached the form's counter
  lowered,   \* requests whose $inc of -1 did
  comments,  \* balance_form_comments, by request
  announced, \* comments whose vote_comment_chat event was published
  form,      \* the document in balance_forms exists
  cl,        \* position of cleanupRoomData
  raced,     \* history: users with two cancellations in flight at a time
  late,      \* history: requests in flight while, or begun after, the clean-up listed the form
  faults     \* history: faults so far

formVars == <<votes, raised, lowered, comments, announced, form>>

vars == <<pc, color, formVars, cl, raced, late, faults>>

-----------------------------------------------------------------------------
Pcs == {"new", "insert", "raise", "lower", "delete", "lookup", "publish", "done"}

CleanupPcs == {"idle", "votes", "comments", "forms", "done"}

VotesOf(u) == {v \in votes : Owner[v] = u}

\* Mutant: the index is not unique, the check before the insertion has to do.
IndexAdmitsAll(u) == TRUE

\* The unique index of balance_form_votes on form and user.
IndexAdmits(u) == VotesOf(u) = {}

\* Cancellations of a user that have found a vote and have not deleted it yet.
Cancelling(u) == {r \in Requests : Owner[r] = u /\ pc[r] \in {"lower", "delete"}}

Running == {r \in Requests : pc[r] \notin {"new", "done"}}

With(c, S) == {r \in S : color[r] = c}

At(c, p) == {r \in Requests : color[r] = c /\ pc[r] = p}

\* votes.red_cnt and votes.blue_cnt of the form.
Counter(c) == Cardinality(With(c, raised)) - Cardinality(With(c, lowered))

TypeOK ==
  /\ pc \in [Requests -> Pcs]
  /\ color \in [Requests -> Colors \cup {NoColor}]
  /\ votes \subseteq Requests
  /\ raised \subseteq Requests
  /\ lowered \subseteq Requests
  /\ comments \subseteq Requests
  /\ announced \subseteq Requests
  /\ form \in BOOLEAN
  /\ cl \in CleanupPcs
  /\ raced \subseteq Users
  /\ late \subseteq Requests
  /\ faults \in Nat

\* InsertBalanceForm: the form is new and its counters are zero.
Init ==
  /\ pc = [r \in Requests |-> "new"]
  /\ color = [r \in Requests |-> NoColor]
  /\ votes = {}
  /\ raised = {}
  /\ lowered = {}
  /\ comments = {}
  /\ announced = {}
  /\ form = TRUE
  /\ cl = "idle"
  /\ raced = {}
  /\ late = {}
  /\ faults = 0

-----------------------------------------------------------------------------
Goto(r, from, to) ==
  /\ pc[r] = from
  /\ pc' = [pc EXCEPT ![r] = to]

\* A request that begins when the clean-up has listed the form is late.
Begins(r) == late' = IF cl = "idle" THEN late ELSE late \cup {r}

\* InsertBalanceFormVote: GetUserVote finds nothing, or the request is refused ...
CheckVote(r, c) ==
  /\ Begins(r)
  /\ \/ /\ VotesOf(Owner[r]) = {}
        /\ Goto(r, "new", "insert")
        /\ color' = [color EXCEPT ![r] = c]
     \/ /\ VotesOf(Owner[r]) # {}
        /\ Goto(r, "new", "done")
        /\ UNCHANGED color
  /\ UNCHANGED <<formVars, cl, raced, faults>>

\* ... the record is inserted, unless the unique index on form and user has one ...
InsertVote(r) ==
  /\ \/ /\ IndexAdmits(Owner[r])
        /\ Goto(r, "insert", "raise")
        /\ votes' = votes \cup {r}
     \/ /\ ~IndexAdmits(Owner[r])
        /\ Goto(r, "insert", "done")
        /\ UNCHANGED votes
  /\ UNCHANGED <<color, raised, lowered, comments, announced, form, cl, raced, late, faults>>

\* ... and the counter of its color is raised, in a form that is still there.
RaiseCounter(r) ==
  /\ Goto(r, "raise", "done")
  /\ raised' = IF form THEN raised \cup {r} ELSE raised
  /\ UNCHANGED <<color, votes, lowered, comments, announced, form, cl, raced, late, faults>>

\* CancelVote: GetUserVote finds the vote, or there is nothing to cancel ...
FindVote(r) ==
  /\ Begins(r)
  /\ \/ \E v \in VotesOf(Owner[r]) :
          /\ Goto(r, "new", "lower")
          /\ color' = [color EXCEPT ![r] = color[v]]
          /\ raced' = IF Cancelling(Owner[r]) = {} THEN raced ELSE raced \cup {Owner[r]}
     \/ /\ VotesOf(Owner[r]) = {}
        /\ Goto(r, "new", "done")
        /\ UNCHANGED <<color, raced>>
  /\ UNCHANGED <<formVars, cl, faults>>

\* Mutant: the counter of a color of the caller's is lowered, not of the vote's.
LowerAny(r) ==
  /\ Goto(r, "lower", "delete")
  /\ lowered' = IF form THEN lowered \cup {r} ELSE lowered
  /\ \E c \in Colors : color' = [color EXCEPT ![r] = c]
  /\ UNCHANGED <<votes, raised, comments, announced, form, cl, raced, late, faults>>

\* ... the counter of the color found is lowered ...
LowerCounter(r) ==
  /\ Goto(r, "lower", "delete")
  /\ lowered' = IF form THEN lowered \cup {r} ELSE lowered
  /\ UNCHANGED <<color, votes, raised, comments, announced, form, cl, raced, late, faults>>

\* Mutant: the filter of the deletion matches no record.
DeleteNoVote(r) ==
  /\ Goto(r, "delete", "done")
  /\ UNCHANGED <<color, formVars, cl, raced, late, faults>>

\* ... and a record of form and user is deleted, whichever it is by now.
DeleteVote(r) ==
  /\ Goto(r, "delete", "done")
  /\ votes' = votes \ VotesOf(Owner[r])
  /\ UNCHANGED <<color, raised, lowered, comments, announced, form, cl, raced, late, faults>>

\* InsertBalanceFormComment: AddBalanceFormComment asks for no form ...
AddComment(r) ==
  /\ Goto(r, "new", "lookup")
  /\ comments' = comments \cup {r}
  /\ Begins(r)
  /\ UNCHANGED <<color, votes, raised, lowered, announced, form, cl, raced, faults>>

\* ... GetRoomIdByBalanceFormID does, and the comment stays when there is none ...
LookUpRoom(r) ==
  /\ Goto(r, "lookup", IF form THEN "publish" ELSE "done")
  /\ UNCHANGED <<color, formVars, cl, raced, late, faults>>

\* ... and the room is told of the comment.
PublishComment(r) ==
  /\ Goto(r, "publish", "done")
  /\ announced' = announced \cup {r}
  /\ UNCHANGED <<color, votes, raised, lowered, comments, form, cl, raced, late, faults>>

InsertBalanceFormVote(r) ==
  (\E c \in Colors : CheckVote(r, c)) \/ InsertVote(r) \/ RaiseCounter(r)

CancelBalanceFormVote(r) == FindVote(r) \/ LowerCounter(r) \/ DeleteVote(r)

InsertBalanceFormComment(r) == AddComment(r) \/ LookUpRoom(r) \/ PublishComment(r)

Handle(r) ==
  InsertBalanceFormVote(r) \/ CancelBalanceFormVote(r) \/ InsertBalanceFormComment(r)

-----------------------------------------------------------------------------
\* cleanupRoomData: the room is over and its forms are listed ...
ListForms ==
  /\ cl = "idle"
  /\ cl' = "votes"
  /\ late' = late \cup Running
  /\ UNCHANGED <<pc, color, formVars, raced, faults>>

\* A deletion that fails is logged, and the next one follows.
CleanupStep(from, to, deletion, kept) ==
  /\ cl = from
  /\ cl' = to
  /\ \/ deletion /\ UNCHANGED faults
     \/ faults < MaxFaults /\ kept /\ faults' = faults + 1
  /\ UNCHANGED <<pc, color, raised, lowered, announced, raced, late>>

\* Mutant: the forms are deleted first and nobody lists their votes any more.
DeleteFormsFirst ==
  /\ cl = "votes"
  /\ cl' = "done"
  /\ form' = FALSE
  /\ UNCHANGED <<pc, color, votes, raised, lowered, comments, announced, raced, late, faults>>

\* ... the votes of the form are deleted ...
DeleteFormVotes ==
  /\ CleanupStep("votes", "comments", votes' = {}, UNCHANGED votes)
  /\ UNCHANGED <<comments, form>>

\* ... no comment is, because the filter names a field that comments do not have ...
DeleteFormComments ==
  /\ CleanupStep("comments", "forms", TRUE, TRUE)
  /\ UNCHANGED <<votes, comments, form>>

\* ... and the form itself is.
DeleteForms ==
  /\ CleanupStep("forms", "done", form' = FALSE, UNCHANGED form)
  /\ UNCHANGED <<votes, comments>>

CleanupForm == ListForms \/ DeleteFormVotes \/ DeleteFormComments \/ DeleteForms

-----------------------------------------------------------------------------
\* A Mongo call or the publication fails: the request ends with what it has done.
RequestFails(r) ==
  /\ faults < MaxFaults
  /\ r \in Running
  /\ pc' = [pc EXCEPT ![r] = "done"]
  /\ faults' = faults + 1
  /\ UNCHANGED <<color, formVars, cl, raced, late>>

\* The chat service dies: every running request ends, and so does a clean-up,
\* which lives only in a goroutine.
Crash ==
  /\ faults < MaxFaults
  /\ pc' = [r \in Requests |-> IF r \in Running THEN "done" ELSE pc[r]]
  /\ cl' = IF cl \in {"votes", "comments", "forms"} THEN "done" ELSE cl
  /\ faults' = faults + 1
  /\ UNCHANGED <<color, formVars, raced, late>>

Next ==
  \/ \E r \in Requests : Handle(r) \/ RequestFails(r)
  \/ CleanupForm
  \/ Crash

Spec == Init /\ [][Next]_vars

-----------------------------------------------------------------------------
\* Properties.

\* Two votes of one user sent together: only one is recorded, and so only one is
\* counted.  It is the unique index that keeps this, not InsertBalanceFormVote's check.
OneVoteEach == \A v, w \in votes : Owner[v] = Owner[w] => v = w

\* What has been done to a counter and what is recorded, with the requests that are
\* half way: a vote recorded and not yet counted, a cancellation that has lowered the
\* counter and not yet deleted its vote.
InStep(c) ==
  Cardinality(With(c, raised)) + Cardinality(At(c, "raise")) + Cardinality(At(c, "delete"))
  = Cardinality(With(c, votes)) + Cardinality(With(c, lowered))

\* As long as no user has cancelled twice at once, nothing has failed and the room is
\* not being cleaned up, each counter is its color's votes up to the requests in
\* flight, however votes and cancellations of one and of several users interleave.
CountersFollowVotes ==
  raced = {} /\ faults = 0 /\ cl = "idle" => \A c \in Colors : InStep(c)

\* A counter that no request is working on is below zero only after a double
\* cancellation or a fault; while requests run it may be, for a vote that is cancelled
\* before it is counted.
NegativeOnlyByRace ==
  form /\ Running = {} /\ (\E c \in Colors : Counter(c) < 0) => raced # {} \/ faults > 0

\* Nothing of a form that was cleaned up without a fault stays behind, apart from what
\* requests add that run while it is deleted or come later, and from the comments.
VotesLeftAreLate == cl = "done" /\ faults = 0 => ~form /\ votes \subseteq late

\* "deletes all comments for a balance form": those that were there when the clean-up
\* began are gone when it is over.
CommentsDeleted == cl = "done" /\ faults = 0 => comments \subseteq late

-----------------------------------------------------------------------------
\* Refinement: the records of the form implement the box of Ballot.

Box == INSTANCE Ballot WITH
  Papers <- Requests,
  Voters <- Users,
  Voter <- Owner,
  box <- {<<v, color[v]>> : v \in votes},
  spent <- {r \in Requests : pc[r] \notin {"new", "insert"}},
  over <- cl # "idle"

\* However the calls of requests interleave, fail or are cut off, a user's vote keeps
\* the color that he gave it, only his cancellation takes it out, no request records it
\* a second time, and the votes are deleted together and after the room's end.
ImplementsBallot == Box!Spec
=============================================================================
