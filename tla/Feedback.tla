------------------------------ MODULE Feedback ------------------------------
(***************************************************************************)
(* Messages to the maintainers (modules/module/botmanage/feedback.h,       *)
(* feedback_recorder.h).  A message is inserted into the table Feedbacks,  *)
(* whose key counts up, and the user is told the number that MAX finds     *)
(* then, in a statement of its own; the maintainers answer to a number.    *)
(*                                                                         *)
(* The insertion fails, and RecordFeedBack's false is ignored, when the    *)
(* database is away and for every user whose number is beyond the column's *)
(* INT.  GetFeedback reads the row through a reference to what the select  *)
(* returned after that is gone; the model takes the row for what it was.   *)
(***************************************************************************)
EXTENDS Integers, Sequences

CONSTANTS
    Authors,     \* user numbers, not 0
    MaxInt,      \* the greatest number the column UID takes
    Rooms,       \* group numbers; 0: a private message
    Senders,     \* coroutines that run Send
    MaxFeedbacks, MaxRefusals \* bounds

VARIABLES
    feedbacks,   \* the table: feedbackID -> [uid, gid]
    sending,     \* of a coroutine: "idle", "named", "recorded"
    author, room,
    refusals,
    \* history
    own,         \* the number a coroutine's insertion got, 0: it was refused
    overtaken,   \* coroutines between whose statements another insertion came
    confirmed,   \* the number just told, and by whom: [sender, id]
    reply        \* where the reply just given went: [kind, to, id]

feedbackVars == <<feedbacks, sending, author, room, refusals, own, overtaken, confirmed, reply>>

Untold == [sender |-> "none", id |-> 0]
NoReply == [kind |-> "none", to |-> 0, id |-> 0]
Unheard == confirmed' = Untold /\ reply' = NoReply

GetLastID == Len(feedbacks)

-----------------------------------------------------------------------------
(***************************************************************************)
(* Send                                                                    *)
(***************************************************************************)
\* An empty text is answered at once.  In a group its name is asked for first.
Send(s, u, g) ==
    /\ sending[s] = "idle" /\ sending' = [sending EXCEPT ![s] = "named"]
    /\ author' = [author EXCEPT ![s] = u] /\ room' = [room EXCEPT ![s] = g]
    /\ Unheard /\ UNCHANGED <<feedbacks, refusals, own, overtaken>>

\* Mutant: the statement is prepared and never run.
RecordFeedBack_Lost(s) ==
    /\ sending[s] = "named" /\ sending' = [sending EXCEPT ![s] = "recorded"]
    /\ own' = [own EXCEPT ![s] = Len(feedbacks) + 1] /\ overtaken' = overtaken \ {s}
    /\ Unheard /\ UNCHANGED <<feedbacks, refusals, author, room>>

RecordFeedBack(s) ==
    /\ sending[s] = "named" /\ sending' = [sending EXCEPT ![s] = "recorded"]
    /\ Unheard /\ UNCHANGED <<author, room>>
    /\ \/ /\ author[s] <= MaxInt /\ Len(feedbacks) < MaxFeedbacks
          /\ feedbacks' = Append(feedbacks, [uid |-> author[s], gid |-> room[s]])
          /\ own' = [own EXCEPT ![s] = Len(feedbacks) + 1]
          /\ overtaken' = {i \in Senders \ {s} : i \in overtaken \/ sending[i] = "recorded"}
          /\ UNCHANGED refusals
       \/ /\ \/ author[s] > MaxInt /\ UNCHANGED refusals
             \/ refusals < MaxRefusals /\ refusals' = refusals + 1
          /\ own' = [own EXCEPT ![s] = 0] /\ overtaken' = overtaken \ {s}
          /\ UNCHANGED feedbacks

\* GetLastID, the private messages to the maintainers, and the user's answer; when the
\* question fails, its exception ends the handler without one.
Confirm(s) ==
    /\ sending[s] = "recorded" /\ sending' = [sending EXCEPT ![s] = "idle"]
    /\ \/ confirmed' = [sender |-> s, id |-> GetLastID] /\ UNCHANGED refusals
       \/ confirmed' = Untold /\ refusals < MaxRefusals /\ refusals' = refusals + 1
    /\ reply' = NoReply
    /\ UNCHANGED <<feedbacks, author, room, own, overtaken>>

-----------------------------------------------------------------------------
\* GetFeedback's list is time, content, GID, UID; Reply takes the fourth for the group
\* and the third for the user.  Without a row the numbers are 0: the list is not empty,
\* and the reply goes to the user 0.
Reply(id) ==
    LET row == IF id \in DOMAIN feedbacks THEN feedbacks[id] ELSE [uid |-> 0, gid |-> 0]
    IN  /\ reply' = IF row.uid # 0 THEN [kind |-> "group", to |-> row.uid, id |-> id]
                                   ELSE [kind |-> "user", to |-> row.gid, id |-> id]
        /\ confirmed' = Untold
        /\ UNCHANGED <<feedbacks, sending, author, room, refusals, own, overtaken>>

FeedbackInit ==
    /\ feedbacks = <<>> /\ sending = [s \in Senders |-> "idle"]
    /\ author = [s \in Senders |-> 0] /\ room = author /\ own = author
    /\ refusals = 0 /\ overtaken = {} /\ confirmed = Untold /\ reply = NoReply

FeedbackNext ==
    \/ \E s \in Senders : \/ RecordFeedBack(s) \/ Confirm(s)
                          \/ \E u \in Authors, g \in Rooms : Send(s, u, g)
    \/ \E id \in 1 .. MaxFeedbacks + 1 : Reply(id)

FeedbackSpec == FeedbackInit /\ [][FeedbackNext]_feedbackVars

-----------------------------------------------------------------------------
(***************************************************************************)
(* Properties                                                              *)
(***************************************************************************)

\* The number a user is told is that of his own message, under his name, unless the
\* insertion was refused or another came between it and the question for its number.
OwnNumber ==
    LET s == confirmed.sender
    IN  confirmed # Untold /\ own[s] # 0 /\ s \notin overtaken
        => /\ confirmed.id = own[s]
           /\ confirmed.id \in DOMAIN feedbacks /\ feedbacks[confirmed.id].uid = author[s]
=============================================================================
