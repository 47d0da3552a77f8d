------------------------------- MODULE Chats --------------------------------
(***************************************************************************)
(* One chat between a client and a photographer whom an AI assistant       *)
(* stands in for.  api/app/api/v1/chats.py (the first chat, which answers  *)
(* within the request), ai_concierge.py (its successor, which answers      *)
(* through the outbox), and the services chat_concierge.py, ai_concierge.py*)
(* and llm.py.                                                             *)
(*                                                                         *)
(* A request reads the thread, may wait long for the language model and    *)
(* writes at its commit what it decided from what it read; the columns it  *)
(* did not change it does not write.  What messages say, redaction, spam   *)
(* signals and the profile of the lead are left out.                       *)
(***************************************************************************)
EXTENDS Integers, FiniteSets

CONSTANTS
    ChatSessions,  \* requests and dispatchers that may overlap
    ChatMessages,  \* messages of the client
    TokenLimit,    \* llm_max_tokens_per_thread, in replies
    MaxBookings    \* bound of the booking requests made from the chat

ASSUME ChatsAssumption == TokenLimit \in Nat /\ MaxBookings \in Nat

VARIABLES
    thread,    \* chat_thread.status
    used,      \* chat_thread.token_budget_used, in replies
    drafted,   \* booking_request_draft of the context: none, partial or complete
    written,   \* messages of the client that are committed
    dueReply,  \* their ai.reply.generate events that are pending
    replies,   \* AI replies to each message
    handoffs,  \* whether a chat_handoff row was ever written
    bookings,  \* booking requests made from the chat
    aiOn,      \* the feature flags and the photographer's AI profile
    chatting   \* what each session has read

chatVars == <<thread, used, drafted, written, dueReply, replies, handoffs, bookings, aiOn, chatting>>

\* The rows of the tables, as far as they are told apart.
ChatThreadStatus == {"open", "pro_takeover", "pro_active", "closed"}
ChatThread == [status : ChatThreadStatus \cup {"none"}, token_budget_used : 0..TokenLimit]
ChatMessage == SUBSET ChatMessages
AIInteractionLog == [ChatMessages -> Nat]

NotChatting == [op |-> "idle", messages |-> {}, seen |-> "none", used |-> 0]

ChatIdle(s) == chatting[s].op = "idle"

\* The commit writes the status only if it differs from the one that was read.
NewStatus(s, status) == IF chatting[s].seen = status THEN thread ELSE status

Reads(s, op, S) ==
    /\ ChatIdle(s) /\ thread # "none"
    /\ chatting' = [chatting EXCEPT ![s] = [op |-> op, messages |-> S, seen |-> thread, used |-> used]]
    /\ UNCHANGED <<thread, used, drafted, written, dueReply, replies, handoffs, bookings, aiOn>>

Done(s) == chatting' = [chatting EXCEPT ![s] = NotChatting]

\* No message is given to two sessions.
Unwritten == ChatMessages \ (written \cup UNION {chatting[s].messages : s \in ChatSessions})

----------------------------------------------------------------------------
\* create_chat_thread, create_chat_thread_v1
OpenThread ==
    /\ thread = "none"
    /\ thread' = "open"
    /\ UNCHANGED <<used, drafted, written, dueReply, replies, handoffs, bookings, aiOn, chatting>>

SwitchAi ==
    /\ aiOn' = ~aiOn
    /\ UNCHANGED <<thread, used, drafted, written, dueReply, replies, handoffs, bookings, chatting>>

----------------------------------------------------------------------------
(* The first chat *)

\* append_chat_message of the client: a closed thread takes no message
BeginAppend(s, m) == thread # "closed" /\ m \in Unwritten /\ Reads(s, "append", {m})

\* The thread was not open: nobody answers.
CommitAppend(s) ==
    /\ chatting[s].op = "append" /\ chatting[s].seen # "open"
    /\ written' = written \cup chatting[s].messages
    /\ Done(s)
    /\ UNCHANGED <<thread, used, drafted, dueReply, replies, handoffs, bookings, aiOn>>

Answered(S) == [m \in ChatMessages |-> IF m \in S THEN replies[m] + 1 ELSE replies[m]]

\* _maybe_generate_ai_reply answers, and may note a booking draft
CommitAnswer(s, draft) ==
    /\ chatting[s].op = "append" /\ chatting[s].seen = "open"
    /\ aiOn /\ chatting[s].used + 1 <= TokenLimit
    /\ written' = written \cup chatting[s].messages
    /\ replies' = Answered(chatting[s].messages)
    /\ used' = chatting[s].used + 1
    /\ drafted' = IF draft THEN "complete" ELSE drafted
    /\ Done(s)
    /\ UNCHANGED <<thread, dueReply, handoffs, bookings, aiOn>>

\* _handoff_due_to_limit: the assistant says that the photographer takes over
CommitHandoff(s) ==
    /\ chatting[s].op = "append" /\ chatting[s].seen = "open"
    /\ ~aiOn \/ chatting[s].used + 1 > TokenLimit
    /\ written' = written \cup chatting[s].messages
    /\ replies' = Answered(chatting[s].messages)
    /\ thread' = "pro_takeover"
    /\ handoffs' = TRUE
    /\ Done(s)
    /\ UNCHANGED <<used, drafted, dueReply, bookings, aiOn>>

----------------------------------------------------------------------------
(* The chat through the outbox *)

\* post_chat_message_v1 of the client
BeginPost(s, m) == thread # "closed" /\ m \in Unwritten /\ Reads(s, "post", {m})

\* _should_auto_ai_reply: an event for each message to a thread read as open
CommitPost(s) ==
    /\ chatting[s].op = "post"
    /\ written' = written \cup chatting[s].messages
    /\ dueReply' = IF chatting[s].seen = "open" /\ aiOn THEN dueReply \cup chatting[s].messages
                   ELSE dueReply
    /\ Done(s)
    /\ UNCHANGED <<thread, used, drafted, replies, handoffs, bookings, aiOn>>

ClaimedRepliesMutNotSkipped == {}
\* The events a dispatcher has locked: another one skips them.
ClaimedReplies ==
    UNION {chatting[s].messages : s \in {d \in ChatSessions : chatting[d].op = "dispatch"}}

\* dispatch_outbox_events_task claims a batch and generates the replies.
BeginReply(s) ==
    \E S \in SUBSET (dueReply \ ClaimedReplies) \ {{}} : Reads(s, "dispatch", S)

\* generate_ai_reply_for_thread answers if the thread was open when it was read
\* and notes a draft, whole only if the model called the booking tool.
CommitReply(s, draft) ==
    /\ chatting[s].op = "dispatch"
    /\ replies' = IF chatting[s].seen = "open" THEN Answered(chatting[s].messages) ELSE replies
    /\ dueReply' = dueReply \ chatting[s].messages
    /\ drafted' \in {drafted, draft}
    /\ Done(s)
    /\ UNCHANGED <<thread, used, written, handoffs, bookings, aiOn>>

\* A request or a dispatcher dies: nothing is kept, its events stay pending.
AbortChat(s) ==
    /\ ~ChatIdle(s) /\ Done(s)
    /\ UNCHANGED <<thread, used, drafted, written, dueReply, replies, handoffs, bookings, aiOn>>

\* ai_draft_for_pro keeps the booking draft of a reply that is not sent.
DraftForPro(draft) ==
    /\ thread # "none"
    /\ drafted' = draft
    /\ UNCHANGED <<thread, used, written, dueReply, replies, handoffs, bookings, aiOn, chatting>>

----------------------------------------------------------------------------
(* The photographer, and what comes of it *)

\* pro_takeover, and a message of the photographer, read the thread: a closed
\* one is taken over as well, and post_pro_message reopens it.
BeginPro(s, op) == op \in {"pro_takeover", "pro_active"} /\ Reads(s, op, {})

CommitPro(s) ==
    /\ chatting[s].op \in {"pro_takeover", "pro_active"}
    /\ thread' = NewStatus(s, chatting[s].op)
    /\ handoffs' = (handoffs \/ (chatting[s].op = "pro_takeover" /\ chatting[s].seen # "pro_takeover"))
    /\ Done(s)
    /\ UNCHANGED <<used, drafted, written, dueReply, replies, bookings, aiOn>>

\* close_chat, by either
CloseThread ==
    /\ thread # "none"
    /\ thread' = "closed"
    /\ UNCHANGED <<used, drafted, written, dueReply, replies, handoffs, bookings, aiOn, chatting>>

\* create_booking_request_from_chat: once for each time it is asked
NewBookingRequest == bookings < MaxBookings /\ bookings' = bookings + 1
BookFromDraft ==
    /\ drafted = "complete" /\ NewBookingRequest
    /\ UNCHANGED <<thread, used, drafted, written, dueReply, replies, handoffs, aiOn, chatting>>

----------------------------------------------------------------------------
ChatsInit ==
    /\ thread = "none" /\ used = 0 /\ drafted = "none"
    /\ written = {} /\ dueReply = {} /\ replies = [m \in ChatMessages |-> 0]
    /\ handoffs = FALSE /\ bookings = 0 /\ aiOn = TRUE
    /\ chatting = [s \in ChatSessions |-> NotChatting]

ChatsNext ==
    \/ OpenThread \/ SwitchAi \/ CloseThread \/ BookFromDraft
    \/ \E draft \in {"partial", "complete"} : DraftForPro(draft)
    \/ \E s \in ChatSessions :
          \/ \E m \in ChatMessages : BeginAppend(s, m) \/ BeginPost(s, m)
          \/ CommitAppend(s) \/ CommitHandoff(s) \/ CommitPost(s)
          \/ \E draft \in BOOLEAN : CommitAnswer(s, draft)
          \/ BeginReply(s)
          \/ \E draft \in {"partial", "complete"} : CommitReply(s, draft)
          \/ \E op \in {"pro_takeover", "pro_active"} : BeginPro(s, op)
          \/ CommitPro(s) \/ AbortChat(s)

ChatsSpec == ChatsInit /\ [][ChatsNext]_chatVars
----------------------------------------------------------------------------
ChatsTypeOK ==
    /\ [status |-> thread, token_budget_used |-> used] \in ChatThread
    /\ bookings \in 0..MaxBookings
    /\ drafted \in {"none", "partial", "complete"}
    /\ written \in ChatMessage /\ dueReply \subseteq ChatMessages
    /\ replies \in AIInteractionLog
    /\ handoffs \in BOOLEAN /\ aiOn \in BOOLEAN
    /\ \A s \in ChatSessions : chatting[s].messages \subseteq ChatMessages

\* The assistant answers a message of the client once at most, and none that
\* was not committed, though a dispatcher may die after it has waited for the
\* model, another may run beside it, and the thread may be taken over, closed
\* and reopened while they wait.
AnsweredOnce ==
    \A m \in ChatMessages : replies[m] <= (IF m \in written THEN 1 ELSE 0)
=============================================================================
