------------------------ MODULE AssistantPageProofs ------------------------
(***************************************************************************)
(* That an answer stays with its question, that at most one call runs and  *)
(* can be stopped, and that a stopped answer stays as it is, for any       *)
(* number of questions, chunks and conversations.  What makes it so: the   *)
(* one call that runs owns the last message, which is the only one that    *)
(* loads or streams.  That the screen follows the data rests on Vue's      *)
(* queue alone, and holds in every browser, as does that a question which  *)
(* loads has a call under way.                                             *)
(***************************************************************************)
EXTENDS AssistantPage, TLAPS

\* stopResponse has aborted a call whose AbortError is yet to be caught.
Aborting == resume # <<>> /\ resume[2] = "abort"

Flagged(m) == m.isLoading \/ m.isStreaming

\* Nobody speaks of a call that was not sent.
SentInv ==
    /\ \A i \in DOMAIN messages : messages[i].call # None => call[messages[i].call] # Unsent
    /\ \A c \in stopped : call[c] # Unsent
    /\ controller # None => call[controller] # Unsent

ControlInv ==
    /\ Aborting => controller = None /\ \A c \in Calls : Active(c) <=> c = resume[1]
    /\ ~Aborting => /\ \A c \in Calls : Active(c) <=> controller = c
                    /\ resume # <<>> => resume[1] = controller
    /\ isLoading <=> controller # None
    /\ \A i \in DOMAIN messages : Flagged(messages[i]) => i = Last /\ controller # None

\* The call that runs owns the last message.
PlaceInv ==
    controller # None =>
       /\ messages[Last].call = controller
       /\ call[controller].pc \in {"read", "text"} => call[controller].at = Last

AnswerInv ==
    \A i \in DOMAIN messages :
       /\ messages[i].content.by \in {None, messages[i].call}
       /\ messages[i].call # None => SessionOf(messages[i].call) = sessionId

StopInv == \A c \in stopped : Active(c) => Aborting

\* A promise that was settled is the one its call awaits.
AwaitInv ==
    \A c \in Calls :
       /\ resume = <<c, "chunk">> => call[c].pc = "read" /\ call[c].got < MaxChunks
       /\ resume = <<c, "done">> => call[c].pc = "read"
       /\ resume = <<c, "text">> => call[c].pc = "text"

PageInv == abortable => ControlInv /\ PlaceInv /\ AnswerInv /\ StopInv
IInv == TypeOK /\ SentInv /\ PageInv

-----------------------------------------------------------------------------
(* Calls, contents and messages.                                            *)

LEMMA Bounds ==
    /\ NumCalls \in Nat /\ MaxChunks \in Nat /\ MaxChunks # 0 /\ MaxSessions \in Nat
    /\ MaxSessions # 0 /\ None = 0 /\ Calls \subseteq Nat /\ None \notin Calls
BY CallsType, BoundsType DEF None, Calls

LEMMA ContentType == ASSUME NEW c \in Calls, NEW n \in 0..MaxChunks + 1
                     PROVE  /\ [by |-> c, upto |-> n] \in Contents /\ [by |-> c, upto |-> n].by = c
                            /\ Empty \in Contents /\ Empty.by = None
BY Bounds DEF Contents, Failed, Empty

LEMMA MessageFields ==
    ASSUME NEW m \in Messages
    PROVE  /\ m.role \in Roles /\ m.call \in Calls \cup {None} /\ m.content \in Contents
           /\ m.isLoading \in BOOLEAN /\ m.isStreaming \in BOOLEAN
BY DEF Messages

LEMMA WithContent ==
    ASSUME NEW m \in Messages, NEW content \in Contents
    PROVE  \E n \in Messages :
              /\ n = [m EXCEPT !.content = content]
              /\ n.call = m.call /\ n.content = content
              /\ n.isLoading = m.isLoading /\ n.isStreaming = m.isStreaming
<1>1. [m EXCEPT !.content = content] \in Messages
  BY DEF Messages
<1> QED
  BY <1>1 DEF Messages

LEMMA WithFlags ==
    ASSUME NEW m \in Messages, NEW streams \in BOOLEAN
    PROVE  \E n \in Messages :
              /\ n = [m EXCEPT !.isLoading = FALSE, !.isStreaming = streams]
              /\ n.call = m.call /\ n.content = m.content
              /\ n.isLoading = FALSE /\ n.isStreaming = streams
<1>1. [m EXCEPT !.isLoading = FALSE, !.isStreaming = streams] \in Messages
  BY DEF Messages
<1> QED
  BY <1>1 DEF Messages

LEMMA StreamEnds ==
    ASSUME NEW m \in Messages
    PROVE  \E n \in Messages :
              /\ n = [m EXCEPT !.isStreaming = FALSE]
              /\ n.call = m.call /\ n.content = m.content
              /\ n.isLoading = m.isLoading /\ n.isStreaming = FALSE
<1>1. [m EXCEPT !.isStreaming = FALSE] \in Messages
  BY DEF Messages
<1> QED
  BY <1>1 DEF Messages

\* A list in which one message was replaced.
LEMMA Replaced ==
    ASSUME NEW list \in Seq(Messages), NEW i \in 1..Len(list), NEW m \in Messages
    PROVE  \E other \in Seq(Messages) :
              /\ other = [list EXCEPT ![i] = m]
              /\ Len(other) = Len(list) /\ other[i] = m
              /\ \A j \in 1..Len(list) : j # i => other[j] = list[j]
<1> DEFINE other == [list EXCEPT ![i] = m]
<1>1. other \in Seq(Messages)
  OBVIOUS
<1>2. Len(other) = Len(list) /\ other[i] = m
  OBVIOUS
<1>3. \A j \in 1..Len(list) : j # i => other[j] = list[j]
  OBVIOUS
<1> QED
  BY <1>1, <1>2, <1>3

\* stopResponse and finally change nothing but the flags of the last message.
LEMMA Cleared ==
    ASSUME NEW list \in Seq(Messages), list # <<>>
    PROVE  \E other \in Seq(Messages) :
              /\ other = ClearFlags(list) /\ Len(other) = Len(list) /\ other # <<>>
              /\ \A j \in 1..Len(list) :
                    other[j].call = list[j].call /\ other[j].content = list[j].content
              /\ \A j \in 1..Len(list) : j # Len(list) => other[j] = list[j]
              /\ ~Flagged(other[Len(list)])
<1> DEFINE last == Len(list)
<1>1. last \in 1..Len(list) /\ list[last] \in Messages
  OBVIOUS
<1>2. PICK m \in Messages :
             /\ m = [list[last] EXCEPT !.isLoading = FALSE, !.isStreaming = FALSE]
             /\ m.call = list[last].call /\ m.content = list[last].content
             /\ m.isLoading = FALSE /\ m.isStreaming = FALSE
  BY <1>1, WithFlags
<1>3. PICK other \in Seq(Messages) :
             /\ other = [list EXCEPT ![last] = m]
             /\ Len(other) = Len(list) /\ other[last] = m
             /\ \A j \in 1..Len(list) : j # last => other[j] = list[j]
  BY <1>1, Replaced
<1>4. other = ClearFlags(list)
  BY <1>1, <1>2, <1>3 DEF ClearFlags
<1>5. \A j \in 1..Len(list) :
         other[j].call = list[j].call /\ other[j].content = list[j].content
  BY <1>2, <1>3
<1>6. other # <<>> /\ ~Flagged(other[last])
  BY <1>1, <1>2, <1>3 DEF Flagged
<1> QED
  BY <1>3, <1>4, <1>5, <1>6

-----------------------------------------------------------------------------
(* The scheduler.                                                           *)

LEMMA SchedulerFields ==
    ASSUME NEW v \in Schedulers
    PROVE  /\ v.callbacks \in Seq(Callbacks) /\ v.copies \in Seq(Callbacks)
           /\ v.pending \in {"none", "microtask", "task"} /\ v.queue \in SUBSET Watchers
BY DEF Schedulers

LEMMA NextTickType ==
    ASSUME NEW v \in Schedulers, NEW callback \in Callbacks, NEW inHandler \in BOOLEAN
    PROVE  NextTick(v, callback, inHandler) \in Schedulers
<1>1. /\ Append(v.callbacks, callback) \in Seq(Callbacks)
      /\ (IF v.pending # "none" THEN v.pending ELSE IF inHandler THEN "task" ELSE "microtask")
            \in {"none", "microtask", "task"}
  BY SchedulerFields
<1> QED
  BY <1>1 DEF NextTick, Schedulers

LEMMA QueuedType ==
    ASSUME NEW v \in Schedulers, NEW watchers \in SUBSET Watchers
    PROVE  [v EXCEPT !.queue = @ \cup watchers] \in Schedulers
BY DEF Schedulers

LEMMA NotifyType ==
    ASSUME NEW v \in Schedulers, NEW watchers \in SUBSET Watchers, NEW inHandler \in BOOLEAN
    PROVE  Notify(v, watchers, inHandler) \in Schedulers
BY QueuedType, NextTickType, FlushIsACallback DEF Notify

LEMMA FlushCallbacksType ==
    ASSUME NEW v \in Schedulers PROVE FlushCallbacks(v) \in Schedulers
<1>1. v.callbacks \in Seq(Callbacks) /\ <<>> \in Seq(Callbacks)
  BY SchedulerFields
<1> QED
  BY <1>1 DEF FlushCallbacks, Schedulers

LEMMA CalledType ==
    ASSUME NEW v \in Schedulers, v.copies # <<>>
    PROVE  Called(v) \in Schedulers /\ Flushed(v) \in Schedulers
<1>1. Tail(v.copies) \in Seq(Callbacks)
  BY SchedulerFields
<1>2. Called(v) \in Schedulers
  BY <1>1 DEF Called, Schedulers
<1> QED
  BY <1>2 DEF Flushed, Schedulers

LEMMA OurCallbacks ==
    /\ "flush" \in Callbacks /\ "scroll" \in Callbacks /\ "scrollToBottom" \in Callbacks
    /\ Affected \in SUBSET Watchers
BY PageParts DEF Affected

\* Every handler and microtask ends with a notification and perhaps a scroll.
LEMMA HandlersType ==
    ASSUME vue \in Schedulers, NEW watchers \in SUBSET Watchers, NEW inHandler \in BOOLEAN,
           NEW callback \in Callbacks
    PROVE  /\ Notify(vue, watchers, inHandler) \in Schedulers
           /\ NextTick(Notify(vue, watchers, inHandler), callback, inHandler) \in Schedulers
BY NotifyType, NextTickType

-----------------------------------------------------------------------------
(* The steps that leave the data alone.                                     *)

LEMMA Unchanged ==
    ASSUME IInv, UNCHANGED <<data, call, resume, stopped, abortable>>
    PROVE  SentInv' /\ PageInv'
<1>1. UNCHANGED <<messages, userInput, isLoading, controller, sessionId>>
  BY DEF data
<1>2. SentInv'
  BY <1>1 DEF IInv, SentInv
<1>3. ControlInv => ControlInv'
  BY <1>1 DEF ControlInv, Aborting, Active, Last
<1>4. PlaceInv => PlaceInv'
  BY <1>1 DEF PlaceInv, Last
<1>5. AnswerInv => AnswerInv'
  BY <1>1 DEF AnswerInv, SessionOf
<1>6. StopInv => StopInv'
  BY <1>1 DEF StopInv, Aborting, Active
<1> QED
  BY <1>2, <1>3, <1>4, <1>5, <1>6 DEF IInv, PageInv

LEMMA RunVueKeeps == ASSUME IInv, RunVue PROVE IInv'
<1>1. /\ UNCHANGED <<data, call, resume, stopped, browser>>
      /\ UNCHANGED <<messages, userInput, isLoading, controller, sessionId, open, abortable,
                     streaming>>
  BY DEF RunVue, FlushTimer, FlushSchedulerQueue, ScrollToBottom, Scroll, data, browser
<1>2. vue \in Schedulers /\ scrolled \in BOOLEAN
  BY DEF IInv, TypeOK
<1>3. vue' \in Schedulers
  <2>1. CASE FlushTimer
    BY <1>2, <2>1, FlushCallbacksType DEF FlushTimer
  <2>2. CASE FlushSchedulerQueue
    BY <1>2, <2>2, CalledType, NextTickType, OurCallbacks DEF FlushSchedulerQueue, Calling
  <2>3. CASE ScrollToBottom
    BY <1>2, <2>3, CalledType, NextTickType, OurCallbacks DEF ScrollToBottom, Calling
  <2>4. CASE Scroll
    BY <1>2, <2>4, CalledType DEF Scroll, Calling
  <2> QED
    BY <2>1, <2>2, <2>3, <2>4 DEF RunVue
<1>4. scrolled' \in BOOLEAN
  BY <1>2 DEF RunVue, FlushTimer, FlushSchedulerQueue, ScrollToBottom, Scroll
<1>5. TypeOK'
  BY <1>1, <1>3, <1>4 DEF IInv, TypeOK
<1> QED
  BY <1>1, <1>5, Unchanged DEF IInv

LEMMA NetworkKeeps == ASSUME IInv, NEW c \in Calls, Network(c) PROVE IInv'
<1>1. PICK result \in Results \ {"abort"} : Settle(c, result) /\ Active(c)
  BY DEF Network, Respond, Stream, DeliverText, Active, Results
<1>2. /\ resume = <<>> /\ resume' = <<c, result>> /\ resume' # <<>>
      /\ UNCHANGED <<data, call, vue, scrolled, browser, stopped>>
      /\ UNCHANGED <<messages, userInput, isLoading, controller, sessionId, open, abortable,
                     streaming>>
  BY <1>1 DEF Settle, Idle, data, browser
<1>3. ~Aborting /\ ~Aborting'
  BY <1>1, <1>2 DEF Aborting
<1>4. TypeOK'
  BY <1>1, <1>2 DEF IInv, TypeOK
<1>5. SentInv'
  BY <1>2 DEF IInv, SentInv
<1>6. ControlInv => ControlInv'
  BY <1>1, <1>2, <1>3 DEF ControlInv, Active, Last
<1>7. PlaceInv => PlaceInv'
  BY <1>2 DEF PlaceInv, Last
<1>8. AnswerInv => AnswerInv'
  BY <1>2 DEF AnswerInv, SessionOf
<1>9. StopInv => StopInv'
  BY <1>2, <1>3 DEF StopInv, Active
<1> QED
  BY <1>2, <1>4, <1>5, <1>6, <1>7, <1>8, <1>9 DEF IInv, PageInv

LEMMA TypeKeeps == ASSUME IInv, Type PROVE IInv'
<1>1. /\ UNCHANGED <<messages, isLoading, controller, sessionId, call, resume, scrolled, open,
                     abortable, streaming, stopped>>
      /\ userInput' \in BOOLEAN
  BY DEF Type, browser, IInv, TypeOK
<1>2. vue' \in Schedulers
  BY OurCallbacks, HandlersType DEF Type, IInv, TypeOK
<1>3. TypeOK'
  BY <1>1, <1>2 DEF IInv, TypeOK
<1>4. SentInv'
  BY <1>1 DEF IInv, SentInv
<1>5. ControlInv => ControlInv'
  BY <1>1 DEF ControlInv, Aborting, Active, Last
<1>6. (PlaceInv => PlaceInv') /\ (AnswerInv => AnswerInv') /\ (StopInv => StopInv')
  BY <1>1 DEF PlaceInv, Last, AnswerInv, SessionOf, StopInv, Aborting, Active
<1> QED
  BY <1>1, <1>3, <1>4, <1>5, <1>6 DEF IInv, PageInv

-----------------------------------------------------------------------------
(* The user's steps.                                                        *)

LEMMA Facts ==
    ASSUME IInv
    PROVE  /\ messages \in Seq(Messages) /\ messages # <<>> /\ Last \in 1..Len(messages)
           /\ Last \in Nat /\ DOMAIN messages = 1..Last
           /\ call \in [Calls -> CallStates] /\ controller \in Calls \cup {None}
           /\ sessionId \in 1..MaxSessions /\ vue \in Schedulers /\ stopped \subseteq Calls
           /\ isLoading \in BOOLEAN /\ scrolled \in BOOLEAN /\ userInput \in BOOLEAN
           /\ open \in BOOLEAN /\ abortable \in BOOLEAN /\ streaming \in BOOLEAN
           /\ resume = <<>> \/ resume \in Calls \X Results
BY DEF IInv, TypeOK, Last

\* What abort() leaves, whatever becomes of the messages.
LEMMA AbortKeeps ==
    ASSUME IInv, resume = <<>>, Abort, UNCHANGED <<call, abortable>>,
           abortable => \A i \in DOMAIN messages' : ~Flagged(messages'[i])
    PROVE  /\ abortable => ControlInv' /\ PlaceInv' /\ StopInv'
           /\ resume' = <<>> \/ resume' \in Calls \X Results
           /\ controller' = None /\ isLoading' = FALSE /\ stopped' \subseteq Calls
           /\ \A c \in stopped' : call'[c] # Unsent
<1>1. /\ controller' = None /\ isLoading' = FALSE /\ ~Aborting
      /\ stopped' = stopped \cup {c \in Calls : c = controller}
      /\ resume' = IF controller # None THEN <<controller, "abort">> ELSE <<>>
  BY DEF Abort, Aborting
<1>2. Aborting' <=> controller # None
  BY <1>1 DEF Aborting
<1>3. resume' # <<>> => resume'[1] = controller
  BY <1>1
<1>4. ASSUME abortable PROVE ControlInv'
  <2>1. \A c \in Calls : Active(c) <=> controller = c
    BY <1>1, <1>4 DEF IInv, PageInv, ControlInv
  <2>2. \A c \in Calls : Active(c)' <=> Active(c)
    BY DEF Active
  <2> QED
    BY <1>1, <1>2, <1>3, <1>4, <2>1, <2>2, Bounds DEF ControlInv, Flagged
<1>5. ASSUME abortable PROVE PlaceInv' /\ StopInv'
  <2>1. \A c \in Calls : Active(c)' => controller = c
    BY <1>1, <1>5 DEF IInv, PageInv, ControlInv, Active
  <2>2. stopped' \subseteq Calls /\ None \notin Calls
    BY <1>1, Facts, Bounds
  <2> QED
    BY <1>1, <1>2, <2>1, <2>2 DEF PlaceInv, StopInv
<1>6. stopped' \subseteq Calls /\ \A c \in stopped' : call'[c] # Unsent
  BY <1>1, Facts, Bounds DEF IInv, SentInv
<1> QED
  BY <1>1, <1>4, <1>5, <1>6, Facts DEF Results

LEMMA StopResponseKeeps ==
    ASSUME IInv, resume = <<>>, StopResponse, open' \in BOOLEAN, UNCHANGED <<abortable, streaming>>
    PROVE  IInv'
<1>1. PICK list \in Seq(Messages) :
             /\ list = ClearFlags(messages) /\ Len(list) = Len(messages) /\ list # <<>>
             /\ \A j \in 1..Len(messages) :
                   list[j].call = messages[j].call /\ list[j].content = messages[j].content
             /\ \A j \in 1..Len(messages) : j # Len(messages) => list[j] = messages[j]
             /\ ~Flagged(list[Len(messages)])
  BY Facts, Cleared
<1>2. /\ messages' = list /\ Abort
      /\ UNCHANGED <<userInput, sessionId, call, scrolled>>
      /\ vue' = Notify(vue, Affected, TRUE)
  BY <1>1 DEF StopResponse
<1>3. DOMAIN messages = 1..Len(messages) /\ DOMAIN messages' = 1..Len(messages)
      /\ Len(messages) \in Nat
  BY <1>1, <1>2, Facts
<1>4. ASSUME abortable, NEW i \in DOMAIN messages' PROVE ~Flagged(messages'[i])
  BY <1>1, <1>2, <1>3, <1>4 DEF IInv, PageInv, ControlInv, Aborting, Last
<1>5. /\ abortable => ControlInv' /\ PlaceInv' /\ StopInv'
      /\ resume' = <<>> \/ resume' \in Calls \X Results
      /\ controller' = None /\ isLoading' = FALSE /\ stopped' \subseteq Calls
      /\ \A c \in stopped' : call'[c] # Unsent
  BY <1>2, <1>4, AbortKeeps
<1>6. SentInv'
  BY <1>1, <1>2, <1>3, <1>5 DEF IInv, SentInv
<1>7. abortable => AnswerInv'
  BY <1>1, <1>2, <1>3 DEF IInv, PageInv, AnswerInv, SessionOf
<1>8. vue' \in Schedulers
  BY <1>2, Facts, OurCallbacks, HandlersType
<1>9. TypeOK'
  BY <1>1, <1>2, <1>5, <1>8, Facts DEF TypeOK
<1> QED
  BY <1>5, <1>6, <1>7, <1>9 DEF IInv, PageInv

LEMMA StartNewConversationKeeps == ASSUME IInv, StartNewConversation PROVE IInv'
<1>1. /\ resume = <<>> /\ Abort /\ messages' = <<Greeting>>
      /\ sessionId' = sessionId + 1 /\ sessionId < MaxSessions
      /\ UNCHANGED <<userInput, call, scrolled, open, abortable, streaming>>
      /\ vue' = NextTick(Notify(vue, Watchers, TRUE), "scrollToBottom", TRUE)
  BY DEF StartNewConversation, Idle, browser
<1>2. PICK m \in Messages :
             /\ m = Greeting /\ m.call = None /\ m.content = Empty
             /\ m.isLoading = FALSE /\ m.isStreaming = FALSE
  <2>1. Empty \in Contents /\ "assistant" \in Roles
    BY Bounds DEF Roles, Contents, Empty, Failed
  <2>2. /\ Greeting \in Messages /\ Greeting.call = None /\ Greeting.content = Empty
        /\ Greeting.isLoading = FALSE /\ Greeting.isStreaming = FALSE
    BY <2>1 DEF Greeting, Message, Messages
  <2> QED
    BY <2>2
<1>3. /\ messages' \in Seq(Messages) /\ messages' # <<>> /\ DOMAIN messages' = 1..1
      /\ messages'[1] = m
  BY <1>1, <1>2
<1>4. ASSUME abortable, NEW i \in DOMAIN messages' PROVE ~Flagged(messages'[i])
  BY <1>2, <1>3 DEF Flagged
<1>5. /\ abortable => ControlInv' /\ PlaceInv' /\ StopInv'
      /\ resume' = <<>> \/ resume' \in Calls \X Results
      /\ controller' = None /\ isLoading' = FALSE /\ stopped' \subseteq Calls
      /\ \A c \in stopped' : call'[c] # Unsent
  BY <1>1, <1>4, AbortKeeps
<1>6. SentInv' /\ AnswerInv'
  BY <1>2, <1>3, <1>5 DEF SentInv, AnswerInv, Empty, SessionOf
<1>7. vue' \in Schedulers
  BY <1>1, Facts, OurCallbacks, HandlersType
<1>8. sessionId' \in 1..MaxSessions
  BY <1>1, Facts, Bounds
<1>9. TypeOK'
  BY <1>1, <1>3, <1>5, <1>7, <1>8, Facts DEF TypeOK
<1> QED
  BY <1>1, <1>5, <1>6, <1>9 DEF IInv, PageInv

LEMMA SendMessageKeeps ==
    ASSUME IInv, resume = <<>>, NEW c \in Calls, SendMessage(c)
    PROVE  IInv'
<1>1. /\ ~isLoading /\ call[c] = Unsent
      /\ resume' = IF controller # None THEN <<controller, "abort">> ELSE <<>>
      /\ controller' = IF abortable THEN c ELSE None
      /\ userInput' = FALSE /\ isLoading' = TRUE
      /\ call' = [call EXCEPT ![c].pc = "fetch", ![c].session = sessionId]
      /\ vue' = NextTick(Notify(vue, Affected, TRUE), "scroll", TRUE)
      /\ UNCHANGED <<sessionId, scrolled, stopped, open, abortable, streaming>>
  BY DEF SendMessage, browser
<1>2. PICK question \in Messages :
             /\ question = Message("user", c, [by |-> c, upto |-> 0], FALSE)
             /\ question.call = c /\ question.content.by = c
             /\ question.isLoading = FALSE /\ question.isStreaming = FALSE
  <2>1. [by |-> c, upto |-> 0] \in Contents /\ "user" \in Roles
    BY Bounds DEF Roles, Contents, Failed
  <2> DEFINE m == Message("user", c, [by |-> c, upto |-> 0], FALSE)
  <2>2. /\ m \in Messages /\ m.call = c /\ m.content.by = c
        /\ m.isLoading = FALSE /\ m.isStreaming = FALSE
    BY <2>1 DEF Message, Messages
  <2> QED
    BY <2>2
<1>3. PICK answer \in Messages :
             /\ answer = Message("assistant", c, Empty, TRUE)
             /\ answer.call = c /\ answer.content.by = None
             /\ answer.isLoading = TRUE /\ answer.isStreaming = FALSE
  <2>1. Empty \in Contents /\ "assistant" \in Roles /\ Empty.by = None
    BY Bounds DEF Roles, Contents, Empty, Failed
  <2> DEFINE m == Message("assistant", c, Empty, TRUE)
  <2>2. /\ m \in Messages /\ m.call = c /\ m.content.by = None
        /\ m.isLoading = TRUE /\ m.isStreaming = FALSE
    BY <2>1 DEF Message, Messages
  <2> QED
    BY <2>2
<1>4. messages' = messages \o <<question, answer>>
  BY <1>2, <1>3 DEF SendMessage
<1>5. /\ messages' \in Seq(Messages) /\ messages' # <<>> /\ Len(messages') = Len(messages) + 2
      /\ DOMAIN messages' = 1..Len(messages) + 2 /\ DOMAIN messages = 1..Len(messages)
      /\ Len(messages) \in Nat
      /\ messages'[Len(messages) + 2] = answer
      /\ \A i \in DOMAIN messages' :
            \/ i \in 1..Len(messages) /\ messages'[i] = messages[i]
            \/ i = Len(messages) + 1 /\ messages'[i] = question
            \/ i = Len(messages) + 2 /\ messages'[i] = answer
  <2>1. messages \in Seq(Messages) /\ Len(messages) \in Nat /\ DOMAIN messages = 1..Len(messages)
    BY Facts
  <2>2. <<question, answer>> \in Seq(Messages) /\ Len(<<question, answer>>) = 2
    OBVIOUS
  <2>3. /\ messages' \in Seq(Messages) /\ Len(messages') = Len(messages) + 2
        /\ DOMAIN messages' = 1..Len(messages) + 2
    BY <1>4, <2>1, <2>2
  <2>4. \A i \in 1..Len(messages) : messages'[i] = messages[i]
    BY <1>4, <2>1, <2>2
  <2>5. messages'[Len(messages) + 1] = question /\ messages'[Len(messages) + 2] = answer
    BY <1>4, <2>1, <2>2
  <2>6. \A i \in 1..Len(messages) + 2 :
           i \in 1..Len(messages) \/ i = Len(messages) + 1 \/ i = Len(messages) + 2
    BY <2>1
  <2> QED
    BY <2>1, <2>3, <2>4, <2>5, <2>6
<1>6. PICK state \in CallStates :
             /\ call' = [call EXCEPT ![c] = state]
             /\ state.pc = "fetch" /\ state.session = sessionId
  <2> DEFINE s == [call[c] EXCEPT !.pc = "fetch", !.session = sessionId]
  <2>1. s \in CallStates /\ s.pc = "fetch" /\ s.session = sessionId
    <3>1. call[c] \in CallStates /\ sessionId \in 0..MaxSessions
      BY Facts, Bounds
    <3> QED
      BY <3>1 DEF CallStates
  <2> QED
    BY <1>1, <2>1
<1>7. /\ call' \in [Calls -> CallStates] /\ call'[c] = state
      /\ \A b \in Calls : b # c => call'[b] = call[b]
  BY <1>6, Facts
<1>8. Unsent.pc = "unsent" /\ call'[c] # Unsent /\ ~Active(c)
  BY <1>1, <1>6, <1>7 DEF Unsent, Active
<1>9. controller' \in Calls \cup {None} /\ c # None
  BY <1>1, Bounds
<1>10. SentInv'
  <2>1. \A i \in DOMAIN messages' : messages'[i].call # None => call'[messages'[i].call] # Unsent
    <3>1. \A i \in 1..Len(messages) : messages[i].call \in Calls \cup {None}
      BY Facts, MessageFields
    <3>2. \A i \in 1..Len(messages) : messages[i].call # None => call'[messages[i].call] # Unsent
      BY <1>5, <1>7, <1>8, <3>1 DEF IInv, SentInv
    <3> QED
      BY <1>2, <1>3, <1>5, <1>8, <3>2
  <2>2. \A b \in stopped' : call'[b] # Unsent
    BY <1>1, <1>7, <1>8, Facts DEF IInv, SentInv
  <2> QED
    BY <1>1, <1>8, <2>1, <2>2 DEF SentInv
<1>11. resume' = <<>> \/ resume' \in Calls \X Results
  BY <1>1, Facts DEF Results
<1>12. vue' \in Schedulers
  BY <1>1, Facts, OurCallbacks, HandlersType
<1>13. TypeOK'
  BY <1>1, <1>5, <1>7, <1>9, <1>11, <1>12, Facts DEF TypeOK
<1>14. ASSUME abortable PROVE ControlInv' /\ PlaceInv' /\ AnswerInv' /\ StopInv'
  <2>1. /\ controller = None /\ controller' = c /\ resume' = <<>> /\ ~Aborting'
        /\ \A b \in Calls : ~Active(b)
        /\ \A i \in 1..Len(messages) : ~Flagged(messages[i])
    BY <1>1, <1>5, <1>14, Bounds DEF IInv, PageInv, ControlInv, Aborting
  <2>2. \A b \in Calls : Active(b)' <=> b = c
    BY <1>6, <1>7, <2>1 DEF Active
  <2>3. Last' = Len(messages) + 2
    BY <1>5 DEF Last
  <2>4. \A i \in DOMAIN messages' : Flagged(messages'[i]) => i = Last'
    BY <1>2, <1>5, <2>1, <2>3 DEF Flagged
  <2>5. ControlInv'
    BY <1>1, <1>9, <2>1, <2>2, <2>4 DEF ControlInv
  <2>6. PlaceInv'
    BY <1>3, <1>5, <1>6, <1>7, <2>1, <2>3 DEF PlaceInv
  <2>7. AnswerInv'
    <3>1. \A i \in 1..Len(messages) :
             /\ messages[i].call \in Calls \cup {None}
             /\ messages[i].content.by \in {None, messages[i].call}
             /\ messages[i].call # None =>
                   messages[i].call # c /\ call[messages[i].call].session = sessionId
      BY <1>1, <1>5, <1>14, Facts, MessageFields DEF IInv, SentInv, PageInv, AnswerInv, SessionOf
    <3>2. ASSUME NEW i \in DOMAIN messages'
          PROVE  /\ messages'[i].content.by \in {None, messages'[i].call}
                 /\ messages'[i].call # None => call'[messages'[i].call].session = sessionId'
      <4>1. CASE i \in 1..Len(messages) /\ messages'[i] = messages[i]
        BY <1>1, <1>7, <3>1, <4>1
      <4>2. CASE messages'[i] \in {question, answer}
        BY <1>1, <1>2, <1>3, <1>6, <1>7, <4>2
      <4> QED
        BY <1>5, <4>1, <4>2
    <3> QED
      BY <3>2 DEF AnswerInv, SessionOf
  <2>8. StopInv'
    <3>1. c \notin stopped
      BY <1>1 DEF IInv, SentInv
    <3> QED
      BY <1>1, <2>2, <3>1, Facts DEF StopInv
  <2> QED
    BY <2>5, <2>6, <2>7, <2>8
<1> QED
  BY <1>1, <1>10, <1>13, <1>14 DEF IInv, PageInv

LEMMA UserKeeps == ASSUME IInv, User PROVE IInv'
<1>1. CASE Type
  BY <1>1, TypeKeeps
<1>2. CASE ClickSendButton
  BY <1>2, StopResponseKeeps, SendMessageKeeps, Facts DEF ClickSendButton, Idle, browser
<1>3. CASE StartNewConversation
  BY <1>3, StartNewConversationKeeps
<1>4. CASE HandleClose
  BY <1>4, StopResponseKeeps, Facts DEF HandleClose, Idle, browser
<1>5. CASE Unload
  BY <1>5, StopResponseKeeps, Facts DEF Unload, Idle
<1>6. ASSUME NEW c \in Calls, PressEnter(c) PROVE IInv'
  BY <1>6, SendMessageKeeps DEF PressEnter, Idle
<1> QED
  BY <1>1, <1>2, <1>3, <1>4, <1>5, <1>6 DEF User

-----------------------------------------------------------------------------
(* The steps of a call after an await.                                      *)

\* The call that resumes is the one that runs, and runs alone.
LEMMA Resumed ==
    ASSUME IInv, NEW c \in Calls, NEW result, resume = <<c, result>>
    PROVE  /\ result \in Results /\ (Aborting <=> result = "abort")
           /\ abortable => /\ \A b \in Calls : Active(b) <=> b = c
                           /\ result = "abort" => controller = None
                           /\ result # "abort" => controller = c
                           /\ \A i \in 1..Len(messages) : Flagged(messages[i]) => i = Last
           /\ abortable /\ result # "abort" =>
                 /\ messages[Last].call = c
                 /\ call[c].pc \in {"read", "text"} => call[c].at = Last
<1>1. resume # <<>> /\ resume[1] = c /\ resume[2] = result /\ result \in Results
  BY Facts
<1>2. Aborting <=> result = "abort"
  BY <1>1 DEF Aborting
<1>3. ASSUME abortable
      PROVE  /\ \A b \in Calls : Active(b) <=> b = c
             /\ result = "abort" => controller = None
             /\ result # "abort" => controller = c
             /\ \A i \in 1..Len(messages) : Flagged(messages[i]) => i = Last
  BY <1>1, <1>2, <1>3, Facts DEF IInv, PageInv, ControlInv, Last
<1> QED
  BY <1>1, <1>2, <1>3, Bounds DEF IInv, PageInv, PlaceInv

LEMMA EndKeeps ==
    ASSUME IInv, NEW c \in Calls, NEW result, resume = <<c, result>>, resume' = <<>>,
           NEW list \in Seq(Messages), End(c, list), Len(list) = Len(messages),
           \A i \in 1..Len(messages) : list[i].call = messages[i].call,
           abortable => \A i \in 1..Len(messages) :
                           /\ list[i].content.by \in {None, list[i].call}
                           /\ i # Last => ~Flagged(list[i])
    PROVE  IInv'
<1>1. /\ list # <<>> /\ Len(messages) \in Nat /\ Last = Len(messages)
      /\ DOMAIN messages = 1..Len(messages)
  BY Facts DEF Last
<1>2. PICK cleared \in Seq(Messages) :
             /\ cleared = ClearFlags(list) /\ Len(cleared) = Len(list) /\ cleared # <<>>
             /\ \A j \in 1..Len(list) :
                   cleared[j].call = list[j].call /\ cleared[j].content = list[j].content
             /\ \A j \in 1..Len(list) : j # Len(list) => cleared[j] = list[j]
             /\ ~Flagged(cleared[Len(list)])
  BY <1>1, Cleared
<1>3. /\ messages' = cleared /\ isLoading' = FALSE /\ controller' = None
      /\ call' = [call EXCEPT ![c].pc = "ended"]
      /\ UNCHANGED <<userInput, sessionId, scrolled, open, abortable, streaming, stopped>>
      /\ vue' = NextTick(Notify(vue, Affected, FALSE), "scroll", FALSE)
  BY <1>2 DEF End, browser
<1>4. PICK state \in CallStates :
             /\ call' = [call EXCEPT ![c] = state]
             /\ state.pc = "ended" /\ state.session = call[c].session
  <2> DEFINE s == [call[c] EXCEPT !.pc = "ended"]
  <2>1. s \in CallStates /\ s.pc = "ended" /\ s.session = call[c].session
    <3>1. call[c] \in CallStates
      BY Facts
    <3> QED
      BY <3>1 DEF CallStates
  <2> QED
    BY <1>3, <2>1
<1>5. /\ call' \in [Calls -> CallStates] /\ call'[c] = state
      /\ \A b \in Calls : b # c => call'[b] = call[b]
  BY <1>4, Facts
<1>6. DOMAIN messages' = 1..Len(messages)
      /\ \A i \in 1..Len(messages) : messages'[i].call = messages[i].call
                                     /\ messages'[i].content = list[i].content
  BY <1>1, <1>2, <1>3
<1>7. Unsent.pc = "unsent" /\ call'[c] # Unsent
  BY <1>4, <1>5 DEF Unsent
<1>8. \A i \in 1..Len(messages) : messages[i].call \in Calls \cup {None}
  BY Facts, MessageFields
<1>9. SentInv'
  <2>1. \A i \in DOMAIN messages' : messages'[i].call # None => call'[messages'[i].call] # Unsent
    BY <1>1, <1>5, <1>6, <1>7, <1>8 DEF IInv, SentInv
  <2>2. \A b \in stopped' : call'[b] # Unsent
    BY <1>3, <1>5, <1>7, Facts DEF IInv, SentInv
  <2> QED
    BY <1>3, <2>1, <2>2 DEF SentInv
<1>10. vue' \in Schedulers
  BY <1>3, Facts, OurCallbacks, HandlersType
<1>11. TypeOK'
  BY <1>2, <1>3, <1>5, <1>10, Facts DEF TypeOK
<1>12. ASSUME abortable PROVE ControlInv' /\ PlaceInv' /\ AnswerInv' /\ StopInv'
  <2>1. \A b \in Calls : ~Active(b)'
    BY <1>4, <1>5, <1>12, Resumed DEF Active
  <2>2. ~Aborting' /\ None \notin Calls
    BY Bounds DEF Aborting
  <2>3. \A i \in DOMAIN messages' : ~Flagged(messages'[i])
    BY <1>1, <1>2, <1>3, <1>6, <1>12
  <2>4. ControlInv' /\ PlaceInv' /\ StopInv'
    BY <1>3, <2>1, <2>2, <2>3, Facts DEF ControlInv, PlaceInv, StopInv
  <2>5. \A i \in 1..Len(messages) : messages[i].call # None =>
           call'[messages[i].call].session = sessionId'
    BY <1>1, <1>3, <1>4, <1>5, <1>8, <1>12 DEF IInv, PageInv, AnswerInv, SessionOf
  <2>6. AnswerInv'
    BY <1>6, <1>12, <2>5 DEF AnswerInv, SessionOf
  <2> QED
    BY <2>4, <2>6
<1> QED
  BY <1>3, <1>9, <1>11, <1>12 DEF IInv, PageInv

\* The message of an error, and the text that came at once.
LEMMA EndWithContentKeeps ==
    ASSUME IInv, NEW c \in Calls, NEW result, resume = <<c, result>>, resume' = <<>>,
           result # "abort", NEW n \in 0..MaxChunks + 1, NEW i \in 1..Len(messages),
           abortable => i = Last,
           End(c, [messages EXCEPT ![i].content = [by |-> c, upto |-> n]])
    PROVE  IInv'
<1>1. [by |-> c, upto |-> n] \in Contents /\ [by |-> c, upto |-> n].by = c
  BY ContentType
<1>2. messages \in Seq(Messages) /\ messages[i] \in Messages
  BY Facts
<1>3. PICK m \in Messages :
             /\ m = [messages[i] EXCEPT !.content = [by |-> c, upto |-> n]]
             /\ m.call = messages[i].call /\ m.content.by = c
             /\ m.isLoading = messages[i].isLoading /\ m.isStreaming = messages[i].isStreaming
  BY <1>1, <1>2, WithContent
<1>4. PICK list \in Seq(Messages) :
             /\ list = [messages EXCEPT ![i] = m]
             /\ Len(list) = Len(messages) /\ list[i] = m
             /\ \A j \in 1..Len(messages) : j # i => list[j] = messages[j]
  <2> DEFINE other == [messages EXCEPT ![i] = m]
  <2>1. other \in Seq(Messages)
    BY <1>2
  <2>2. Len(other) = Len(messages) /\ other[i] = m
    BY <1>2
  <2>3. \A j \in 1..Len(messages) : j # i => other[j] = messages[j]
    BY <1>2
  <2> QED
    BY <2>1, <2>2, <2>3
<1>5. End(c, list)
  BY <1>3, <1>4
<1>6. \A j \in 1..Len(messages) : list[j].call = messages[j].call
  BY <1>3, <1>4
<1>7. ASSUME abortable, NEW j \in 1..Len(messages)
      PROVE  list[j].content.by \in {None, list[j].call} /\ (j # Last => ~Flagged(list[j]))
  <2>1. i = Last /\ messages[Last].call = c
    BY <1>7, Resumed
  <2>2. messages[j].content.by \in {None, messages[j].call}
    BY <1>7, Facts DEF IInv, PageInv, AnswerInv, Last
  <2>3. j # Last => ~Flagged(messages[j])
    BY <1>7, Resumed
  <2> QED
    BY <1>3, <1>4, <2>1, <2>2, <2>3
<1> QED
  BY <1>4, <1>5, <1>6, <1>7, EndKeeps

LEMMA FailKeeps ==
    ASSUME IInv, NEW c \in Calls, NEW result, resume = <<c, result>>, resume' = <<>>,
           result # "abort", Fail(c)
    PROVE  IInv'
<1>1. Failed \in 0..MaxChunks + 1 /\ Last \in 1..Len(messages)
  BY Bounds, Facts DEF Failed
<1> QED
  BY <1>1, EndWithContentKeeps DEF Fail

\* What a step leaves that only changes the message its call owns.
LEMMA EditKeeps ==
    ASSUME IInv, NEW c \in Calls, NEW result, resume = <<c, result>>, resume' = <<>>,
           result # "abort", abortable,
           messages' \in Seq(Messages), Len(messages') = Len(messages),
           \A i \in 1..Len(messages) : messages'[i].call = messages[i].call,
           \A i \in 1..Len(messages) : i # Last => messages'[i] = messages[i],
           messages'[Last].content.by \in {None, c},
           NEW state \in CallStates, call' = [call EXCEPT ![c] = state],
           state.pc \in {"read", "text"}, state.session = call[c].session, state.at = Last,
           UNCHANGED <<isLoading, controller, sessionId, stopped>>
    PROVE  ControlInv' /\ PlaceInv' /\ AnswerInv' /\ StopInv'
<1>1. /\ Len(messages) \in Nat /\ Last = Len(messages) /\ Last' = Last
      /\ DOMAIN messages = 1..Len(messages) /\ DOMAIN messages' = 1..Len(messages)
      /\ Last \in 1..Len(messages)
  BY Facts DEF Last
<1>2. /\ call'[c] = state /\ \A b \in Calls : b # c => call'[b] = call[b]
  BY Facts
<1>3. /\ \A b \in Calls : Active(b) <=> b = c
      /\ controller = c /\ messages[Last].call = c
      /\ \A i \in 1..Len(messages) : Flagged(messages[i]) => i = Last
  BY Resumed
<1>4. \A b \in Calls : Active(b)' <=> b = c
  BY <1>2, <1>3 DEF Active
<1>5. ~Aborting' /\ ~Aborting
  BY Resumed DEF Aborting
<1>6. \A i \in DOMAIN messages' : Flagged(messages'[i]) => i = Last'
  BY <1>1, <1>3
<1>7. ControlInv'
  BY <1>1, <1>3, <1>4, <1>5, <1>6, Bounds DEF ControlInv, IInv, PageInv
<1>8. PlaceInv'
  BY <1>1, <1>2, <1>3 DEF PlaceInv
<1>9. StopInv'
  BY <1>3, <1>4, <1>5, Facts DEF StopInv, IInv, PageInv
<1>10. AnswerInv'
  <2>1. \A i \in 1..Len(messages) : messages[i].call \in Calls \cup {None}
    BY Facts, MessageFields
  <2>2. \A i \in 1..Len(messages) : messages[i].call # None =>
           call'[messages[i].call].session = sessionId'
    BY <1>1, <1>2, <2>1 DEF IInv, PageInv, AnswerInv, SessionOf
  <2>3. \A i \in 1..Len(messages) : messages'[i].content.by \in {None, messages'[i].call}
    BY <1>1, <1>3 DEF IInv, PageInv, AnswerInv
  <2> QED
    BY <1>1, <2>2, <2>3 DEF AnswerInv, SessionOf
<1> QED
  BY <1>7, <1>8, <1>9, <1>10

\* Whatever the browser, no message speaks of a call that was not sent.
LEMMA SentKeeps ==
    ASSUME IInv, NEW c \in Calls, NEW state \in CallStates,
           call' = [call EXCEPT ![c] = state], state.pc # "unsent",
           messages' \in Seq(Messages), Len(messages') = Len(messages),
           \A i \in 1..Len(messages) : messages'[i].call = messages[i].call,
           UNCHANGED <<controller, stopped>>
    PROVE  SentInv' /\ call' \in [Calls -> CallStates]
<1>1. /\ DOMAIN messages = 1..Len(messages) /\ DOMAIN messages' = 1..Len(messages)
      /\ \A i \in 1..Len(messages) : messages[i].call \in Calls \cup {None}
  BY Facts, MessageFields DEF Last
<1>2. /\ call' \in [Calls -> CallStates] /\ call'[c] = state
      /\ \A b \in Calls : b # c => call'[b] = call[b]
  BY Facts
<1>3. call'[c] # Unsent
  BY <1>2 DEF Unsent
<1> QED
  BY <1>1, <1>2, <1>3, Facts DEF IInv, SentInv

LEMMA GetResponseKeeps == ASSUME IInv, NEW c \in Calls, GetResponse(c) PROVE IInv'
<1>1. /\ resume = <<c, "ok">> /\ resume' = <<>>
      /\ messages' = IF streaming
                     THEN [messages EXCEPT ![Last].isLoading = FALSE, ![Last].isStreaming = TRUE]
                     ELSE messages
      /\ call' = [call EXCEPT ![c].pc = IF streaming THEN "read" ELSE "text", ![c].at = Last]
      /\ vue' = Notify(vue, Affected, FALSE)
      /\ UNCHANGED <<userInput, isLoading, controller, sessionId, scrolled, open, abortable,
                     streaming, stopped>>
  BY DEF GetResponse, Resumes, browser
<1>2. messages \in Seq(Messages) /\ Last \in 1..Len(messages) /\ messages[Last] \in Messages
  BY Facts
<1>3. /\ messages' \in Seq(Messages) /\ Len(messages') = Len(messages)
      /\ messages'[Last].call = messages[Last].call
      /\ messages'[Last].content = messages[Last].content
      /\ \A i \in 1..Len(messages) : i # Last => messages'[i] = messages[i]
  <2>1. CASE ~streaming
    BY <1>1, <1>2, <2>1
  <2>2. CASE streaming
    <3>1. PICK m \in Messages :
                 /\ m = [messages[Last] EXCEPT !.isLoading = FALSE, !.isStreaming = TRUE]
                 /\ m.call = messages[Last].call /\ m.content = messages[Last].content
      <4> DEFINE n == [messages[Last] EXCEPT !.isLoading = FALSE, !.isStreaming = TRUE]
      <4>1. n \in Messages /\ n.call = messages[Last].call /\ n.content = messages[Last].content
        BY <1>2 DEF Messages
      <4> QED
        BY <4>1
    <3>2. messages' = [messages EXCEPT ![Last] = m]
      BY <1>1, <2>2, <3>1
    <3>3. messages' \in Seq(Messages) /\ Len(messages') = Len(messages) /\ messages'[Last] = m
      BY <1>2, <3>2
    <3>4. \A i \in 1..Len(messages) : i # Last => messages'[i] = messages[i]
      BY <1>2, <3>2
    <3> QED
      BY <3>1, <3>3, <3>4
  <2> QED
    BY <2>1, <2>2
<1>4. \A i \in 1..Len(messages) : messages'[i].call = messages[i].call
  BY <1>2, <1>3
<1>5. PICK state \in CallStates :
             /\ call' = [call EXCEPT ![c] = state]
             /\ state.pc \in {"read", "text"} /\ state.at = Last
             /\ state.session = call[c].session
  <2> DEFINE s == [call[c] EXCEPT !.pc = IF streaming THEN "read" ELSE "text", !.at = Last]
  <2>1. s \in CallStates /\ s.pc \in {"read", "text"} /\ s.at = Last
        /\ s.session = call[c].session
    <3>1. call[c] \in CallStates /\ Last \in Nat
      BY Facts
    <3> QED
      BY <3>1 DEF CallStates
  <2> QED
    BY <1>1, <2>1
<1>6. SentInv' /\ call' \in [Calls -> CallStates]
  BY <1>1, <1>3, <1>4, <1>5, SentKeeps
<1>7. vue' \in Schedulers
  BY <1>1, Facts, OurCallbacks, HandlersType
<1>8. TypeOK'
  <2>1. messages' # <<>>
    BY <1>2, <1>3
  <2>2. /\ resume' = <<>>
        /\ UNCHANGED <<userInput, isLoading, controller, sessionId, scrolled, open, abortable,
                       streaming, stopped>>
    BY <1>1
  <2> QED
    BY <1>3, <1>6, <1>7, <2>1, <2>2, Facts DEF TypeOK
<1>9. ASSUME abortable PROVE ControlInv' /\ PlaceInv' /\ AnswerInv' /\ StopInv'
  <2>1. messages'[Last].content.by \in {None, c}
    <3>1. messages[Last].call = c
      BY <1>1, <1>9, Resumed
    <3>2. messages[Last].content.by \in {None, messages[Last].call}
      BY <1>9, Facts DEF IInv, PageInv, AnswerInv
    <3> QED
      BY <1>3, <3>1, <3>2
  <2> QED
    BY <1>1, <1>3, <1>4, <1>5, <1>9, <2>1, EditKeeps
<1> QED
  BY <1>1, <1>6, <1>8, <1>9 DEF IInv, PageInv

LEMMA ReadChunkKeeps == ASSUME IInv, AwaitInv, NEW c \in Calls, ReadChunk(c) PROVE IInv'
<1>1. resume = <<c, "chunk">> /\ resume' = <<>>
  BY DEF ReadChunk, Resumes
<1>2. CASE ~Present(c)
  BY <1>1, <1>2, FailKeeps DEF ReadChunk
<1>3. CASE Present(c)
  <2>1. PICK at \in 1..Len(messages) : at = call[c].at
    BY <1>3, Facts DEF Present, Last
  <2>2. PICK got \in 0..MaxChunks : got = call[c].got + 1
    <3>1. call[c].got \in 0..MaxChunks /\ call[c].got < MaxChunks
      BY <1>1, Facts DEF AwaitInv, CallStates
    <3> QED
      BY <3>1, Bounds
  <2>3. /\ messages' = [messages EXCEPT ![at].content = [by |-> c, upto |-> got]]
        /\ call' = [call EXCEPT ![c].got = got]
        /\ vue' = NextTick(Notify(vue, Affected, FALSE), "scroll", FALSE)
        /\ UNCHANGED <<userInput, isLoading, controller, sessionId, scrolled, open, abortable,
                       streaming, stopped>>
    BY <1>3, <2>1, <2>2 DEF ReadChunk, browser
  <2>4. messages \in Seq(Messages) /\ messages[at] \in Messages
    BY <2>1, Facts
  <2>5. PICK m \in Messages :
               /\ m = [messages[at] EXCEPT !.content = [by |-> c, upto |-> got]]
               /\ m.call = messages[at].call /\ m.content.by = c
    <3>1. [by |-> c, upto |-> got] \in Contents /\ [by |-> c, upto |-> got].by = c
      BY Bounds, ContentType
    <3> QED
      BY <2>4, <3>1, WithContent
  <2>6. messages' = [messages EXCEPT ![at] = m]
    BY <2>3, <2>5
  <2>7. /\ messages' \in Seq(Messages) /\ Len(messages') = Len(messages) /\ messages'[at] = m
        /\ \A i \in 1..Len(messages) : i # at => messages'[i] = messages[i]
    <3>1. messages' \in Seq(Messages)
      BY <2>4, <2>6
    <3>2. Len(messages') = Len(messages) /\ messages'[at] = m
      BY <2>4, <2>6
    <3>3. \A i \in 1..Len(messages) : i # at => messages'[i] = messages[i]
      BY <2>4, <2>6
    <3> QED
      BY <3>1, <3>2, <3>3
  <2>8. \A i \in 1..Len(messages) : messages'[i].call = messages[i].call
    BY <2>5, <2>7
  <2>9. PICK state \in CallStates :
               /\ call' = [call EXCEPT ![c] = state]
               /\ state.pc = "read" /\ state.at = at /\ state.session = call[c].session
    <3> DEFINE s == [call[c] EXCEPT !.got = got]
    <3>1. s \in CallStates /\ s.pc = "read" /\ s.at = at /\ s.session = call[c].session
      <4>1. call[c] \in CallStates /\ call[c].pc = "read" /\ call[c].at = at
        BY <1>1, <2>1, Facts DEF AwaitInv
      <4> QED
        BY <4>1 DEF CallStates
    <3> QED
      BY <2>3, <3>1
  <2>10. SentInv' /\ call' \in [Calls -> CallStates]
    BY <2>3, <2>7, <2>8, <2>9, SentKeeps
  <2>11. TypeOK'
    <3>1. vue' \in Schedulers
      BY <2>3, Facts, OurCallbacks, HandlersType
    <3>2. messages' # <<>>
      BY <2>1, <2>7
    <3>3. /\ resume' = <<>>
          /\ UNCHANGED <<userInput, isLoading, controller, sessionId, scrolled, open, abortable,
                         streaming, stopped>>
      BY <1>1, <2>3
    <3> QED
      BY <2>7, <2>10, <3>1, <3>2, <3>3, Facts DEF TypeOK
  <2>12. ASSUME abortable PROVE ControlInv' /\ PlaceInv' /\ AnswerInv' /\ StopInv'
    <3>1. at = Last
      BY <1>1, <2>1, <2>12, Resumed DEF AwaitInv
    <3>2. messages'[Last].content.by \in {None, c}
      BY <2>5, <2>7, <3>1
    <3> QED
      BY <1>1, <2>3, <2>7, <2>8, <2>9, <2>12, <3>1, <3>2, EditKeeps
  <2> QED
    BY <2>3, <2>10, <2>11, <2>12 DEF IInv, PageInv
<1> QED
  BY <1>2, <1>3

LEMMA ReadDoneKeeps == ASSUME IInv, NEW c \in Calls, ReadDone(c) PROVE IInv'
<1>1. resume = <<c, "done">> /\ resume' = <<>>
  BY DEF ReadDone, Resumes
<1>2. CASE ~Present(c)
  BY <1>1, <1>2, FailKeeps DEF ReadDone
<1>3. CASE Present(c)
  <2>1. PICK at \in 1..Len(messages) : at = call[c].at
    BY <1>3, Facts DEF Present, Last
  <2>2. messages \in Seq(Messages) /\ messages[at] \in Messages
    BY <2>1, Facts
  <2>3. PICK m \in Messages :
               /\ m = [messages[at] EXCEPT !.isStreaming = FALSE]
               /\ m.call = messages[at].call /\ m.content = messages[at].content
               /\ m.isLoading = messages[at].isLoading /\ m.isStreaming = FALSE
    BY <2>2, StreamEnds
  <2>4. PICK list \in Seq(Messages) :
               /\ list = [messages EXCEPT ![at] = m]
               /\ Len(list) = Len(messages) /\ list[at] = m
               /\ \A j \in 1..Len(messages) : j # at => list[j] = messages[j]
    <3> DEFINE other == [messages EXCEPT ![at] = m]
    <3>1. other \in Seq(Messages)
      BY <2>2
    <3>2. Len(other) = Len(messages) /\ other[at] = m
      BY <2>2
    <3>3. \A j \in 1..Len(messages) : j # at => other[j] = messages[j]
      BY <2>2
    <3> QED
      BY <3>1, <3>2, <3>3
  <2>5. End(c, list)
    BY <1>3, <2>1, <2>3, <2>4 DEF ReadDone
  <2>6. \A j \in 1..Len(messages) : list[j].call = messages[j].call
    BY <2>3, <2>4
  <2>7. ASSUME abortable, NEW j \in 1..Len(messages)
        PROVE  list[j].content.by \in {None, list[j].call} /\ (j # Last => ~Flagged(list[j]))
    <3>1. messages[j].content.by \in {None, messages[j].call}
      BY <2>7, Facts DEF IInv, PageInv, AnswerInv, Last
    <3>2. j # Last => ~Flagged(messages[j])
      BY <1>1, <2>7, Resumed
    <3>3. ~Flagged(messages[j]) => ~Flagged(list[j])
      BY <2>3, <2>4 DEF Flagged
    <3> QED
      BY <2>3, <2>4, <3>1, <3>2, <3>3
  <2> QED
    BY <1>1, <2>4, <2>5, <2>6, <2>7, EndKeeps
<1> QED
  BY <1>2, <1>3

LEMMA GetTextKeeps == ASSUME IInv, AwaitInv, NEW c \in Calls, GetText(c) PROVE IInv'
<1>1. resume = <<c, "text">> /\ resume' = <<>>
  BY DEF GetText, Resumes
<1>2. CASE ~Present(c)
  BY <1>1, <1>2, FailKeeps DEF GetText
<1>3. CASE Present(c)
  <2>1. PICK at \in 1..Len(messages) : at = call[c].at
    BY <1>3, Facts DEF Present, Last
  <2>2. End(c, [messages EXCEPT ![at].content = [by |-> c, upto |-> MaxChunks]])
    BY <1>3, <2>1 DEF GetText
  <2>3. abortable => at = Last
    BY <1>1, <2>1, Resumed DEF AwaitInv
  <2>4. MaxChunks \in 0..MaxChunks + 1
    BY Bounds
  <2> QED
    BY <1>1, <2>2, <2>3, <2>4, EndWithContentKeeps
<1> QED
  BY <1>2, <1>3

LEMMA ResumeKeeps == ASSUME IInv, AwaitInv, NEW c \in Calls, Resume(c) PROVE IInv'
<1>1. CASE CatchError(c)
  <2>1. PICK result \in {"bad", "error"} : Resumes(c, result) /\ Fail(c)
    BY <1>1 DEF CatchError
  <2> QED
    BY <2>1, FailKeeps DEF Resumes
<1>2. CASE CatchAbort(c)
  <2>1. resume = <<c, "abort">> /\ resume' = <<>> /\ End(c, messages)
    BY <1>2 DEF CatchAbort, Resumes
  <2>2. ASSUME abortable, NEW j \in 1..Len(messages)
        PROVE  /\ messages[j].content.by \in {None, messages[j].call}
               /\ j # Last => ~Flagged(messages[j])
    BY <2>1, <2>2, Resumed, Facts DEF IInv, PageInv, AnswerInv, Last
  <2> QED
    BY <2>1, <2>2, Facts, EndKeeps
<1> QED
  BY <1>1, <1>2, GetResponseKeeps, ReadChunkKeeps, ReadDoneKeeps, GetTextKeeps DEF Resume

-----------------------------------------------------------------------------
(* The invariant.                                                           *)

\* The steps that settle no promise that a call awaits.
LEMMA NothingSettled ==
    ASSUME \/ UNCHANGED <<resume, call>>
           \/ resume' = <<>>
           \/ resume' # <<>> /\ resume'[2] = "abort",
           AwaitInv
    PROVE  AwaitInv'
<1>1. CASE UNCHANGED <<resume, call>>
  BY <1>1 DEF AwaitInv
<1>2. CASE resume' = <<>> \/ (resume' # <<>> /\ resume'[2] = "abort")
  <2>1. \A c \in Calls, result \in {"chunk", "done", "text"} : resume' # <<c, result>>
    BY <1>2
  <2> QED
    BY <2>1 DEF AwaitInv
<1> QED
  BY <1>1, <1>2

LEMMA AwaitKeeps == ASSUME AwaitInv, [Next]_vars PROVE AwaitInv'
<1>1. CASE UNCHANGED vars
  BY <1>1, NothingSettled DEF vars
<1>2. CASE User
  <2>1. CASE Type
    BY <2>1, NothingSettled DEF Type
  <2>2. ASSUME Abort PROVE AwaitInv'
    BY <2>2, NothingSettled DEF Abort
  <2>3. ASSUME NEW c \in Calls, SendMessage(c) PROVE AwaitInv'
    BY <2>3, NothingSettled DEF SendMessage
  <2> QED
    BY <1>2, <2>1, <2>2, <2>3
       DEF User, ClickSendButton, StopResponse, StartNewConversation, HandleClose, Unload,
           PressEnter
<1>3. CASE RunVue
  BY <1>3, NothingSettled DEF RunVue, FlushTimer, FlushSchedulerQueue, ScrollToBottom, Scroll
<1>4. ASSUME NEW c \in Calls, Network(c) PROVE AwaitInv'
  <2>1. PICK result \in Results :
               /\ resume' = <<c, result>> /\ UNCHANGED call
               /\ result = "chunk" => call[c].pc = "read" /\ call[c].got < MaxChunks
               /\ result = "done" => call[c].pc = "read"
               /\ result = "text" => call[c].pc = "text"
    BY <1>4 DEF Network, Respond, Stream, DeliverText, Settle, Results
  <2> QED
    BY <2>1 DEF AwaitInv
<1>5. ASSUME NEW c \in Calls, Resume(c) PROVE AwaitInv'
  BY <1>5, NothingSettled
     DEF Resume, Resumes, GetResponse, ReadChunk, ReadDone, GetText, CatchError, CatchAbort
<1> QED
  BY <1>1, <1>2, <1>3, <1>4, <1>5 DEF Next

LEMMA StepKeeps == ASSUME IInv, AwaitInv, [Next]_vars PROVE IInv'
<1>1. CASE UNCHANGED vars
  <2>1. UNCHANGED <<data, call, resume, stopped, abortable>>
    BY <1>1 DEF vars, browser
  <2>2. TypeOK'
    BY <1>1 DEF vars, browser, data, IInv, TypeOK
  <2> QED
    BY <2>1, <2>2, Unchanged DEF IInv
<1> QED
  BY <1>1, UserKeeps, RunVueKeeps, NetworkKeeps, ResumeKeeps DEF Next

LEMMA InitHolds == Init => IInv /\ AwaitInv
<1> SUFFICES ASSUME Init PROVE IInv /\ AwaitInv
  OBVIOUS
<1>1. Greeting \in Messages /\ Greeting.call = None /\ Greeting.content.by = None
      /\ ~Flagged(Greeting)
  BY Bounds DEF Greeting, Message, Messages, Roles, Contents, Failed, Empty, Flagged
<1>2. /\ messages \in Seq(Messages) /\ messages # <<>> /\ DOMAIN messages = {1}
      /\ messages[1] = Greeting
  BY <1>1 DEF Init
<1>3. Unsent \in CallStates /\ Unsent.pc = "unsent"
  BY Bounds DEF Unsent, CallStates
<1>4. vue \in Schedulers
  <2>1. Quiet \in Schedulers
    BY DEF Quiet, Schedulers
  <2> QED
    BY <2>1, NotifyType, NextTickType, OurCallbacks DEF Init
<1>5. abortable \in BOOLEAN /\ streaming \in BOOLEAN
  BY BrowsersType DEF Init
<1>6. TypeOK
  <2>1. call \in [Calls -> CallStates]
    BY <1>3 DEF Init
  <2>2. sessionId \in 1..MaxSessions /\ stopped \subseteq Calls /\ controller \in Calls \cup {None}
    BY Bounds DEF Init
  <2>3. /\ userInput \in BOOLEAN /\ isLoading \in BOOLEAN /\ scrolled \in BOOLEAN
        /\ open \in BOOLEAN /\ resume = <<>>
    BY DEF Init
  <2> QED
    BY <1>2, <1>4, <1>5, <2>1, <2>2, <2>3 DEF TypeOK
<1>7. SentInv
  BY <1>1, <1>2 DEF Init, SentInv
<1>8. \A c \in Calls : ~Active(c)
  BY <1>3 DEF Init, Active
<1>9. ControlInv /\ PlaceInv /\ AnswerInv /\ StopInv
  BY <1>1, <1>2, <1>8, Bounds DEF Init, ControlInv, Aborting, PlaceInv, AnswerInv, StopInv
<1> QED
  BY <1>6, <1>7, <1>9 DEF Init, IInv, PageInv, AwaitInv

LEMMA InvCorrect == Spec => [](IInv /\ AwaitInv)
<1>1. IInv /\ AwaitInv /\ [Next]_vars => (IInv /\ AwaitInv)'
  BY StepKeeps, AwaitKeeps
<1> QED
  BY <1>1, InitHolds, PTL DEF Spec

-----------------------------------------------------------------------------
(* What a step does to the answers.                                         *)

LEMMA SameAnswer ==
    ASSUME messages \in Seq(Messages), messages' \in Seq(Messages),
           Len(messages') = Len(messages), NEW c,
           \A i \in 1..Len(messages) :
              /\ messages'[i].call = messages[i].call
              /\ messages[i].call = c => messages'[i].content = messages[i].content
    PROVE  Answer(c)' = Answer(c)
<1>1. DOMAIN messages = 1..Len(messages) /\ DOMAIN messages' = 1..Len(messages)
  OBVIOUS
<1>2. {i \in DOMAIN messages' : messages'[i].call = c}
         = {i \in DOMAIN messages : messages[i].call = c}
  BY <1>1
<1>3. \A i \in {i \in DOMAIN messages : messages[i].call = c} :
         messages'[i].content = messages[i].content
  BY <1>1
<1> QED
  BY <1>2, <1>3 DEF Answer

LEMMA EndContents ==
    ASSUME NEW list \in Seq(Messages), list # <<>>, NEW c \in Calls, End(c, list)
    PROVE  /\ Len(messages') = Len(list)
           /\ \A i \in 1..Len(list) : /\ messages'[i].call = list[i].call
                                      /\ messages'[i].content = list[i].content
BY Cleared DEF End

LEMMA ContentEdited ==
    ASSUME IInv, NEW i \in 1..Len(messages), NEW content \in Contents
    PROVE  \E list \in Seq(Messages) :
              /\ list = [messages EXCEPT ![i].content = content]
              /\ Len(list) = Len(messages) /\ list # <<>>
              /\ \A j \in 1..Len(messages) :
                    list[j].call = messages[j].call /\ (j # i => list[j] = messages[j])
<1> DEFINE list == [messages EXCEPT ![i].content = content]
<1>1. messages \in Seq(Messages) /\ messages[i] \in Messages /\ messages # <<>>
  BY Facts
<1>2. PICK m \in Messages : /\ m = [messages[i] EXCEPT !.content = content]
                            /\ m.call = messages[i].call
  BY <1>1, WithContent
<1>3. list = [messages EXCEPT ![i] = m]
  BY <1>2
<1>4. list \in Seq(Messages)
  BY <1>1, <1>3
<1>5. Len(list) = Len(messages) /\ list # <<>> /\ list[i] = m
  BY <1>1, <1>3
<1>6. \A j \in 1..Len(messages) : j # i => list[j] = messages[j]
  BY <1>1, <1>3
<1>7. \A j \in 1..Len(messages) : list[j].call = messages[j].call
  BY <1>2, <1>5, <1>6
<1> QED
  BY <1>4, <1>5, <1>6, <1>7

\* A call that resumes changes the content of the last message, if of any.
LEMMA FailContents ==
    ASSUME IInv, NEW c \in Calls, Fail(c)
    PROVE  /\ Len(messages') = Len(messages)
           /\ \A i \in 1..Len(messages) :
                 /\ messages'[i].call = messages[i].call
                 /\ i # Last => messages'[i].content = messages[i].content
<1>1. Failed \in 0..MaxChunks + 1 /\ Last \in 1..Len(messages)
  BY Bounds, Facts DEF Failed
<1>2. PICK list \in Seq(Messages) :
             /\ list = [messages EXCEPT ![Last].content = [by |-> c, upto |-> Failed]]
             /\ Len(list) = Len(messages) /\ list # <<>>
             /\ \A j \in 1..Len(messages) :
                   list[j].call = messages[j].call /\ (j # Last => list[j] = messages[j])
  BY <1>1, ContentType, ContentEdited
<1>3. End(c, list)
  BY <1>2 DEF Fail
<1>4. /\ Len(messages') = Len(list)
      /\ \A i \in 1..Len(list) : /\ messages'[i].call = list[i].call
                                /\ messages'[i].content = list[i].content
  BY <1>2, <1>3, EndContents
<1> QED
  BY <1>2, <1>4

LEMMA ResumeContents ==
    ASSUME IInv, AwaitInv, abortable, NEW c \in Calls, Resume(c)
    PROVE  /\ Len(messages') = Len(messages)
           /\ \A i \in 1..Len(messages) :
                 /\ messages'[i].call = messages[i].call
                 /\ i # Last \/ Aborting => messages'[i].content = messages[i].content
<1>1. CASE GetResponse(c)
  <2>1. messages \in Seq(Messages) /\ messages[Last] \in Messages /\ Last \in 1..Len(messages)
    BY Facts
  <2>2. PICK m \in Messages :
               /\ m = [messages[Last] EXCEPT !.isLoading = FALSE, !.isStreaming = TRUE]
               /\ m.call = messages[Last].call /\ m.content = messages[Last].content
    BY <2>1, WithFlags
  <2>3. messages' = messages \/ messages' = [messages EXCEPT ![Last] = m]
    BY <1>1, <2>2 DEF GetResponse
  <2>4. CASE messages' = [messages EXCEPT ![Last] = m]
    <3>1. Len(messages') = Len(messages) /\ messages'[Last] = m
      BY <2>1, <2>4
    <3>2. \A i \in 1..Len(messages) : i # Last => messages'[i] = messages[i]
      BY <2>1, <2>4
    <3>3. ~Aborting
      BY <1>1 DEF GetResponse, Resumes, Aborting
    <3> QED
      BY <2>2, <3>1, <3>2, <3>3
  <2> QED
    BY <2>3, <2>4
<1>2. ASSUME resume = <<c, "chunk">> \/ resume = <<c, "text">>, Present(c)
      PROVE  call[c].at = Last /\ ~Aborting /\ Last \in 1..Len(messages)
  BY <1>2, Resumed, Facts DEF AwaitInv
<1>3. CASE ReadChunk(c) /\ Present(c)
  <2>1. PICK got \in 0..MaxChunks + 1 :
               messages' = [messages EXCEPT ![call[c].at].content = [by |-> c, upto |-> got]]
    <3>1. call[c].got + 1 \in 0..MaxChunks + 1
      BY Facts, Bounds DEF CallStates
    <3> QED
      BY <1>3, <3>1 DEF ReadChunk
  <2>2. call[c].at = Last /\ ~Aborting /\ Last \in 1..Len(messages)
    BY <1>2, <1>3 DEF ReadChunk, Resumes
  <2> QED
    BY <2>1, <2>2, ContentType, ContentEdited
<1>4. CASE ReadDone(c) /\ Present(c)
  <2>1. PICK at \in 1..Len(messages) : at = call[c].at
    BY <1>4, Facts DEF Present, Last
  <2>2. messages \in Seq(Messages) /\ messages[at] \in Messages /\ messages # <<>>
    BY <2>1, Facts
  <2>3. PICK m \in Messages :
               /\ m = [messages[at] EXCEPT !.isStreaming = FALSE]
               /\ m.call = messages[at].call /\ m.content = messages[at].content
    BY <2>2, StreamEnds
  <2> DEFINE list == [messages EXCEPT ![at] = m]
  <2>4. list \in Seq(Messages)
    BY <2>2
  <2>5. Len(list) = Len(messages) /\ list # <<>> /\ list[at] = m
    BY <2>2
  <2>6. \A j \in 1..Len(messages) : j # at => list[j] = messages[j]
    BY <2>2
  <2>7. End(c, list)
    BY <1>4, <2>1, <2>3 DEF ReadDone
  <2> HIDE DEF list
  <2>8. /\ Len(messages') = Len(list)
        /\ \A i \in 1..Len(list) : /\ messages'[i].call = list[i].call
                                  /\ messages'[i].content = list[i].content
    BY <2>4, <2>5, <2>7, EndContents
  <2> QED
    BY <2>3, <2>5, <2>6, <2>8
<1>5. CASE GetText(c) /\ Present(c)
  <2>1. End(c, [messages EXCEPT ![call[c].at].content = [by |-> c, upto |-> MaxChunks]])
    BY <1>5 DEF GetText
  <2>2. call[c].at = Last /\ ~Aborting /\ Last \in 1..Len(messages)
    BY <1>2, <1>5 DEF GetText, Resumes
  <2>3. MaxChunks \in 0..MaxChunks + 1
    BY Bounds
  <2>4. PICK list \in Seq(Messages) :
               /\ list = [messages EXCEPT ![Last].content = [by |-> c, upto |-> MaxChunks]]
               /\ Len(list) = Len(messages) /\ list # <<>>
               /\ \A j \in 1..Len(messages) :
                     list[j].call = messages[j].call /\ (j # Last => list[j] = messages[j])
    BY <2>2, <2>3, ContentType, ContentEdited
  <2>5. End(c, list)
    BY <2>1, <2>2, <2>4
  <2>6. /\ Len(messages') = Len(list)
        /\ \A i \in 1..Len(list) : /\ messages'[i].call = list[i].call
                                  /\ messages'[i].content = list[i].content
    BY <2>4, <2>5, EndContents
  <2> QED
    BY <2>2, <2>4, <2>6
<1>6. CASE CatchAbort(c)
  BY <1>6, EndContents, Facts DEF CatchAbort
<1>7. ASSUME NEW result \in {"chunk", "done", "text", "bad", "error"},
             Resumes(c, result), Fail(c)
      PROVE  /\ Len(messages') = Len(messages)
             /\ \A i \in 1..Len(messages) :
                   /\ messages'[i].call = messages[i].call
                   /\ i # Last \/ Aborting => messages'[i].content = messages[i].content
  <2>1. ~Aborting
    BY <1>7 DEF Resumes, Aborting
  <2> QED
    BY <1>7, <2>1, FailContents
<1> QED
  BY <1>1, <1>3, <1>4, <1>5, <1>6, <1>7 DEF Resume, ReadChunk, ReadDone, GetText, CatchError

LEMMA StoppedStep ==
    ASSUME IInv, AwaitInv, [Next]_vars
    PROVE  [\A c \in stopped :
               abortable /\ sessionId' = sessionId => Answer(c)' = Answer(c)]_vars
<1> SUFFICES ASSUME NEW c \in stopped, abortable, sessionId' = sessionId
             PROVE  Answer(c)' = Answer(c)
  OBVIOUS
<1>1. messages \in Seq(Messages) /\ messages' \in Seq(Messages) /\ c \in Calls
  BY StepKeeps, Facts DEF IInv, TypeOK
<1>2. CASE UNCHANGED messages
  BY <1>2 DEF Answer
<1>3. ASSUME StopResponse PROVE Answer(c)' = Answer(c)
  <2>1. /\ Len(messages') = Len(messages)
        /\ \A i \in 1..Len(messages) : /\ messages'[i].call = messages[i].call
                                       /\ messages'[i].content = messages[i].content
    BY <1>3, Cleared, Facts DEF StopResponse
  <2> QED
    BY <1>1, <2>1, SameAnswer
<1>4. ASSUME NEW b \in Calls, SendMessage(b) PROVE Answer(c)' = Answer(c)
  <2> DEFINE question == Message("user", b, [by |-> b, upto |-> 0], FALSE)
             answer == Message("assistant", b, Empty, TRUE)
  <2>1. messages' = messages \o <<question, answer>>
    BY <1>4 DEF SendMessage
  <2>2. b # c
    BY <1>4 DEF SendMessage, IInv, SentInv
  <2>3. question.call = b /\ answer.call = b
    BY DEF Message
  <2> HIDE DEF question, answer
  <2>4. /\ Len(messages) \in Nat /\ DOMAIN messages = 1..Len(messages)
        /\ DOMAIN messages' = 1..Len(messages) + 2
        /\ \A i \in 1..Len(messages) : messages'[i] = messages[i]
        /\ messages'[Len(messages) + 1] = question /\ messages'[Len(messages) + 2] = answer
    BY <1>1, <2>1
  <2>5. {i \in DOMAIN messages' : messages'[i].call = c}
           = {i \in DOMAIN messages : messages[i].call = c}
    <3>1. \A i \in DOMAIN messages' : messages'[i].call = c => i \in 1..Len(messages)
      BY <2>2, <2>3, <2>4
    <3> QED
      BY <2>4, <3>1
  <2> QED
    BY <2>4, <2>5 DEF Answer
<1>5. ASSUME NEW b \in Calls, Resume(b) PROVE Answer(c)' = Answer(c)
  <2>1. /\ Len(messages') = Len(messages)
        /\ \A i \in 1..Len(messages) :
              /\ messages'[i].call = messages[i].call
              /\ i # Last \/ Aborting => messages'[i].content = messages[i].content
    BY <1>5, ResumeContents
  <2>2. PICK result \in Results : resume = <<b, result>>
    BY <1>5 DEF Resume, Resumes, GetResponse, ReadChunk, ReadDone, GetText, CatchError,
                CatchAbort, Results
  <2>3. ~Aborting => messages[Last].call # c
    <3> SUFFICES ASSUME ~Aborting PROVE messages[Last].call # c
      OBVIOUS
    <3>1. messages[Last].call = b /\ Active(b)
      BY <2>2, Resumed
    <3>2. ~Active(c)
      BY DEF IInv, PageInv, StopInv
    <3> QED
      BY <3>1, <3>2
  <2> QED
    BY <1>1, <2>1, <2>3, SameAnswer
<1>6. CASE StartNewConversation
  BY <1>6, Facts DEF StartNewConversation
<1>7. CASE RunVue \/ Type \/ \E b \in Calls : Network(b)
  BY <1>2, <1>7
     DEF RunVue, FlushTimer, FlushSchedulerQueue, ScrollToBottom, Scroll, Type, Network, Respond,
         Stream, DeliverText, Settle, data
<1> QED
  BY <1>2, <1>3, <1>4, <1>5, <1>6, <1>7
     DEF Next, User, ClickSendButton, HandleClose, Unload, PressEnter, vars, data

-----------------------------------------------------------------------------
(* The theorems.                                                            *)

\* The data of the page, its calls and Vue's scheduler stay what the handlers expect:
\* there is always a last message, and no call reads beyond the end of its answer.
THEOREM AssistantTypes == Spec => []TypeOK
<1>1. IInv /\ AwaitInv => TypeOK
  BY DEF IInv
<1> QED
  BY <1>1, InvCorrect, PTL

\* What _sendMessage writes after an await, into the message it remembered or into the
\* last one, is written under its own question and in its own conversation.
THEOREM AnswersStayWithTheirQuestions == Spec => []OwnAnswer
<1>1. IInv /\ AwaitInv => OwnAnswer
  BY DEF IInv, PageInv, AnswerInv, OwnAnswer
<1> QED
  BY <1>1, InvCorrect, PTL

\* Between tasks the controller of the page, isLoading and the flags of the messages are
\* about the only call under way.
THEOREM OneCallAtATime == Spec => []CallIsControlled
<1>1. ASSUME IInv PROVE CallIsControlled
  <2> SUFFICES ASSUME abortable, resume = <<>>
               PROVE  /\ \A c \in Calls : Active(c) <=> controller = c
                      /\ isLoading <=> controller # None
                      /\ \A i \in DOMAIN messages :
                            messages[i].isLoading \/ messages[i].isStreaming =>
                               messages[i].call = controller /\ controller # None
    BY DEF CallIsControlled
  <2>1. ~Aborting /\ ControlInv /\ PlaceInv
    BY <1>1 DEF IInv, PageInv, Aborting
  <2> QED
    BY <2>1 DEF ControlInv, PlaceInv, Flagged
<1>2. IInv /\ AwaitInv => CallIsControlled
  BY <1>1
<1> QED
  BY <1>2, InvCorrect, PTL

\* What a stopped call has said is not changed by the steps that follow, whichever call
\* or handler takes them.
THEOREM StoppedAnswersStay == Spec => StoppedStays
<1> DEFINE Stays == \A c \in stopped :
                       abortable /\ sessionId' = sessionId => Answer(c)' = Answer(c)
<1>1. IInv /\ AwaitInv /\ [Next]_vars => [Stays]_vars
  BY StoppedStep
<1> QED
  BY <1>1, InvCorrect, PTL DEF Spec, StoppedStays

-----------------------------------------------------------------------------
(* The screen.                                                              *)

\* The callbacks a scheduler still has to call.
Waiting(v) ==
    {v.callbacks[i] : i \in DOMAIN v.callbacks} \cup {v.copies[i] : i \in DOMAIN v.copies}

\* Callbacks have a timer, and queued watchers a flush that is waited for.
VueInv(v) ==
    /\ v.callbacks # <<>> => v.pending # "none"
    /\ v.queue # {} => "flush" \in Waiting(v)

\* What the page does not show yet, a watcher in the queue will render; rows that were
\* rendered since the last scroll are followed by one.
ScreenInv ==
    /\ VueInv(vue)
    /\ RenderWatcher \notin vue.queue => dom = View(messages, isLoading, userInput)
    /\ dom.rows # Rows(messages) => ScrollWatcher \in vue.queue
    /\ ~scrolled => \/ ScrollWatcher \in vue.queue
                    \/ Waiting(vue) \cap {"scroll", "scrollToBottom"} # {}

LEMMA TickWaits ==
    ASSUME NEW v \in Schedulers, NEW callback \in Callbacks, NEW inHandler \in BOOLEAN
    PROVE  LET w == NextTick(v, callback, inHandler)
           IN  /\ w.queue = v.queue /\ w.pending # "none"
               /\ Waiting(w) = Waiting(v) \cup {callback}
<1> DEFINE w == NextTick(v, callback, inHandler)
<1>1. /\ w.queue = v.queue /\ w.pending # "none" /\ w.copies = v.copies
      /\ w.callbacks = Append(v.callbacks, callback)
  BY SchedulerFields DEF NextTick, Schedulers
<1>2. /\ DOMAIN w.callbacks = DOMAIN v.callbacks \cup {Len(v.callbacks) + 1}
      /\ w.callbacks[Len(v.callbacks) + 1] = callback
      /\ \A i \in DOMAIN v.callbacks : w.callbacks[i] = v.callbacks[i]
  BY <1>1, SchedulerFields
<1>3. {w.callbacks[i] : i \in DOMAIN w.callbacks}
         = {v.callbacks[i] : i \in DOMAIN v.callbacks} \cup {callback}
  BY <1>2
<1> QED
  BY <1>1, <1>3 DEF Waiting

LEMMA NotifyWaits ==
    ASSUME NEW v \in Schedulers, VueInv(v), NEW watchers \in SUBSET Watchers,
           NEW inHandler \in BOOLEAN
    PROVE  LET w == Notify(v, watchers, inHandler)
           IN  VueInv(w) /\ w.queue = v.queue \cup watchers /\ Waiting(v) \subseteq Waiting(w)
<1>1. CASE watchers = {}
  BY <1>1 DEF Notify
<1>2. CASE watchers # {}
  <2> DEFINE queued == [v EXCEPT !.queue = @ \cup watchers]
  <2>1. /\ queued \in Schedulers /\ queued.queue = v.queue \cup watchers
        /\ queued.callbacks = v.callbacks /\ queued.copies = v.copies
        /\ queued.pending = v.pending
    BY QueuedType DEF Schedulers
  <2>2. Waiting(queued) = Waiting(v)
    BY <2>1 DEF Waiting
  <2>3. CASE v.queue = {}
    <3>1. Notify(v, watchers, inHandler) = NextTick(queued, "flush", inHandler)
      BY <1>2, <2>3 DEF Notify
    <3> HIDE DEF queued
    <3> QED
      BY <2>1, <2>2, <3>1, TickWaits, OurCallbacks DEF VueInv
  <2>4. CASE v.queue # {}
    <3>1. Notify(v, watchers, inHandler) = queued
      BY <1>2, <2>4 DEF Notify
    <3> HIDE DEF queued
    <3> QED
      BY <2>1, <2>2, <2>4, <3>1 DEF VueInv
  <2> QED
    BY <2>3, <2>4
<1> QED
  BY <1>1, <1>2

LEMMA CalledWaits ==
    ASSUME NEW v \in Schedulers, v.copies # <<>>
    PROVE  /\ Called(v).queue = v.queue /\ Called(v).callbacks = v.callbacks
           /\ Called(v).pending = v.pending
           /\ Waiting(v) \ {Head(v.copies)} \subseteq Waiting(Called(v))
           /\ Flushed(v).queue = {} /\ Flushed(v).callbacks = v.callbacks
           /\ Flushed(v).pending = v.pending /\ Waiting(Flushed(v)) = Waiting(Called(v))
<1>1. /\ Called(v).queue = v.queue /\ Called(v).callbacks = v.callbacks
      /\ Called(v).pending = v.pending /\ Called(v).copies = Tail(v.copies)
  BY DEF Called, Schedulers
<1>2. /\ Flushed(v).queue = {} /\ Flushed(v).callbacks = v.callbacks
      /\ Flushed(v).pending = v.pending /\ Flushed(v).copies = Tail(v.copies)
  BY CalledType, <1>1 DEF Flushed, Schedulers
<1>3. ASSUME NEW i \in DOMAIN v.copies, v.copies[i] # Head(v.copies)
      PROVE  \E j \in DOMAIN Tail(v.copies) : Tail(v.copies)[j] = v.copies[i]
  <2>1. i - 1 \in DOMAIN Tail(v.copies) /\ Tail(v.copies)[i - 1] = v.copies[i]
    BY <1>3, SchedulerFields
  <2> QED
    BY <2>1
<1> QED
  BY <1>1, <1>2, <1>3 DEF Waiting

\* A handler or a resumed call notifies whoever shows what it changed.
LEMMA NotifiedScreen ==
    ASSUME TypeOK, ScreenInv, UNCHANGED <<dom, scrolled>>,
           NEW watchers \in SUBSET Watchers, Affected \subseteq watchers,
           NEW inHandler \in BOOLEAN, NEW callback \in Callbacks,
           \/ vue' = Notify(vue, watchers, inHandler)
           \/ vue' = NextTick(Notify(vue, watchers, inHandler), callback, inHandler)
    PROVE  ScreenInv'
<1>1. /\ VueInv(vue') /\ vue'.queue = vue.queue \cup watchers
      /\ Waiting(vue) \subseteq Waiting(vue')
  <2> DEFINE notified == Notify(vue, watchers, inHandler)
  <2>1. /\ notified \in Schedulers /\ VueInv(notified)
        /\ notified.queue = vue.queue \cup watchers /\ Waiting(vue) \subseteq Waiting(notified)
    BY NotifyType, NotifyWaits DEF TypeOK, ScreenInv
  <2> HIDE DEF notified
  <2>2. CASE vue' = notified
    BY <2>1, <2>2
  <2>3. CASE vue' = NextTick(notified, callback, inHandler)
    BY <2>1, <2>3, TickWaits DEF VueInv
  <2> QED
    BY <2>2, <2>3 DEF notified
<1>2. /\ messages' # messages => ScrollWatcher \in watchers
      /\ View(messages', isLoading', userInput') # View(messages, isLoading, userInput)
            => RenderWatcher \in watchers
  BY PageParts DEF Affected, ScrollWatcher, RenderWatcher
<1> QED
  BY <1>1, <1>2 DEF ScreenInv, VueInv, Waiting

LEMMA RunVueScreen ==
    ASSUME TypeOK, ScreenInv, RunVue PROVE ScreenInv'
<1>1. /\ UNCHANGED <<messages, isLoading, userInput>> /\ vue \in Schedulers
      /\ VueInv(vue)
  BY DEF RunVue, FlushTimer, FlushSchedulerQueue, ScrollToBottom, Scroll, data, TypeOK, ScreenInv
<1>2. CASE FlushTimer
  <2>1. /\ vue'.queue = vue.queue /\ vue'.callbacks = <<>> /\ vue'.copies = vue.callbacks
        /\ vue.copies = <<>> /\ UNCHANGED <<dom, scrolled>>
    BY <1>1, <1>2 DEF FlushTimer, FlushCallbacks, Schedulers
  <2>2. Waiting(vue') = Waiting(vue)
    BY <2>1 DEF Waiting
  <2> QED
    BY <1>1, <2>1, <2>2 DEF ScreenInv, VueInv, Waiting
<1>3. CASE FlushSchedulerQueue
  <2>1. vue.copies # <<>> /\ Head(vue.copies) = "flush"
    BY <1>3 DEF FlushSchedulerQueue, Calling
  <2>2. PICK flushed \in Schedulers :
               /\ flushed = Flushed(vue) /\ flushed.queue = {}
               /\ flushed.callbacks # <<>> => flushed.pending # "none"
               /\ Waiting(vue) \ {"flush"} \subseteq Waiting(flushed)
    BY <1>1, <2>1, CalledType, CalledWaits DEF VueInv
  <2>3. /\ vue'.queue = {}
        /\ vue'.callbacks # <<>> => vue'.pending # "none"
        /\ Waiting(vue) \ {"flush"} \subseteq Waiting(vue')
        /\ ScrollWatcher \in vue.queue => "scroll" \in Waiting(vue')
    <3>1. CASE ScrollWatcher \in vue.queue
      <4>1. vue' = NextTick(flushed, "scroll", FALSE)
        BY <1>3, <2>2, <3>1 DEF FlushSchedulerQueue
      <4> QED
        BY <2>2, <4>1, TickWaits, OurCallbacks
    <3>2. CASE ScrollWatcher \notin vue.queue
      BY <1>3, <2>2, <3>2 DEF FlushSchedulerQueue
    <3> QED
      BY <3>1, <3>2
  <2>4. dom' = View(messages, isLoading, userInput)
    BY <1>3 DEF FlushSchedulerQueue, ScreenInv
  <2>5. dom'.rows = Rows(messages)
    BY <2>4 DEF View
  <2>6. ~scrolled' => "scroll" \in Waiting(vue') \/ "scrollToBottom" \in Waiting(vue')
    <3>1. scrolled' <=> scrolled /\ dom'.rows = dom.rows
      BY <1>3 DEF FlushSchedulerQueue
    <3>2. ~scrolled' => \/ ScrollWatcher \in vue.queue
                        \/ Waiting(vue) \cap {"scroll", "scrollToBottom"} # {}
      BY <2>5, <3>1 DEF ScreenInv
    <3> QED
      BY <2>3, <3>2
  <2>7. VueInv(vue)'
    BY <2>3 DEF VueInv
  <2>8. (~scrolled => Waiting(vue) \cap {"scroll", "scrollToBottom"} # {})'
    BY <2>6 DEF Waiting
  <2> QED
    BY <1>1, <2>4, <2>5, <2>7, <2>8 DEF ScreenInv
<1>4. CASE ScrollToBottom
  <2>1. vue.copies # <<>> /\ Head(vue.copies) = "scrollToBottom"
    BY <1>4 DEF ScrollToBottom, Calling
  <2>2. PICK called \in Schedulers :
               /\ called = Called(vue) /\ called.queue = vue.queue
               /\ Waiting(vue) \ {"scrollToBottom"} \subseteq Waiting(called)
    BY <1>1, <2>1, CalledType, CalledWaits
  <2>3. /\ vue'.queue = vue.queue /\ vue'.pending # "none" /\ UNCHANGED <<dom, scrolled>>
        /\ Waiting(vue) \ {"scrollToBottom"} \subseteq Waiting(vue')
        /\ "scroll" \in Waiting(vue')
    BY <1>4, <2>2, TickWaits, OurCallbacks DEF ScrollToBottom
  <2> QED
    BY <1>1, <2>3 DEF ScreenInv, VueInv, Waiting
<1>5. CASE Scroll
  <2>1. /\ vue.copies # <<>> /\ Head(vue.copies) = "scroll" /\ vue' = Called(vue)
        /\ scrolled' = TRUE /\ UNCHANGED dom
    BY <1>5 DEF Scroll, Calling
  <2>2. /\ vue'.queue = vue.queue /\ vue'.callbacks = vue.callbacks
        /\ vue'.pending = vue.pending /\ Waiting(vue) \ {"scroll"} \subseteq Waiting(vue')
    BY <1>1, <2>1, CalledWaits
  <2> QED
    BY <1>1, <2>1, <2>2 DEF ScreenInv, VueInv, Waiting
<1> QED
  BY <1>2, <1>3, <1>4, <1>5 DEF RunVue

LEMMA ScreenStep == ASSUME TypeOK, ScreenInv, [Next]_vars PROVE ScreenInv'
<1>1. CASE UNCHANGED <<messages, isLoading, userInput, vue, dom, scrolled>>
  BY <1>1 DEF ScreenInv, VueInv, Waiting
<1>2. ASSUME NEW c \in Calls, SendMessage(c) PROVE ScreenInv'
  BY <1>2, NotifiedScreen, OurCallbacks DEF SendMessage
<1>3. ASSUME StopResponse PROVE ScreenInv'
  BY <1>3, NotifiedScreen, OurCallbacks DEF StopResponse
<1>4. CASE Type
  BY <1>4, NotifiedScreen, OurCallbacks DEF Type
<1>5. CASE StartNewConversation
  BY <1>5, NotifiedScreen, OurCallbacks DEF StartNewConversation
<1>6. ASSUME NEW c \in Calls, Network(c) PROVE ScreenInv'
  BY <1>1, <1>6 DEF Network, Respond, Stream, DeliverText, Settle, data
<1>7. ASSUME NEW c \in Calls, Resume(c) PROVE ScreenInv'
  <2>1. /\ UNCHANGED <<dom, scrolled>>
        /\ \/ vue' = Notify(vue, Affected, FALSE)
           \/ vue' = NextTick(Notify(vue, Affected, FALSE), "scroll", FALSE)
    BY <1>7 DEF Resume, GetResponse, ReadChunk, ReadDone, GetText, CatchError, CatchAbort,
                Fail, End
  <2> QED
    BY <2>1, NotifiedScreen, OurCallbacks
<1> QED
  BY <1>1, <1>2, <1>3, <1>4, <1>5, <1>6, <1>7, RunVueScreen
     DEF Next, User, ClickSendButton, HandleClose, Unload, PressEnter, vars, data

LEMMA ScreenInit == ASSUME Init PROVE ScreenInv
<1>1. Quiet \in Schedulers /\ VueInv(Quiet) /\ Quiet.queue = {}
  BY DEF Quiet, Schedulers, VueInv
<1>2. PICK notified \in Schedulers :
             /\ notified = Notify(Quiet, Watchers, FALSE)
             /\ VueInv(notified) /\ notified.queue = Watchers
  <2>1. Watchers \in SUBSET Watchers /\ {} \cup Watchers = Watchers /\ FALSE \in BOOLEAN
    OBVIOUS
  <2> QED
    <3>1. Notify(Quiet, Watchers, FALSE) \in Schedulers
      BY <1>1, <2>1, NotifyType
    <3>2. /\ VueInv(Notify(Quiet, Watchers, FALSE))
          /\ Notify(Quiet, Watchers, FALSE).queue = Quiet.queue \cup Watchers
      BY <1>1, <2>1, NotifyWaits
    <3> QED
      BY <1>1, <2>1, <3>1, <3>2
<1>3. /\ vue.queue = Watchers /\ VueInv(vue)
  BY <1>2, TickWaits, OurCallbacks DEF Init, VueInv
<1> QED
  BY <1>3, PageParts DEF Init, ScreenInv, RenderWatcher, ScrollWatcher

\* Nothing that was changed stays unrendered, and nothing that was rendered stays out of
\* sight, in whichever order handlers, resumed calls and Vue's timers run.
THEOREM ScreenFollows == Spec => []ScreenIsCurrent
<1>1. ASSUME TypeOK, ScreenInv PROVE ScreenIsCurrent
  <2> SUFFICES ASSUME AtRest PROVE dom = View(messages, isLoading, userInput) /\ scrolled
    BY DEF ScreenIsCurrent
  <2>1. Waiting(vue) = {}
    BY <1>1 DEF AtRest, ScreenInv, VueInv, Waiting
  <2>2. vue.queue = {}
    BY <1>1, <2>1 DEF ScreenInv, VueInv
  <2> QED
    BY <1>1, <2>1, <2>2 DEF ScreenInv
<1>2. TypeOK /\ ScreenInv /\ [Next]_vars => ScreenInv'
  BY ScreenStep
<1>3. TypeOK /\ ScreenInv => ScreenIsCurrent
  BY <1>1
<1> QED
  BY <1>2, <1>3, ScreenInit, AssistantTypes, PTL DEF Spec

-----------------------------------------------------------------------------
(* Loading ends.                                                            *)

\* A question that loads has a call that was not ended.
LoadingInv == isLoading => \E c \in Calls : Active(c)

LEMMA LoadingStep == ASSUME TypeOK, LoadingInv, [Next]_vars PROVE LoadingInv'
<1>0. call \in [Calls -> CallStates]
  BY DEF TypeOK
<1>1. ASSUME isLoading' => isLoading,
             \A c \in Calls : Active(c) => Active(c)'
      PROVE  LoadingInv'
  BY <1>1 DEF LoadingInv
<1>2. ASSUME NEW c \in Calls, SendMessage(c) PROVE LoadingInv'
  <2>1. call' = [call EXCEPT ![c].pc = "fetch", ![c].session = sessionId]
    BY <1>2 DEF SendMessage
  <2>2. call'[c].pc = "fetch"
    BY <1>0, <2>1 DEF CallStates
  <2> QED
    BY <2>2 DEF LoadingInv, Active
<1>3. ASSUME NEW c \in Calls, NEW list, End(c, list) PROVE LoadingInv'
  BY <1>3 DEF End, LoadingInv
<1>4. ASSUME NEW c \in Calls, Resume(c) PROVE LoadingInv'
  <2>1. CASE GetResponse(c)
    <3>1. /\ call' = [call EXCEPT ![c].pc = IF streaming THEN "read" ELSE "text", ![c].at = Last]
          /\ UNCHANGED isLoading
      BY <2>1 DEF GetResponse
    <3>2. call'[c].pc \in {"read", "text"} /\ \A d \in Calls : d # c => call'[d] = call[d]
      BY <1>0, <3>1 DEF CallStates
    <3> QED
      BY <1>1, <3>1, <3>2 DEF Active
  <2>2. CASE ReadChunk(c)
    <3>1. CASE ~Present(c)
      BY <1>3, <2>2, <3>1 DEF ReadChunk, Fail
    <3>2. CASE Present(c)
      <4>1. call' = [call EXCEPT ![c].got = call[c].got + 1] /\ UNCHANGED isLoading
        BY <2>2, <3>2 DEF ReadChunk
      <4>2. \A d \in Calls : call'[d].pc = call[d].pc
        BY <1>0, <4>1 DEF CallStates
      <4> QED
        BY <1>1, <4>1, <4>2 DEF Active
    <3> QED
      BY <3>1, <3>2
  <2> QED
    BY <1>3, <1>4, <2>1, <2>2 DEF Resume, ReadDone, GetText, CatchError, CatchAbort, Fail
<1>5. ASSUME UNCHANGED call, isLoading' => isLoading PROVE LoadingInv'
  BY <1>1, <1>5 DEF Active
<1>6. CASE User
  <2>1. CASE Type
    BY <1>5, <2>1 DEF Type
  <2>3. CASE StartNewConversation \/ HandleClose \/ Unload
    <3>1. UNCHANGED call /\ isLoading' = FALSE
      BY <2>3 DEF StartNewConversation, HandleClose, Unload, StopResponse, Abort
    <3> QED
      BY <1>5, <3>1
  <2>2. ClickSendButton => LoadingInv'
    BY <1>2, <1>5 DEF ClickSendButton, StopResponse, Abort
  <2> QED
    BY <1>2, <1>6, <2>1, <2>2, <2>3 DEF User, PressEnter
<1>7. CASE RunVue \/ (\E c \in Calls : Network(c)) \/ UNCHANGED vars
  <2>1. UNCHANGED <<isLoading, call>>
    BY <1>7
       DEF RunVue, FlushTimer, FlushSchedulerQueue, ScrollToBottom, Scroll, Network, Respond,
           Stream, DeliverText, Settle, data, vars
  <2> QED
    BY <1>5, <2>1
<1> QED
  BY <1>4, <1>6, <1>7 DEF Next

\* In every browser, a question that loads has a call under way, so that isLoading comes back
\* with this call's finally: no path leaves _sendMessage without it.
THEOREM LoadingHasACall == Spec => []LoadingInv
<1>1. Init => LoadingInv
  BY DEF Init, LoadingInv
<1>2. TypeOK /\ LoadingInv /\ [Next]_vars => LoadingInv'
  BY LoadingStep
<1> QED
  BY <1>1, <1>2, AssistantTypes, PTL DEF Spec
=============================================================================
