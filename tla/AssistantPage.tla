---------------------------- MODULE AssistantPage ----------------------------
(***************************************************************************)
(* The page of the AI assistant (ai-assistant.js): a list of messages, one *)
(* question at a time, an answer that is streamed into the last message,   *)
(* and buttons that stop it or start a new conversation.                   *)
(*                                                                         *)
(* JavaScript runs one task at a time and its microtasks after it.  A task *)
(* is an event of the user, an event of the network, or a timer of Vue; an *)
(* await of _sendMessage resumes in a microtask, as does Vue's nextTick    *)
(* when no DOM event caused it.  Between two tasks the user sees and       *)
(* clicks what was rendered last, the handlers read the data.              *)
(***************************************************************************)
EXTENDS VueScheduler, FiniteSets, TLC

CONSTANTS
    NumCalls,     \* calls of _sendMessage that get past its first return, a bound
    MaxChunks,    \* chunks of an answer, a bound
    MaxSessions,  \* conversations, a bound
    Browsers      \* what browsers can do: pairs <<has AbortController, responses have a reader>>

ASSUME CallsType == NumCalls \in Nat \ {0}
ASSUME PageParts == /\ Watchers = {"messages", "render"}
                    /\ Callbacks = {"flush", "scrollToBottom", "scroll"}
ASSUME BoundsType == MaxChunks \in Nat \ {0} /\ MaxSessions \in Nat \ {0}
ASSUME BrowsersType == Browsers \subseteq BOOLEAN \X BOOLEAN

Calls == 1..NumCalls

VARIABLES
    messages, userInput, isLoading, controller, sessionId,  \* the data of the component
    call,         \* [Calls -> where _sendMessage is, and its local variables]
    resume,       \* the await whose promise was settled by the running task
    vue,          \* the scheduler
    dom,          \* what was rendered last
    scrolled,     \* the container was scrolled since its rows last changed
    open,         \* the page has not been left
    abortable,    \* the browser has AbortController
    streaming,    \* the browser's responses have a reader
    stopped       \* history: calls that the user stopped

data == <<messages, userInput, isLoading, controller, sessionId>>
browser == <<open, abortable, streaming>>
vars == <<data, call, resume, vue, dom, scrolled, browser, stopped>>

None == 0
Failed == MaxChunks + 1
Contents == [by : Calls \cup {None}, upto : 0..Failed]
Empty == [by |-> None, upto |-> 0]
Roles == {"user", "assistant"}
Messages == [role : Roles, call : Calls \cup {None}, content : Contents,
             isLoading : BOOLEAN, isStreaming : BOOLEAN]

Message(role, c, content, loading) ==
    [role |-> role, call |-> c, content |-> content,
     isLoading |-> loading, isStreaming |-> FALSE]
Greeting == Message("assistant", None, Empty, FALSE)

\* The template: typing dots in place of the content while the message is loading.
Row(m) ==
    LET dots == m.role = "assistant" /\ m.isLoading
    IN  [role |-> m.role, dots |-> dots, cursor |-> m.isStreaming,
         content |-> IF dots THEN Empty ELSE m.content]
Rows(list) == [i \in DOMAIN list |-> Row(list[i])]
View(list, busy, input) == [rows |-> Rows(list), busy |-> busy, input |-> input]

\* The watchers of the component, in the order of their ids.
ScrollWatcher == "messages"
RenderWatcher == "render"

\* The setters that a step runs notify the watchers that have read what changed.
Affected ==
    {w \in Watchers :
       \/ w = ScrollWatcher /\ messages' # messages
       \/ w = RenderWatcher /\ View(messages', isLoading', userInput')
                                 # View(messages, isLoading, userInput)}

SessionOf(c) == call[c].session
Unsent == [pc |-> "unsent", at |-> 0, got |-> 0, session |-> 0]
CallStates == [pc : {"unsent", "fetch", "read", "text", "ended"}, at : Nat,
               got : 0..MaxChunks, session : 0..MaxSessions]
Results == {"ok", "bad", "chunk", "done", "text", "error", "abort"}

TypeOK ==
    /\ messages \in Seq(Messages) /\ messages # <<>>
    /\ userInput \in BOOLEAN
    /\ isLoading \in BOOLEAN
    /\ controller \in Calls \cup {None}
    /\ sessionId \in 1..MaxSessions
    /\ call \in [Calls -> CallStates]
    /\ resume = <<>> \/ resume \in Calls \X Results
    /\ vue \in Schedulers
    /\ scrolled \in BOOLEAN
    /\ open \in BOOLEAN /\ abortable \in BOOLEAN /\ streaming \in BOOLEAN
    /\ stopped \subseteq Calls

\* mounted: the page was rendered without messages, then the first conversation began.
Init ==
    /\ messages = <<Greeting>>
    /\ userInput = FALSE
    /\ isLoading = FALSE
    /\ controller = None
    /\ sessionId = 1
    /\ call = [c \in Calls |-> Unsent]
    /\ resume = <<>>
    /\ vue = NextTick(Notify(Quiet, Watchers, FALSE), "scrollToBottom", FALSE)
    /\ dom = View(<<>>, FALSE, FALSE)
    /\ scrolled = TRUE
    /\ open = TRUE
    /\ \E b \in Browsers : abortable = b[1] /\ streaming = b[2]
    /\ stopped = {}

-----------------------------------------------------------------------------
(* The event loop.                                                          *)

\* A task may start: the last one and its microtasks are over.
Idle == open /\ resume = <<>> /\ vue.copies = <<>> /\ vue.pending # "microtask"

\* The timer of nextTick fires, as a microtask or as a task.
FlushTimer ==
    /\ resume = <<>> /\ vue.copies = <<>> /\ open
    /\ vue.pending # "none"
    /\ vue' = FlushCallbacks(vue)
    /\ UNCHANGED <<data, call, resume, dom, scrolled, browser, stopped>>

Calling(callback) == vue.copies # <<>> /\ Head(vue.copies) = callback

\* Sorted by id: the watcher of messages calls scrollToBottom, which waits for the next
\* tick, then the render watcher patches the page.
FlushSchedulerQueue ==
    /\ Calling("flush")
    /\ dom' = IF RenderWatcher \in vue.queue
              THEN View(messages, isLoading, userInput) ELSE dom
    /\ scrolled' = (scrolled /\ dom'.rows = dom.rows)
    /\ vue' = IF ScrollWatcher \in vue.queue
              THEN NextTick(Flushed(vue), "scroll", FALSE) ELSE Flushed(vue)
    /\ UNCHANGED <<data, call, resume, browser, stopped>>

\* Called by mounted and startNewConversation: it waits for a tick of its own.
ScrollToBottom ==
    /\ Calling("scrollToBottom")
    /\ vue' = NextTick(Called(vue), "scroll", FALSE)
    /\ UNCHANGED <<data, call, resume, dom, scrolled, browser, stopped>>

Scroll ==
    /\ Calling("scroll")
    /\ vue' = Called(vue)
    /\ scrolled' = TRUE
    /\ UNCHANGED <<data, call, resume, dom, browser, stopped>>

-----------------------------------------------------------------------------
(* Events of the user.                                                      *)

Last == Len(messages)
ClearFlags(list) ==
    IF list = <<>> THEN list
    ELSE [list EXCEPT ![Len(list)].isLoading = FALSE, ![Len(list)].isStreaming = FALSE]

\* v-model, the input event of the textarea: the draft becomes blank, or no longer is.
Type ==
    /\ Idle
    /\ userInput' = ~userInput
    /\ UNCHANGED <<messages, isLoading, controller, sessionId>>
    /\ vue' = Notify(vue, Affected, TRUE)
    /\ UNCHANGED <<call, resume, dom, scrolled, browser, stopped>>

\* Mutant: a question may be sent while another is being answered.
SendWhileLoading(c) ==
    /\ userInput
    /\ call[c] = Unsent
    /\ \A b \in Calls : b < c => call[b] # Unsent
    /\ resume' = IF controller # None THEN <<controller, "abort">> ELSE <<>>
    /\ controller' = IF abortable THEN c ELSE None
    /\ messages' = messages \o <<Message("user", c, [by |-> c, upto |-> 0], FALSE),
                                 Message("assistant", c, Empty, TRUE)>>
    /\ userInput' = FALSE
    /\ isLoading' = TRUE
    /\ call' = [call EXCEPT ![c].pc = "fetch", ![c].session = sessionId]
    /\ vue' = NextTick(Notify(vue, Affected, TRUE), "scroll", TRUE)
    /\ UNCHANGED <<sessionId, dom, scrolled, browser, stopped>>

\* _sendMessage up to its first await.
SendMessage(c) ==
    /\ userInput /\ ~isLoading
    /\ call[c] = Unsent
    /\ \A b \in Calls : b < c => call[b] # Unsent
    /\ resume' = IF controller # None THEN <<controller, "abort">> ELSE <<>>
    /\ controller' = IF abortable THEN c ELSE None
    /\ messages' = messages \o <<Message("user", c, [by |-> c, upto |-> 0], FALSE),
                                 Message("assistant", c, Empty, TRUE)>>
    /\ userInput' = FALSE
    /\ isLoading' = TRUE
    /\ call' = [call EXCEPT ![c].pc = "fetch", ![c].session = sessionId]
    /\ vue' = NextTick(Notify(vue, Affected, TRUE), "scroll", TRUE)
    /\ UNCHANGED <<sessionId, dom, scrolled, browser, stopped>>

\* Mutant: the controller is dropped without abort().
ForgetController ==
    /\ resume' = <<>>
    /\ stopped' = stopped \cup {c \in Calls : c = controller}
    /\ controller' = None
    /\ isLoading' = FALSE

\* stopResponse, but for the flags of the last message: abort() settles the pending
\* fetch or read before the handler returns.
Abort ==
    /\ resume' = IF controller # None THEN <<controller, "abort">> ELSE <<>>
    /\ stopped' = stopped \cup {c \in Calls : c = controller}
    /\ controller' = None
    /\ isLoading' = FALSE

StopResponse ==
    /\ Abort
    /\ messages' = ClearFlags(messages)
    /\ UNCHANGED <<userInput, sessionId>>
    /\ vue' = Notify(vue, Affected, TRUE)
    /\ UNCHANGED <<call, dom, scrolled>>

PressEnter(c) == Idle /\ SendMessage(c)

\* The button is enabled by what was rendered, the handler looks at isLoading.
ClickSendButton ==
    /\ Idle
    /\ dom.busy \/ dom.input
    /\ \/ isLoading /\ StopResponse /\ UNCHANGED browser
       \/ \E c \in Calls : SendMessage(c)

\* stopResponse, then a new list: its setter always notifies.
StartNewConversation ==
    /\ Idle
    /\ ~dom.busy
    /\ sessionId < MaxSessions
    /\ Abort
    /\ messages' = <<Greeting>>
    /\ sessionId' = sessionId + 1
    /\ vue' = NextTick(Notify(vue, Watchers, TRUE), "scrollToBottom", TRUE)
    /\ UNCHANGED <<userInput, call, dom, scrolled, browser>>

\* The page may stay for a while after history.back() was asked for.
HandleClose == Idle /\ isLoading /\ StopResponse /\ UNCHANGED browser

\* beforeunload, then the page is gone.
Unload == Idle /\ StopResponse /\ open' = FALSE /\ UNCHANGED <<abortable, streaming>>

-----------------------------------------------------------------------------
(* Events of the network: each settles the promise a call awaits.           *)

Settle(c, result) ==
    /\ Idle
    /\ resume' = <<c, result>>
    /\ UNCHANGED <<data, call, vue, dom, scrolled, browser, stopped>>

Respond(c) ==
    call[c].pc = "fetch" /\ \E result \in {"ok", "bad", "error"} : Settle(c, result)

Stream(c) ==
    /\ call[c].pc = "read"
    /\ \/ call[c].got < MaxChunks /\ Settle(c, "chunk")
       \/ \E result \in {"done", "error"} : Settle(c, result)

DeliverText(c) ==
    call[c].pc = "text" /\ \E result \in {"text", "error"} : Settle(c, result)

-----------------------------------------------------------------------------
(* The rest of _sendMessage, from one await to the next.                    *)

Resumes(c, result) == resume = <<c, result>> /\ resume' = <<>>

\* Mutant: finally only follows an answer that was complete.
EndOnSuccess(c, list) ==
    /\ messages' = ClearFlags(list)
    /\ isLoading' = (resume[2] \notin {"done", "text", "abort"} /\ isLoading)
    /\ controller' = None
    /\ call' = [call EXCEPT ![c].pc = "ended"]
    /\ UNCHANGED <<userInput, sessionId, dom, scrolled, browser, stopped>>
    /\ vue' = NextTick(Notify(vue, Affected, FALSE), "scroll", FALSE)

\* finally.
End(c, list) ==
    /\ messages' = ClearFlags(list)
    /\ isLoading' = FALSE
    /\ controller' = None
    /\ call' = [call EXCEPT ![c].pc = "ended"]
    /\ UNCHANGED <<userInput, sessionId, dom, scrolled, browser, stopped>>
    /\ vue' = NextTick(Notify(vue, Affected, FALSE), "scroll", FALSE)

\* catch, for every error but AbortError: the last message shows it.
Fail(c) == End(c, [messages EXCEPT ![Last].content = [by |-> c, upto |-> Failed]])

\* The response: messageIndex is the last message of now.
GetResponse(c) ==
    /\ Resumes(c, "ok")
    /\ messages' = IF streaming
                   THEN [messages EXCEPT ![Last].isLoading = FALSE, ![Last].isStreaming = TRUE]
                   ELSE messages
    /\ call' = [call EXCEPT ![c].pc = IF streaming THEN "read" ELSE "text", ![c].at = Last]
    /\ UNCHANGED <<userInput, isLoading, controller, sessionId>>
    /\ vue' = Notify(vue, Affected, FALSE)
    /\ UNCHANGED <<dom, scrolled, browser, stopped>>

\* messages[messageIndex] is undefined if the list has become shorter: a TypeError.
Present(c) == call[c].at \in DOMAIN messages

ReadChunk(c) ==
    /\ Resumes(c, "chunk")
    /\ IF Present(c)
       THEN LET got == call[c].got + 1 IN
            /\ messages' = [messages EXCEPT ![call[c].at].content = [by |-> c, upto |-> got]]
            /\ call' = [call EXCEPT ![c].got = got]
            /\ UNCHANGED <<userInput, isLoading, controller, sessionId>>
            /\ vue' = NextTick(Notify(vue, Affected, FALSE), "scroll", FALSE)
            /\ UNCHANGED <<dom, scrolled, browser, stopped>>
       ELSE Fail(c)

ReadDone(c) ==
    /\ Resumes(c, "done")
    /\ IF Present(c) THEN End(c, [messages EXCEPT ![call[c].at].isStreaming = FALSE])
                     ELSE Fail(c)

GetText(c) ==
    /\ Resumes(c, "text")
    /\ IF Present(c)
       THEN End(c, [messages EXCEPT ![call[c].at].content = [by |-> c, upto |-> MaxChunks]])
       ELSE Fail(c)

CatchError(c) == (Resumes(c, "bad") \/ Resumes(c, "error")) /\ Fail(c)

\* Mutant: an AbortError is shown like any other error.
ShowAbort(c) == Resumes(c, "abort") /\ Fail(c)

CatchAbort(c) == Resumes(c, "abort") /\ End(c, messages)

-----------------------------------------------------------------------------
Resume(c) ==
    \/ GetResponse(c) \/ ReadChunk(c) \/ ReadDone(c) \/ GetText(c)
    \/ CatchError(c) \/ CatchAbort(c)
Network(c) == Respond(c) \/ Stream(c) \/ DeliverText(c)
RunVue == FlushTimer \/ FlushSchedulerQueue \/ ScrollToBottom \/ Scroll
User ==
    \/ Type \/ ClickSendButton \/ StartNewConversation \/ HandleClose \/ Unload
    \/ \E c \in Calls : PressEnter(c)

Next == User \/ RunVue \/ \E c \in Calls : Network(c) \/ Resume(c)

Spec == Init /\ [][Next]_vars

\* The event loop runs what is ready, and an event of the network gets its turn between
\* those of the user; a request is answered, or fails by a timeout of the proxy.  The
\* user owes nothing.
Fairness ==
    /\ WF_vars(RunVue)
    /\ \A c \in Calls : WF_vars(Resume(c)) /\ SF_vars(Network(c))

FairSpec == Spec /\ Fairness

-----------------------------------------------------------------------------
(* Properties.                                                              *)

Active(c) == call[c].pc \in {"fetch", "read", "text"}
AtRest == resume = <<>> /\ vue.copies = <<>> /\ vue.pending = "none"

\* Where calls can be aborted, an answer, or the error in its place, stands under its own
\* question and in its own conversation, although messageIndex is the end of the list
\* after the await, and the errors of a call go to the last message of their time.
OwnAnswer ==
    abortable =>
       \A i \in DOMAIN messages :
          LET m == messages[i] IN
          /\ m.content.by \in {None, m.call}
          /\ m.call # None => SessionOf(m.call) = sessionId

\* Where calls can be aborted and between tasks, one call at most is under way: the one
\* stopResponse would abort, and isLoading, the dots and the cursor are about it.  So an
\* aborted call's finally, which resets them too, never meets a later call.
CallIsControlled ==
    abortable /\ resume = <<>> =>
       /\ \A c \in Calls : Active(c) <=> controller = c
       /\ isLoading <=> controller # None
       /\ \A i \in DOMAIN messages :
             messages[i].isLoading \/ messages[i].isStreaming =>
                messages[i].call = controller /\ controller # None

\* What is said by the messages of a call.
Answer(c) == {messages[i].content : i \in {j \in DOMAIN messages : messages[j].call = c}}

\* An answer that was stopped stays as it is: neither late chunks nor the AbortError that
\* ends its call change it, as long as its conversation is shown.
StoppedStays ==
    [][\A c \in stopped :
          abortable /\ sessionId' = sessionId => Answer(c)' = Answer(c)]_vars

\* When no timer is pending, the page shows the data and was scrolled after its rows
\* were rendered, whatever mixture of tasks and microtasks changed them.
ScreenIsCurrent ==
    AtRest /\ open =>
       /\ dom = View(messages, isLoading, userInput)
       /\ scrolled

\* A question does not load for ever, and the user sees that it does not.
AnswerEnds == isLoading ~> (~isLoading /\ ~dom.busy) \/ ~open
=============================================================================
