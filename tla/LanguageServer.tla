---------------------------- MODULE LanguageServer ----------------------------
(***************************************************************************)
(* The language server (lsp/server.py): the loop that handles the editor's *)
(* messages, and the debounce timers, each a thread that analyses a        *)
(* document when it goes off.  They share three dictionaries without a     *)
(* lock (the writes to the editor alone have one), so a step is one        *)
(* dictionary operation or one write.                                      *)
(*                                                                         *)
(* The diagnostics of a document are a function of its text, and are       *)
(* represented by that text.  Only files the server has an opinion about   *)
(* (lintable) are opened.                                                  *)
(***************************************************************************)
EXTENDS Naturals, FiniteSets

CONSTANTS Uris,         \* documents
          Texts,        \* what they contain
          NoText,       \* no entry, and nothing shown
          Raising,      \* texts whose analysis raises an exception
          MaxMessages   \* bound: notifications the editor sends

ASSUME ServerAssumption == /\ Uris # {} /\ NoText \notin Texts
                           /\ Raising \subseteq Texts
                           /\ MaxMessages \in Nat \ {0}

Main == 0
Timers == 1..MaxMessages          \* the timer made for the n-th notification
Threads == {Main} \cup Timers
Running == {"pop", "read", "publish", "send"}
Closing == {"forget", "drop", "clear"}
Steps == Running \cup Closing \cup {"idle", "store", "cancel", "schedule", "stop",
                                    "none", "waiting", "done"}

VARIABLES
  documents,   \* uri -> current buffer text
  timers,      \* uri -> the timer on record for it (0: none)
  published,   \* uri -> the diagnostics last published (hover answers from them)
  shown,       \* uri -> the diagnostics the editor shows
  pc,          \* what each thread does next
  work,        \* the message and document each thread works on, the text it read
  status,      \* up, down (shutdown requested) or exited
  messages,    \* notifications handled
  fresh,       \* history: the editor was told about the current text, or that it raised
  clash        \* history: two threads were at work on the document at once

vars == <<documents, timers, published, shown, pc, work, status, messages, fresh, clash>>
server == <<documents, timers, published, status>>
history == <<fresh, clash>>

Idle == [message |-> "none", uri |-> CHOOSE u \in Uris : TRUE, text |-> NoText]

Init == /\ documents = [u \in Uris |-> NoText]
        /\ timers = [u \in Uris |-> 0]
        /\ published = [u \in Uris |-> NoText]
        /\ shown = [u \in Uris |-> NoText]
        /\ pc = [t \in Threads |-> IF t = Main THEN "idle" ELSE "none"]
        /\ work = [t \in Threads |-> Idle]
        /\ status = "up" /\ messages = 0
        /\ fresh = [u \in Uris |-> TRUE]
        /\ clash = [u \in Uris |-> FALSE]

-------------------------------------------------------------------------------
Goto(t, step) == pc' = [pc EXCEPT ![t] = step]

\* A thread that is through: the loop reads on, a timer thread ends.
Finish(t) == Goto(t, IF t = Main THEN "idle" ELSE "done")

\* The threads that read, publish or clear the diagnostics of document u.
AtWork(u) == {t \in Threads : pc[t] \in Running \cup Closing /\ work[t].uri = u}

\* One more thread goes to work on document u.
Joins(u) == clash' = [clash EXCEPT ![u] = @ \/ AtWork(u) # {}]

-------------------------------------------------------------------------------
(* Messages.  An editor changes, saves and closes what it has opened. *)

Receive(message, u, x, step) ==
  /\ pc[Main] = "idle" /\ status = "up" /\ messages < MaxMessages
  /\ messages' = messages + 1
  /\ work' = [work EXCEPT ![Main] = [message |-> message, uri |-> u, text |-> x]]
  /\ Goto(Main, step)
  /\ UNCHANGED <<server, shown, history>>

DidOpen(u, x) == documents[u] = NoText /\ Receive("open", u, x, "store")
DidChange(u, x) == documents[u] # NoText /\ Receive("change", u, x, "store")
DidSave(u) == documents[u] # NoText /\ Receive("save", u, documents[u], "store")
DidClose(u) == documents[u] # NoText /\ Receive("close", u, NoText, "cancel")

\* The whole text replaces the buffer.
Store ==
  /\ pc[Main] = "store"
  /\ LET w == work[Main]
     IN /\ documents' = [documents EXCEPT ![w.uri] = w.text]
        /\ fresh' = [fresh EXCEPT ![w.uri] = FALSE]
  /\ Goto(Main, "cancel")
  /\ UNCHANGED <<timers, published, shown, work, status, messages, clash>>

\* The timers in S stop, those among them that have not gone off.
Stopped(S) == [t \in Threads |-> IF t \in S /\ pc[t] = "waiting" THEN "done" ELSE pc[t]]

\* _cancel, and on to what the message asks for: a change waits for its timer,
\* an opened or saved document is analysed by this thread.
Cancel ==
  /\ pc[Main] = "cancel"
  /\ LET u == work[Main].uri
         m == work[Main].message
         step == CASE m = "change" -> "schedule" [] m = "close" -> "forget" [] OTHER -> "pop"
     IN /\ timers' = [timers EXCEPT ![u] = 0]
        /\ pc' = [Stopped({timers[u]} \ {0}) EXCEPT ![Main] = step]
        /\ IF m = "change" THEN UNCHANGED clash ELSE Joins(u)
  /\ UNCHANGED <<documents, published, shown, work, status, messages, fresh>>

\* Mutant: the pending timer is cancelled after the new one is on record.
Schedule_ThenCancel ==
  /\ pc[Main] = "schedule"
  /\ pc' = [pc EXCEPT ![Main] = "idle", ![messages] = "done"]
  /\ work' = [work EXCEPT ![messages] = [work[Main] EXCEPT !.text = NoText]]
  /\ UNCHANGED <<server, shown, messages, history>>

\* A timer is made, put on record and started.
Schedule ==
  /\ pc[Main] = "schedule"
  /\ timers' = [timers EXCEPT ![work[Main].uri] = messages]
  /\ pc' = [pc EXCEPT ![Main] = "idle", ![messages] = "waiting"]
  /\ work' = [work EXCEPT ![messages] = [work[Main] EXCEPT !.text = NoText]]
  /\ UNCHANGED <<documents, published, shown, status, messages, history>>

\* didClose: the buffer goes, then the diagnostics on record, then those shown.
Forget ==
  /\ pc[Main] = "forget"
  /\ documents' = [documents EXCEPT ![work[Main].uri] = NoText]
  /\ Goto(Main, "drop")
  /\ UNCHANGED <<timers, published, shown, work, status, messages, history>>

Drop ==
  /\ pc[Main] = "drop"
  /\ published' = [published EXCEPT ![work[Main].uri] = NoText]
  /\ Goto(Main, "clear")
  /\ UNCHANGED <<documents, timers, shown, work, status, messages, history>>

Clear ==
  /\ pc[Main] = "clear"
  /\ shown' = [shown EXCEPT ![work[Main].uri] = NoText]
  /\ Finish(Main)
  /\ UNCHANGED <<server, work, messages, history>>

\* shutdown: every timer on record is cancelled, and the editor sends only exit.
Shutdown ==
  /\ pc[Main] = "idle" /\ status = "up"
  /\ status' = "down"
  /\ timers' = [u \in Uris |-> 0]
  /\ pc' = Stopped({timers[u] : u \in Uris})
  /\ UNCHANGED <<documents, published, shown, work, messages, history>>

\* exit, or the pipe closes: the process ends, and its daemon threads with it.
Exit ==
  /\ pc[Main] = "idle" /\ status # "exited"
  /\ status' = "exited"
  /\ pc' = [t \in Threads |-> "done"]
  /\ UNCHANGED <<documents, timers, published, shown, work, messages, history>>

-------------------------------------------------------------------------------
(* _run, by the loop or by a timer's thread. *)

\* A timer goes off.
Fire(t) ==
  /\ pc[t] = "waiting"
  /\ Goto(t, "pop")
  /\ Joins(work[t].uri)
  /\ UNCHANGED <<server, shown, work, messages, fresh>>

\* Whatever timer is on record is taken off it, a newer one too.
Pop(t) ==
  /\ pc[t] = "pop"
  /\ timers' = [timers EXCEPT ![work[t].uri] = 0]
  /\ Goto(t, "read")
  /\ UNCHANGED <<documents, published, shown, work, status, messages, history>>

\* Mutant: a document that is not there is read as an empty one.
Read_Default(t) ==
  /\ pc[t] = "read"
  /\ LET x == documents[work[t].uri]
     IN work' = [work EXCEPT ![t].text = IF x = NoText THEN CHOOSE y \in Texts : TRUE ELSE x]
  /\ Goto(t, "publish")
  /\ UNCHANGED <<server, shown, messages, history>>

\* The buffer is read, and analysed from here on.
Read(t) ==
  /\ pc[t] = "read"
  /\ LET x == documents[work[t].uri]
     IN \/ x = NoText /\ Finish(t) /\ UNCHANGED work
        \/ x # NoText /\ Goto(t, "publish") /\ work' = [work EXCEPT ![t].text = x]
  /\ UNCHANGED <<server, shown, messages, history>>

Told(u, x) == fresh' = [fresh EXCEPT ![u] = @ \/ x = documents[u]]

\* An analysis that raised is logged, and leaves the diagnostics as they are.
Publish(t) ==
  /\ pc[t] = "publish"
  /\ LET u == work[t].uri
         x == work[t].text
     IN \/ x \in Raising /\ Finish(t) /\ Told(u, x) /\ UNCHANGED published
        \/ /\ x \notin Raising
           /\ published' = [published EXCEPT ![u] = x]
           /\ Goto(t, "send")
           /\ UNCHANGED fresh
  /\ UNCHANGED <<documents, timers, shown, work, status, messages, clash>>

Send(t) ==
  /\ pc[t] = "send"
  /\ LET u == work[t].uri
         x == work[t].text
     IN shown' = [shown EXCEPT ![u] = x] /\ Told(u, x)
  /\ Finish(t)
  /\ UNCHANGED <<server, work, messages, clash>>

-------------------------------------------------------------------------------
Message == \E u \in Uris : \/ \E x \in Texts : DidOpen(u, x) \/ DidChange(u, x)
                           \/ DidSave(u) \/ DidClose(u)

Handle == Store \/ Cancel \/ Schedule \/ Forget \/ Drop \/ Clear

Run(t) == Fire(t) \/ Pop(t) \/ Read(t) \/ Publish(t) \/ Send(t)

Next == \/ Message \/ Shutdown \/ Exit \/ Handle
        \/ \E t \in Threads : Run(t)

Spec == Init /\ [][Next]_vars

\* The loop handles what it has read, and threads are scheduled.
FairSpec == Spec /\ WF_vars(Handle) /\ \A t \in Threads : WF_vars(Run(t))

-------------------------------------------------------------------------------
(* Properties. *)

TypeOK ==
  /\ documents \in [Uris -> Texts \cup {NoText}]
  /\ timers \in [Uris -> Threads]
  /\ published \in [Uris -> Texts \cup {NoText}]
  /\ shown \in [Uris -> Texts \cup {NoText}]
  /\ pc \in [Threads -> Steps]
  /\ work \in [Threads -> [message : {"none", "open", "change", "save", "close"},
                           uri : Uris, text : Texts \cup {NoText}]]
  /\ status \in {"up", "down", "exited"}
  /\ messages \in 0..MaxMessages
  /\ fresh \in [Uris -> BOOLEAN] /\ clash \in [Uris -> BOOLEAN]

\* Nothing is going on with document u, and no timer is about to start anything.
AtRest(u) == /\ pc[Main] = "idle"
             /\ \A t \in Timers : work[t].uri = u => pc[t] \in {"none", "done"}

\* The debounce is enough as long as analyses are shorter than it: if no two
\* threads were ever at work on a document at once, the editor ends up showing
\* the diagnostics of its current text -- although a timer that goes off may
\* take a newer one off the record -- and hover answers from what is shown; of
\* a closed document nothing is left.
QuietMeansCurrent ==
  status = "up" => \A u \in Uris :
    AtRest(u) /\ ~clash[u] =>
      /\ published[u] = shown[u]
      /\ documents[u] \notin Raising => shown[u] = documents[u]

\* Every text the editor sends is answered, by diagnostics or in the log, unless
\* a newer one replaces it, the document is closed or the server is shut down.
EveryTextIsAnswered ==
  \A u \in Uris : (documents[u] # NoText /\ ~fresh[u]) ~>
                    (fresh[u] \/ documents[u] = NoText \/ status # "up")

===============================================================================
