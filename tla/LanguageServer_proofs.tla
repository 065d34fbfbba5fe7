------------------------- MODULE LanguageServer_proofs -------------------------
(* The editor ends up with current diagnostics, for any documents, texts and   *)
(* number of messages.  The argument follows one document that no two threads  *)
(* work on at once (Sound): what it shows is what its text gives, or a thread  *)
(* is about to tell the editor, or one will read the text later (Awaited).     *)
(* A waiting timer that was taken off the record counts as well: nothing but   *)
(* a cancellation that is followed by another reading stops it.                *)
EXTENDS LanguageServer, TLAPS

Reads == {"store", "cancel", "schedule", "forget", "waiting", "pop", "read"}
Holds == {"publish", "send"}
Off == {"none", "idle", "done"}

\* The document will be read, or closed.
Awaited(u) == \E t \in Threads : work[t].uri = u /\ pc[t] \in Reads

Sound(u) ==
  /\ \A s, t \in AtWork(u) : s = t
  /\ \A t \in Threads : work[t].uri = u /\ pc[t] \in Holds =>
       /\ documents[u] # NoText
       /\ Awaited(u) \/ work[t].text = documents[u]
       /\ pc[t] = "send" => published[u] = work[t].text
  /\ \A t \in Threads : work[t].uri = u =>
       /\ pc[t] = "drop" => documents[u] = NoText
       /\ pc[t] = "clear" => published[u] = NoText
  /\ documents[u] = NoText =>
       \/ published[u] = NoText
       \/ \E t \in Threads : work[t].uri = u /\ pc[t] = "drop"
  /\ \/ shown[u] = published[u]
     \/ \E t \in Threads : work[t].uri = u /\ pc[t] \in {"send", "clear"}
  /\ \/ Awaited(u)
     \/ \E t \in Threads : work[t].uri = u /\ pc[t] \in Holds \cup {"drop"}
     \/ documents[u] \in Raising \cup {published[u]}

\* The loop and the timers keep to their steps, and a timer is made but once.
Roles ==
  /\ pc[Main] \notin {"none", "waiting", "done"}
  /\ \A t \in Timers : /\ pc[t] \in Running \cup {"none", "waiting", "done"}
                       /\ t > messages => pc[t] = "none"
  /\ pc[Main] \in {"store", "cancel", "schedule"} =>
       pc[messages] = "none"
  /\ pc[Main] = "store" => work[Main].text # NoText
  /\ \A u \in Uris : timers[u] # 0 => work[timers[u]].uri = u /\ pc[timers[u]] # "none"

\* Every timer has a message of its own.
Counted == pc[Main] \in {"store", "cancel", "schedule"} => messages \in Timers

IInv == /\ TypeOK /\ Counted
        /\ status = "up" => Roles /\ \A u \in Uris : clash[u] \/ Sound(u)

-------------------------------------------------------------------------------
LEMMA TimersAreNotMain == Main \notin Timers /\ Main \in Threads /\ Timers \subseteq Threads
  BY ServerAssumption DEF Main, Timers, Threads

Jobs == [message : {"none", "open", "change", "save", "close"},
         uri : Uris, text : Texts \cup {NoText}]

LEMMA JobTypes ==
  /\ TypeOK => work \in [Threads -> Jobs]
  /\ Idle \in Jobs
  /\ \A m \in {"open", "change", "save", "close"}, u \in Uris, x \in Texts \cup {NoText} :
       [message |-> m, uri |-> u, text |-> x] \in Jobs
  /\ \A w \in Jobs, x \in Texts \cup {NoText} : [w EXCEPT !.text = x] \in Jobs
  <1>1. TypeOK => work \in [Threads -> Jobs]
    BY DEF TypeOK, Jobs
  <1>2. Idle \in Jobs
    <2>1. (CHOOSE u \in Uris : TRUE) \in Uris
      BY ServerAssumption
    <2> QED BY <2>1 DEF Idle, Jobs
  <1>3. \A m \in {"open", "change", "save", "close"}, u \in Uris, x \in Texts \cup {NoText} :
          [message |-> m, uri |-> u, text |-> x] \in Jobs
    BY DEF Jobs
  <1>4. ASSUME NEW w \in Jobs, NEW x \in Texts \cup {NoText}
        PROVE  [w EXCEPT !.text = x] \in Jobs
    BY DEF Jobs
  <1> QED BY <1>1, <1>2, <1>3, <1>4

LEMMA Begins == Init => IInv
  <1> SUFFICES ASSUME Init PROVE IInv OBVIOUS
  <1> USE TimersAreNotMain, ServerAssumption DEF Init
  <1>1. pc \in [Threads -> Steps] /\ \A t \in Threads : pc[t] \in {"idle", "none"}
    BY DEF Steps
  <1>2. work \in [Threads -> Jobs]
    BY JobTypes
  <1>3. TypeOK
    BY <1>1, <1>2 DEF TypeOK, Jobs, Main
  <1>4. Roles /\ Counted
    BY DEF Roles, Counted
  <1>5. ASSUME NEW u \in Uris PROVE Sound(u)
    BY <1>1 DEF Sound, AtWork, Awaited, Holds, Reads, Running, Closing
  <1> QED BY <1>3, <1>4, <1>5 DEF IInv

-------------------------------------------------------------------------------
(* Types.                                                                      *)

LEMMA TypeStep == ASSUME TypeOK, Counted, [Next]_vars PROVE TypeOK'
  <1> USE TimersAreNotMain, ServerAssumption
      DEF Goto, Finish, Joins, Told, server, history
  <1> DEFINE Docs == Texts \cup {NoText}
             Rest == /\ documents \in [Uris -> Docs] /\ timers \in [Uris -> Threads]
                     /\ published \in [Uris -> Docs] /\ shown \in [Uris -> Docs]
                     /\ status \in {"up", "down", "exited"} /\ messages \in 0..MaxMessages
                     /\ fresh \in [Uris -> BOOLEAN] /\ clash \in [Uris -> BOOLEAN]
  <1>a. TypeOK <=> Rest /\ pc \in [Threads -> Steps] /\ work \in [Threads -> Jobs]
    BY DEF TypeOK, Jobs
  <1>b. (TypeOK <=> Rest /\ pc \in [Threads -> Steps] /\ work \in [Threads -> Jobs])'
    BY DEF TypeOK, Jobs
  <1>c. Rest /\ pc \in [Threads -> Steps] /\ work \in [Threads -> Jobs]
    BY <1>a
  <1>d. /\ Running \cup Closing \subseteq Steps
        /\ {"idle", "store", "cancel", "schedule", "none", "waiting", "done"} \subseteq Steps
        /\ Running = {"pop", "read", "publish", "send"} /\ Closing = {"forget", "drop", "clear"}
    BY DEF Steps, Running, Closing
  <1>e. \A t \in Threads : work[t].uri \in Uris /\ work[t].text \in Docs
    BY <1>c DEF Jobs
  <1> SUFFICES Rest' /\ pc' \in [Threads -> Steps] /\ work' \in [Threads -> Jobs]
    BY <1>b
  <1>1. CASE Message
    <2>1. PICK u \in Uris, x \in Docs,
               m \in {"open", "change", "save", "close"}, step \in {"store", "cancel"} :
            Receive(m, u, x, step)
      BY <1>1, <1>c DEF Message, DidOpen, DidChange, DidSave, DidClose
    <2>2. messages' \in 0..MaxMessages
      BY <2>1, <1>c DEF Receive
    <2>3. [message |-> m, uri |-> u, text |-> x] \in Jobs
      BY JobTypes
    <2>4. work' \in [Threads -> Jobs] /\ pc' \in [Threads -> Steps]
      BY <2>1, <2>3, <1>c, <1>d DEF Receive
    <2> QED BY <2>1, <2>2, <2>4, <1>c DEF Receive
  <1>2. CASE Shutdown
    BY <1>2, <1>c, <1>d DEF Shutdown, Stopped, Main
  <1>3. CASE Exit
    BY <1>3, <1>c, <1>d DEF Exit
  <1>4. CASE Store
    BY <1>4, <1>c, <1>d, <1>e DEF Store
  <1>5. CASE Cancel
    <2>1. PICK step \in {"schedule", "forget", "pop"} :
            pc' = [Stopped({timers[work[Main].uri]} \ {0}) EXCEPT ![Main] = step]
      BY <1>5 DEF Cancel
    <2>2. pc' \in [Threads -> Steps]
      BY <2>1, <1>c, <1>d DEF Stopped
    <2>3. timers' \in [Uris -> Threads] /\ clash' \in [Uris -> BOOLEAN]
      BY <1>5, <1>c DEF Cancel, Main
    <2> QED BY <1>5, <2>2, <2>3, <1>c DEF Cancel
  <1>6. CASE Schedule
    <2>1. messages \in Threads
      BY <1>6 DEF Schedule, Counted
    <2>2. [work[Main] EXCEPT !.text = NoText] \in Jobs
      BY <1>c, JobTypes
    <2>3. work' \in [Threads -> Jobs] /\ pc' \in [Threads -> Steps]
      BY <1>6, <2>1, <2>2, <1>c, <1>d DEF Schedule
    <2>4. timers' \in [Uris -> Threads]
      BY <1>6, <2>1, <1>c DEF Schedule
    <2> QED BY <1>6, <2>3, <2>4, <1>c DEF Schedule
  <1>7. CASE Forget \/ Drop \/ Clear
    <2>1. pc' \in [Threads -> Steps] /\ work' \in [Threads -> Jobs]
      BY <1>7, <1>c, <1>d DEF Forget, Drop, Clear
    <2>2. Rest'
      BY <1>7, <1>c DEF Forget, Drop, Clear
    <2> HIDE DEF Rest
    <2> QED BY <2>1, <2>2
  <1>8. ASSUME NEW t \in Threads, Fire(t) \/ Pop(t)
        PROVE  Rest' /\ pc' \in [Threads -> Steps] /\ work' \in [Threads -> Jobs]
    <2>1. pc' \in [Threads -> Steps] /\ work' \in [Threads -> Jobs]
      BY <1>8, <1>c, <1>d DEF Fire, Pop
    <2>2. timers' \in [Uris -> Threads]
      BY <1>8, <1>c DEF Fire, Pop, Main
    <2>3. clash' \in [Uris -> BOOLEAN]
      BY <1>8, <1>c DEF Fire, Pop
    <2>4. Rest'
      BY <1>8, <2>2, <2>3, <1>c DEF Fire, Pop
    <2> HIDE DEF Rest
    <2> QED BY <2>1, <2>4
  <1>9. ASSUME NEW t \in Threads, Read(t)
        PROVE  Rest' /\ pc' \in [Threads -> Steps] /\ work' \in [Threads -> Jobs]
    <2>1. documents[work[t].uri] \in Docs
      BY <1>c, <1>e
    <2>2. [work[t] EXCEPT !.text = documents[work[t].uri]] \in Jobs
      BY <2>1, <1>c, JobTypes
    <2>3. work' = work \/ work' = [work EXCEPT ![t] = [work[t] EXCEPT !.text = documents[work[t].uri]]]
      BY <1>9, <1>c DEF Read
    <2>4. work' \in [Threads -> Jobs]
      BY <2>2, <2>3, <1>c
    <2>5. pc' \in [Threads -> Steps]
      BY <1>9, <1>c, <1>d DEF Read
    <2>6. Rest'
      BY <1>9, <1>c DEF Read
    <2> HIDE DEF Rest
    <2> QED BY <2>4, <2>5, <2>6
  <1>10. ASSUME NEW t \in Threads, Publish(t)
        PROVE  Rest' /\ pc' \in [Threads -> Steps] /\ work' \in [Threads -> Jobs]
    <2>1. pc' \in [Threads -> Steps] /\ work' \in [Threads -> Jobs]
      BY <1>10, <1>c, <1>d DEF Publish
    <2>2. fresh' \in [Uris -> BOOLEAN] /\ clash' \in [Uris -> BOOLEAN]
      BY <1>10, <1>c DEF Publish
    <2>3. Rest'
      BY <1>10, <2>2, <1>c, <1>e DEF Publish
    <2> HIDE DEF Rest
    <2> QED BY <2>1, <2>3
  <1>11. ASSUME NEW t \in Threads, Send(t)
        PROVE  Rest' /\ pc' \in [Threads -> Steps] /\ work' \in [Threads -> Jobs]
    <2>1. pc' \in [Threads -> Steps] /\ work' \in [Threads -> Jobs]
      BY <1>11, <1>c, <1>d DEF Send
    <2>2. fresh' \in [Uris -> BOOLEAN] /\ clash' \in [Uris -> BOOLEAN]
      BY <1>11, <1>c DEF Send
    <2>3. Rest'
      BY <1>11, <2>2, <1>c, <1>e DEF Send
    <2> HIDE DEF Rest
    <2> QED BY <2>1, <2>3
  <1>12. CASE UNCHANGED vars
    BY <1>12, <1>c DEF vars
  <1> QED BY <1>1, <1>2, <1>3, <1>4, <1>5, <1>6, <1>7, <1>8, <1>9, <1>10, <1>11, <1>12
          DEF Next, Handle, Run

LEMMA CountedStep == ASSUME IInv, [Next]_vars PROVE Counted'
  <1> USE TimersAreNotMain DEF Counted
  <1>a. pc \in [Threads -> Steps] /\ messages \in Nat
    BY DEF IInv, TypeOK
  <1>1. CASE Message
    <2>1. messages' \in Timers
      BY <1>1, <1>a, ServerAssumption DEF Message, DidOpen, DidChange, DidSave, DidClose, Receive, Timers
    <2> QED BY <2>1
  <1>2. CASE Handle
    <2>1. messages' = messages
      BY <1>2 DEF Handle, Store, Cancel, Schedule, Forget, Drop, Clear
    <2>2. pc'[Main] \in {"store", "cancel", "schedule"} => pc[Main] \in {"store", "cancel", "schedule"}
      <3>1. CASE Schedule
        BY <3>1, <1>a, ServerAssumption DEF Schedule, Timers, Main, IInv, Counted
      <3>2. CASE Cancel
        BY <3>2 DEF Cancel
      <3>3. CASE Store \/ Forget \/ Drop \/ Clear
        BY <3>3, <1>a DEF Store, Forget, Drop, Clear, Goto, Finish
      <3> QED BY <1>2, <3>1, <3>2, <3>3 DEF Handle
    <2> QED BY <2>1, <2>2 DEF IInv
  <1>3. ASSUME NEW t \in Threads, Run(t) PROVE Counted'
    <2>1. messages' = messages
      BY <1>3 DEF Run, Fire, Pop, Read, Publish, Send
    <2>2. PICK step \in {"pop", "read", "publish", "send", "idle", "done"} : pc' = [pc EXCEPT ![t] = step]
      BY <1>3 DEF Run, Fire, Pop, Read, Publish, Send, Goto, Finish
    <2> QED BY <2>1, <2>2, <1>a DEF IInv
  <1>4. CASE Shutdown \/ Exit
    BY <1>4, <1>a DEF Shutdown, Exit, Stopped, IInv
  <1>5. CASE UNCHANGED vars
    BY <1>5 DEF vars, IInv
  <1> QED BY <1>1, <1>2, <1>3, <1>4, <1>5 DEF Next

-------------------------------------------------------------------------------
(* Roles.                                                                      *)

LEMMA StillUp == ASSUME [Next]_vars, status' = "up" PROVE status = "up" /\ ~Shutdown /\ ~Exit
  BY DEF Next, Message, DidOpen, DidChange, DidSave, DidClose, Receive, Handle, Store, Cancel,
         Schedule, Forget, Drop, Clear, Shutdown, Exit, Run, Fire, Pop, Read, Publish, Send,
         vars, server

LEMMA RolesMessage == ASSUME IInv, Roles, Message PROVE Roles'
  <1> USE TimersAreNotMain
  <1>1. PICK u \in Uris, x \in Texts \cup {NoText},
             m \in {"open", "change", "save", "close"}, step \in {"store", "cancel"} :
          Receive(m, u, x, step) /\ (step = "store" => x # NoText)
    BY ServerAssumption DEF Message, DidOpen, DidChange, DidSave, DidClose, IInv, TypeOK
  <1>2. pc' = [pc EXCEPT ![Main] = step] /\ pc \in [Threads -> Steps] /\ messages' = messages + 1
    BY <1>1 DEF Receive, Goto, IInv, TypeOK
  <1>3. /\ work' = [work EXCEPT ![Main] = [message |-> m, uri |-> u, text |-> x]]
        /\ work \in [Threads -> Jobs] /\ timers' = timers /\ timers \in [Uris -> Threads]
    BY <1>1, JobTypes DEF Receive, server, IInv, TypeOK
  <1>4. \A t \in Timers : pc'[t] = pc[t] /\ t \in Nat /\ messages \in Nat
    BY <1>2 DEF Timers, IInv, TypeOK
  <1>5. messages' \in Timers => pc'[messages'] = "none"
    BY <1>2, <1>4 DEF Roles
  <1>6. messages' \in Timers
    BY <1>1, <1>2, ServerAssumption DEF Receive, Timers, IInv, TypeOK
  <1>7. \A v \in Uris : timers[v] # 0 => timers[v] \in Timers
    BY <1>3 DEF Threads, Main
  <1>8. \A v \in Uris : timers'[v] # 0 => work'[timers'[v]].uri = v /\ pc'[timers'[v]] # "none"
    BY <1>2, <1>3, <1>7 DEF Roles
  <1>9. pc'[Main] = "store" => work'[Main].text # NoText
    BY <1>1, <1>2, <1>3
  <1>10. \A t \in Timers : /\ pc'[t] \in Running \cup {"none", "waiting", "done"}
                           /\ t > messages' => pc'[t] = "none"
    BY <1>2, <1>4 DEF Roles
  <1>11. pc'[Main] \notin {"none", "waiting", "done"}
    BY <1>2
  <1>12. pc'[Main] \in {"store", "cancel", "schedule"} => pc'[messages'] = "none"
    BY <1>5, <1>6
  <1> QED BY <1>8, <1>9, <1>10, <1>11, <1>12 DEF Roles

(* A step of the loop alone, or of a timer's thread, that makes no timer.      *)
LEMMA RolesOwn ==
  ASSUME IInv, Roles, NEW t \in Threads, NEW step,
         pc' = [pc EXCEPT ![t] = step],
         \/ t = Main /\ step \in Running \cup Closing \cup {"idle", "cancel"}
         \/ t \in Timers /\ step \in Running \cup {"done"} /\ pc[t] # "none",
         step = "cancel" => pc[Main] = "store",
         messages' = messages,
         work' = work \/ \E x : work' = [work EXCEPT ![t].text = x],
         \A u \in Uris : timers'[u] \in {0, timers[u]},
         ~(t = Main /\ step = "store")
  PROVE  Roles'
  <1> USE TimersAreNotMain DEF Running, Closing
  <1>1. pc \in [Threads -> Steps] /\ work \in [Threads -> Jobs] /\ timers \in [Uris -> Threads] /\ messages \in Nat
    BY JobTypes DEF IInv, TypeOK
  <1>2. \A s \in Threads : work'[s].uri = work[s].uri
    BY <1>1 DEF Jobs
  <1>3. \A s \in Timers : /\ pc'[s] \in Running \cup {"none", "waiting", "done"}
                          /\ s > messages => pc'[s] = "none"
                          /\ pc[s] # "none" => pc'[s] # "none"
                          /\ pc[s] = "none" => pc'[s] = "none"
    BY <1>1 DEF Roles
  <1>4. pc'[Main] \notin {"none", "waiting", "done"}
    BY <1>1 DEF Roles
  <1>5. pc'[Main] \in {"store", "cancel", "schedule"} => pc'[messages] = "none"
    <2>1. pc'[Main] \in {"store", "cancel", "schedule"} => pc[Main] \in {"store", "cancel", "schedule"}
      BY <1>1
    <2>2. pc[Main] \in {"store", "cancel", "schedule"} => messages \in Timers
      BY DEF IInv, Counted
    <2> QED BY <2>1, <2>2, <1>3 DEF Roles
  <1>6. pc'[Main] = "store" => work'[Main].text # NoText
    BY <1>1 DEF Roles
  <1>7. \A u \in Uris : timers'[u] # 0 => work'[timers'[u]].uri = u /\ pc'[timers'[u]] # "none"
    <2> TAKE u \in Uris
    <2> HAVE timers'[u] # 0
    <2>1. timers'[u] = timers[u] /\ timers[u] \in Timers
      BY <1>1 DEF Threads, Main
    <2> QED BY <2>1, <1>2, <1>3 DEF Roles
  <1> QED BY <1>3, <1>4, <1>5, <1>6, <1>7 DEF Roles

(* The timers in S stop, and the loop goes on to schedule or to work.          *)
LEMMA RolesCancel == ASSUME IInv, Roles, Cancel PROVE Roles'
  <1> USE TimersAreNotMain
  <1>1. PICK step \in {"schedule", "forget", "pop"} :
          pc' = [Stopped({timers[work[Main].uri]} \ {0}) EXCEPT ![Main] = step]
    BY DEF Cancel
  <1>2. pc \in [Threads -> Steps] /\ timers \in [Uris -> Threads] /\ messages \in Timers
        /\ pc[messages] = "none" /\ messages' = messages /\ work' = work
    BY DEF Cancel, IInv, TypeOK, Counted, Roles
  <1>3. \A t \in Timers : pc'[t] = pc[t] \/ (pc[t] = "waiting" /\ pc'[t] = "done")
    BY <1>1, <1>2 DEF Stopped
  <1>4. pc'[Main] = step
    BY <1>1, <1>2 DEF Stopped
  <1>5. \A u \in Uris : timers'[u] # 0 => timers'[u] = timers[u] /\ timers[u] \in Timers
    BY <1>2 DEF Cancel, Threads, Main
  <1>6. \A u \in Uris : timers'[u] # 0 => work'[timers'[u]].uri = u /\ pc'[timers'[u]] # "none"
    BY <1>2, <1>3, <1>5 DEF Roles
  <1>7. \A t \in Timers : /\ pc'[t] \in Running \cup {"none", "waiting", "done"}
                          /\ t > messages' => pc'[t] = "none"
    BY <1>2, <1>3 DEF Roles
  <1>8. pc'[messages'] = "none"
    BY <1>2, <1>3
  <1>9. pc'[Main] \notin {"none", "waiting", "done", "store"}
    BY <1>4
  <1> QED BY <1>6, <1>7, <1>8, <1>9 DEF Roles

LEMMA RolesSchedule == ASSUME IInv, Roles, Schedule PROVE Roles'
  <1> USE TimersAreNotMain
  <1>1. pc \in [Threads -> Steps] /\ timers \in [Uris -> Threads] /\ work \in [Threads -> Jobs]
        /\ messages \in Timers /\ pc[messages] = "none" /\ messages' = messages
    BY JobTypes DEF Schedule, IInv, TypeOK, Counted, Roles
  <1>2. pc' = [pc EXCEPT ![Main] = "idle", ![messages] = "waiting"]
    BY DEF Schedule
  <1>3. work' = [work EXCEPT ![messages] = [work[Main] EXCEPT !.text = NoText]]
    BY DEF Schedule
  <1>4. timers' = [timers EXCEPT ![work[Main].uri] = messages]
    BY DEF Schedule
  <1>5. pc'[Main] = "idle" /\ pc'[messages] = "waiting" /\ \A t \in Timers \ {messages} : pc'[t] = pc[t]
    BY <1>1, <1>2
  <1>6. work'[messages].uri = work[Main].uri /\ \A t \in Timers \ {messages} : work'[t] = work[t]
    BY <1>1, <1>3 DEF Jobs
  <1>7. \A u \in Uris : timers'[u] # 0 => work'[timers'[u]].uri = u /\ pc'[timers'[u]] # "none"
    <2> TAKE u \in Uris
    <2> HAVE timers'[u] # 0
    <2>1. CASE timers'[u] = messages /\ u = work[Main].uri
      BY <2>1, <1>5, <1>6
    <2>2. CASE timers'[u] = timers[u] /\ timers[u] \in Timers
      <3>1. timers[u] # messages
        BY <2>2, <1>1 DEF Roles
      <3> QED BY <2>2, <3>1, <1>5, <1>6 DEF Roles
    <2> QED BY <2>1, <2>2, <1>1, <1>4 DEF Threads, Main
  <1>8. \A t \in Timers : /\ pc'[t] \in Running \cup {"none", "waiting", "done"}
                          /\ t > messages' => pc'[t] = "none"
    <2>1. ~(messages > messages)
      BY <1>1 DEF Timers
    <2> QED BY <2>1, <1>1, <1>5 DEF Roles
  <1> QED BY <1>5, <1>7, <1>8 DEF Roles

LEMMA RolesStep == ASSUME IInv, [Next]_vars, status' = "up" PROVE Roles'
  <1> USE TimersAreNotMain
  <1>0. status = "up" /\ ~Shutdown /\ ~Exit /\ Roles
    BY StillUp DEF IInv
  <1>a. pc \in [Threads -> Steps] /\ timers \in [Uris -> Threads] /\ work \in [Threads -> Jobs]
    BY JobTypes DEF IInv, TypeOK
  <1>1. CASE Message
    BY <1>0, <1>1, RolesMessage
  <1>2. CASE Cancel
    BY <1>0, <1>2, RolesCancel
  <1>3. CASE Schedule
    BY <1>0, <1>3, RolesSchedule
  <1>4. CASE Store \/ Forget \/ Drop \/ Clear
    <2>1. PICK step \in {"cancel", "drop", "clear", "idle"} :
            pc' = [pc EXCEPT ![Main] = step] /\ (step = "cancel" => pc[Main] = "store")
      BY <1>4 DEF Store, Forget, Drop, Clear, Goto, Finish
    <2>2. messages' = messages /\ work' = work /\ timers' = timers
      BY <1>4 DEF Store, Forget, Drop, Clear, server
    <2> QED BY <1>0, <2>1, <2>2, RolesOwn DEF Closing
  <1>5. ASSUME NEW t \in Threads, Run(t) PROVE Roles'
    <2>1. PICK step \in {"pop", "read", "publish", "send", "idle", "done"} :
            /\ pc' = [pc EXCEPT ![t] = step]
            /\ step = "idle" => t = Main
            /\ step = "done" => t # Main
      BY <1>5 DEF Run, Fire, Pop, Read, Publish, Send, Goto, Finish
    <2>2. pc[t] # "none" /\ messages' = messages
      BY <1>5 DEF Run, Fire, Pop, Read, Publish, Send
    <2>3. work' = work \/ \E x : work' = [work EXCEPT ![t].text = x]
      BY <1>5 DEF Run, Fire, Pop, Read, Publish, Send
    <2>4. \A u \in Uris : timers'[u] \in {0, timers[u]}
      BY <1>5, <1>a DEF Run, Fire, Pop, Read, Publish, Send, server
    <2>5. CASE t = Main
      BY <1>0, <2>1, <2>2, <2>3, <2>4, <2>5, RolesOwn DEF Running
    <2>6. CASE t # Main
      <3>1. t \in Timers
        BY <2>6 DEF Threads
      <3> QED BY <1>0, <2>1, <2>2, <2>3, <2>4, <2>6, <3>1, RolesOwn DEF Running
    <2> QED BY <2>5, <2>6
  <1>6. CASE UNCHANGED vars
    BY <1>0, <1>6 DEF vars, Roles
  <1> QED BY <1>0, <1>1, <1>2, <1>3, <1>4, <1>5, <1>6 DEF Next, Handle

-------------------------------------------------------------------------------
(* Soundness of one document.                                                  *)

(* What happens to other documents does not matter to document u.              *)
LEMMA Elsewhere ==
  ASSUME TypeOK, NEW u \in Uris, Sound(u),
         documents'[u] = documents[u], published'[u] = published[u], shown'[u] = shown[u],
         \A t \in Threads :
           (work[t].uri = u /\ pc[t] \notin Off) \/ (work'[t].uri = u /\ pc'[t] \notin Off)
             => work'[t] = work[t] /\ pc'[t] = pc[t]
  PROVE  Sound(u)'
  <1> DEFINE At(t, S) == work[t].uri = u /\ pc[t] \in S
  <1>1. ASSUME NEW S, S \cap Off = {} PROVE \A t \in Threads : At(t, S)' <=> At(t, S)
    BY <1>1
  <1>2. Reads \cap Off = {} /\ Holds \cap Off = {} /\ (Running \cup Closing) \cap Off = {}
        /\ {"send", "clear"} \cap Off = {} /\ {"drop"} \cap Off = {} /\ (Holds \cup {"drop"}) \cap Off = {}
    BY DEF Reads, Holds, Running, Closing, Off
  <1>3. Awaited(u)' <=> Awaited(u)
    <2>1. \A t \in Threads : At(t, Reads)' <=> At(t, Reads)
      BY <1>1, <1>2
    <2> QED BY <2>1 DEF Awaited
  <1>4. AtWork(u)' = AtWork(u)
    <2>1. \A t \in Threads : At(t, Running \cup Closing)' <=> At(t, Running \cup Closing)
      BY <1>1, <1>2
    <2> QED BY <2>1 DEF AtWork
  <1>5. \A t \in Threads : work'[t].uri = u /\ pc'[t] \in Holds =>
          /\ documents'[u] # NoText
          /\ Awaited(u)' \/ work'[t].text = documents'[u]
          /\ pc'[t] = "send" => published'[u] = work'[t].text
    <2> TAKE t \in Threads
    <2> HAVE work'[t].uri = u /\ pc'[t] \in Holds
    <2>1. work'[t] = work[t] /\ pc'[t] = pc[t]
      BY <1>2
    <2> QED BY <2>1, <1>3 DEF Sound
  <1>6. \A t \in Threads : work'[t].uri = u =>
          /\ pc'[t] = "drop" => documents'[u] = NoText
          /\ pc'[t] = "clear" => published'[u] = NoText
    BY DEF Sound, Off
  <1>7. \A t \in Threads : At(t, {"drop"})' <=> At(t, {"drop"})
    BY <1>1, <1>2
  <1>8. \A t \in Threads : At(t, {"send", "clear"})' <=> At(t, {"send", "clear"})
    BY <1>1, <1>2
  <1>9. \A t \in Threads : At(t, Holds \cup {"drop"})' <=> At(t, Holds \cup {"drop"})
    BY <1>1, <1>2
  <1>10. documents'[u] = NoText =>
           \/ published'[u] = NoText
           \/ \E t \in Threads : work'[t].uri = u /\ pc'[t] = "drop"
    BY <1>7 DEF Sound
  <1>11. \/ shown'[u] = published'[u]
         \/ \E t \in Threads : work'[t].uri = u /\ pc'[t] \in {"send", "clear"}
    BY <1>8 DEF Sound
  <1>12. \/ Awaited(u)'
         \/ \E t \in Threads : work'[t].uri = u /\ pc'[t] \in Holds \cup {"drop"}
         \/ documents'[u] \in Raising \cup {published'[u]}
    BY <1>3, <1>9 DEF Sound
  <1>13. \A s, t \in AtWork(u)' : s = t
    BY <1>4 DEF Sound
  <1> QED BY <1>5, <1>6, <1>10, <1>11, <1>12, <1>13 DEF Sound

(* A thread that is at work on a document is the only one.                     *)
LEMMA Alone ==
  ASSUME NEW u \in Uris, Sound(u), NEW t \in Threads,
         work[t].uri = u, pc[t] \in Running \cup Closing,
         NEW s \in Threads, work[s].uri = u, pc[s] \in Running \cup Closing
  PROVE  s = t
  BY DEF Sound, AtWork

\* The documents that nobody has worked on twice at once.
AllSound == \A u \in Uris : clash[u] \/ Sound(u)

LEMMA SoundMessage == ASSUME IInv, status = "up", Message PROVE AllSound'
  <1> USE TimersAreNotMain
  <1>1. PICK u \in Uris, x \in Texts \cup {NoText},
             m \in {"open", "change", "save", "close"}, step \in {"store", "cancel"} :
          Receive(m, u, x, step)
    BY DEF Message, DidOpen, DidChange, DidSave, DidClose, IInv, TypeOK
  <1>2. /\ pc[Main] = "idle" /\ pc' = [pc EXCEPT ![Main] = step] /\ pc \in [Threads -> Steps]
        /\ work' = [work EXCEPT ![Main] = [message |-> m, uri |-> u, text |-> x]]
        /\ work \in [Threads -> Jobs]
        /\ documents' = documents /\ published' = published /\ shown' = shown /\ clash' = clash
    BY <1>1, JobTypes DEF Receive, Goto, server, history, IInv, TypeOK
  <1>3. work'[Main].uri = u /\ pc'[Main] = step
    BY <1>2
  <1>4. \A t \in Threads \ {Main} : work'[t] = work[t] /\ pc'[t] = pc[t]
    BY <1>2
  <1>5. ASSUME NEW v \in Uris \ {u}, Sound(v) PROVE Sound(v)'
    <2>1. \A t \in Threads :
            (work[t].uri = v /\ pc[t] \notin Off) \/ (work'[t].uri = v /\ pc'[t] \notin Off)
              => work'[t] = work[t] /\ pc'[t] = pc[t]
      BY <1>2, <1>3, <1>4 DEF Off
    <2> QED BY <1>2, <1>5, <2>1, Elsewhere DEF IInv
  <1>6. ASSUME Sound(u) PROVE Sound(u)'
    <2>1. Awaited(u)'
      BY <1>3 DEF Awaited, Reads
    <2>2. \A t \in Threads : pc'[t] \in Running \cup Closing => t # Main /\ work'[t] = work[t] /\ pc'[t] = pc[t]
      BY <1>3, <1>4 DEF Running, Closing
    <2>3. \A t \in Threads : pc[t] \in Running \cup Closing => t # Main /\ work'[t] = work[t] /\ pc'[t] = pc[t]
      BY <1>2, <1>4 DEF Running, Closing
    <2>4. AtWork(u)' = AtWork(u)
      BY <2>2, <2>3 DEF AtWork
    <2> QED BY <1>2, <1>6, <2>1, <2>2, <2>3, <2>4 DEF Sound, Holds, Running, Closing
  <1> QED BY <1>2, <1>5, <1>6 DEF IInv, AllSound

(* Thread t, its document aside.                                               *)
LEMMA Apart ==
  ASSUME IInv, NEW t \in Threads, NEW v \in Uris, v # work[t].uri, Sound(v),
         documents'[v] = documents[v], published'[v] = published[v], shown'[v] = shown[v],
         work'[t].uri = work[t].uri,
         \A s \in Threads \ {t} : work'[s] = work[s] /\ pc'[s] = pc[s]
  PROVE  Sound(v)'
  <1>1. \A s \in Threads :
          (work[s].uri = v /\ pc[s] \notin Off) \/ (work'[s].uri = v /\ pc'[s] \notin Off)
            => work'[s] = work[s] /\ pc'[s] = pc[s]
    OBVIOUS
  <1> QED BY <1>1, Elsewhere DEF IInv

(* With one thread at work, what it knows of its document is all there is.     *)
LEMMA Lone ==
  ASSUME NEW u \in Uris, NEW t \in Threads, work'[t].uri = u,
         \A s \in Threads \ {t} : work'[s].uri = u => pc'[s] \notin Running \cup Closing,
         pc'[t] \in Holds => /\ documents'[u] # NoText
                             /\ Awaited(u)' \/ work'[t].text = documents'[u]
                             /\ pc'[t] = "send" => published'[u] = work'[t].text,
         pc'[t] = "drop" => documents'[u] = NoText,
         pc'[t] = "clear" => published'[u] = NoText,
         documents'[u] = NoText => published'[u] = NoText \/ pc'[t] = "drop",
         shown'[u] = published'[u] \/ pc'[t] \in {"send", "clear"},
         Awaited(u)' \/ pc'[t] \in Holds \cup {"drop"}
           \/ documents'[u] \in Raising \cup {published'[u]}
  PROVE  Sound(u)'
  <1>1. \A s \in Threads \ {t} : work'[s].uri = u =>
          pc'[s] \notin Holds /\ pc'[s] \notin {"drop", "clear"}
    BY DEF Holds, Running, Closing
  <1>2. \A s \in AtWork(u)' : s = t
    BY DEF AtWork
  <1> QED BY <1>1, <1>2 DEF Sound

(* So it is if that thread has yet to read the document.                       *)
LEMMA LoneReader ==
  ASSUME NEW u \in Uris, NEW t \in Threads, work'[t].uri = u, pc'[t] \in {"pop", "read", "forget"},
         \A s \in Threads \ {t} : work'[s].uri = u => pc'[s] \notin Running \cup Closing,
         documents'[u] = NoText => published'[u] = NoText,
         shown'[u] = published'[u]
  PROVE  Sound(u)'
  <1>1. Awaited(u)'
    BY DEF Awaited, Reads
  <1>2. pc'[t] \notin Holds \cup {"drop", "clear"}
    BY DEF Holds
  <1> QED BY <1>1, <1>2, Lone

(* What soundness says to a thread at work.                                    *)
LEMMA Knows ==
  ASSUME IInv, NEW t \in Threads, pc[t] \in Running \cup Closing, Sound(work[t].uri)
  PROVE  LET u == work[t].uri
         IN /\ \A s \in Threads \ {t} : work[s].uri = u => pc[s] \notin Running \cup Closing
            /\ pc[t] \in Holds => /\ documents[u] # NoText
                                  /\ Awaited(u) \/ work[t].text = documents[u]
                                  /\ pc[t] = "send" => published[u] = work[t].text
            /\ pc[t] = "drop" => documents[u] = NoText
            /\ pc[t] = "clear" => published[u] = NoText
            /\ documents[u] = NoText => published[u] = NoText \/ pc[t] = "drop"
            /\ shown[u] = published[u] \/ pc[t] \in {"send", "clear"}
            /\ Awaited(u) \/ pc[t] \in Holds \cup {"drop"}
                 \/ documents[u] \in Raising \cup {published[u]}
  <1> DEFINE u == work[t].uri
  <1>0. u \in Uris
    BY JobTypes DEF IInv, Jobs
  <1>1. \A s \in Threads \ {t} : work[s].uri = u => pc[s] \notin Running \cup Closing
    BY <1>0, Alone
  <1>2. \A s \in Threads \ {t} : work[s].uri = u =>
          pc[s] \notin Holds /\ pc[s] \notin {"drop", "send", "clear"}
    BY <1>1 DEF Holds, Running, Closing
  <1> QED BY <1>1, <1>2 DEF Sound

(* A reading that another thread owes stays owed.                              *)
LEMMA StillAwaited ==
  ASSUME NEW u \in Uris, NEW t \in Threads, pc[t] \notin Reads, Awaited(u),
         \A s \in Threads \ {t} : work'[s] = work[s] /\ pc'[s] = pc[s]
  PROVE  Awaited(u)'
  BY DEF Awaited

LEMMA SoundStore == ASSUME IInv, Roles, AllSound, Store PROVE AllSound'
  <1> USE TimersAreNotMain
  <1>0. PICK u \in Uris : u = work[Main].uri
    BY JobTypes DEF IInv, Jobs
  <1> USE <1>0
  <1>1. /\ pc[Main] = "store" /\ pc' = [pc EXCEPT ![Main] = "cancel"] /\ pc \in [Threads -> Steps]
        /\ work' = work /\ u \in Uris /\ documents' = [documents EXCEPT ![u] = work[Main].text]
        /\ documents \in [Uris -> Texts \cup {NoText}]
        /\ published' = published /\ shown' = shown /\ clash' = clash
    BY JobTypes DEF Store, Goto, IInv, TypeOK, Jobs
  <1>2. pc'[Main] = "cancel" /\ \A s \in Threads \ {Main} : pc'[s] = pc[s]
    BY <1>1
  <1>3. ASSUME NEW v \in Uris \ {u}, Sound(v) PROVE Sound(v)'
    BY <1>1, <1>2, <1>3, Apart
  <1>4. ASSUME Sound(u) PROVE Sound(u)'
    <2>1. Awaited(u)'
      BY <1>1, <1>2 DEF Awaited, Reads
    <2>2. \A t \in Threads : pc'[t] \in Running \cup Closing => pc'[t] = pc[t] /\ pc[t] \notin {"drop", "clear"}
      BY <1>1, <1>2 DEF Running, Closing, Roles, Threads
    <2>3. \A t \in Threads : pc[t] \in Running \cup Closing => pc'[t] = pc[t]
      BY <1>1, <1>2 DEF Running, Closing
    <2>4. AtWork(u)' = AtWork(u)
      BY <1>1, <2>2, <2>3 DEF AtWork
    <2>5. documents'[u] # NoText
      BY <1>1 DEF Roles
    <2> QED BY <1>1, <1>4, <2>1, <2>2, <2>3, <2>4, <2>5 DEF Sound, Holds, Running, Closing
  <1> QED BY <1>1, <1>3, <1>4 DEF AllSound

LEMMA SoundCancel == ASSUME IInv, Roles, AllSound, Cancel PROVE AllSound'
  <1> USE TimersAreNotMain
  <1>0. PICK u \in Uris : u = work[Main].uri
    BY JobTypes DEF IInv, Jobs
  <1> USE <1>0
  <1>1. PICK step \in {"schedule", "forget", "pop"} :
          /\ pc' = [Stopped({timers[u]} \ {0}) EXCEPT ![Main] = step]
          /\ (step = "schedule" /\ clash' = clash) \/ Joins(u)
    BY DEF Cancel
  <1>2. /\ pc[Main] = "cancel" /\ pc \in [Threads -> Steps] /\ work' = work /\ u \in Uris
        /\ timers \in [Uris -> Threads] /\ clash \in [Uris -> BOOLEAN]
        /\ documents' = documents /\ published' = published /\ shown' = shown
    BY JobTypes DEF Cancel, IInv, TypeOK, Jobs
  <1>3. pc'[Main] = step
    BY <1>1, <1>2 DEF Stopped
  <1>4. \A s \in Threads \ {Main} :
          pc'[s] = pc[s] \/ (work[s].uri = u /\ pc[s] = "waiting" /\ pc'[s] = "done")
    BY <1>1, <1>2 DEF Stopped, Roles, Main
  <1>5. ASSUME NEW v \in Uris \ {u}, Sound(v) PROVE Sound(v)'
    <2>1. \A s \in Threads : work[s].uri = v => pc'[s] = pc[s]
      BY <1>4
    <2> QED BY <1>2, <1>5, <2>1, Elsewhere DEF IInv
  <1>6. ASSUME Sound(u), ~clash'[u] PROVE Sound(u)'
    <2>1. Awaited(u)'
      BY <1>2, <1>3 DEF Awaited, Reads
    <2>2. \A s \in Threads \ {Main} : pc'[s] = pc[s] \/ (pc[s] \notin Running \cup Closing /\ pc'[s] \notin Running \cup Closing)
      BY <1>4 DEF Running, Closing
    <2>3. CASE step = "schedule"
      <3>1. \A s \in Threads : pc'[s] = pc[s] \/ (pc[s] \notin Running \cup Closing /\ pc'[s] \notin Running \cup Closing)
        BY <1>2, <1>3, <2>2, <2>3 DEF Running, Closing
      <3>2. AtWork(u)' = AtWork(u)
        BY <1>2, <3>1 DEF AtWork
      <3> QED BY <1>2, <1>6, <2>1, <3>1, <3>2 DEF Sound, Holds, Running, Closing
    <2>4. CASE step # "schedule"
      <3>1. AtWork(u) = {}
        BY <1>1, <1>2, <1>6, <2>4 DEF Joins
      <3>2. \A s \in Threads : work[s].uri = u => pc[s] \notin Running \cup Closing
        BY <3>1 DEF AtWork
      <3>3. \A s \in Threads \ {Main} : work'[s].uri = u => pc'[s] \notin Running \cup Closing
        BY <1>2, <2>2, <3>2
      <3>4. shown[u] = published[u] /\ (documents[u] = NoText => published[u] = NoText)
        BY <1>6, <3>2 DEF Sound, Running, Closing
      <3>5. pc'[Main] \in {"pop", "read", "forget"}
        BY <1>3, <2>4
      <3>6. work'[Main].uri = u /\ u \in Uris
        BY <1>2
      <3>7. shown'[u] = published'[u] /\ (documents'[u] = NoText => published'[u] = NoText)
        BY <1>2, <3>4
      <3> QED BY <3>3, <3>5, <3>6, <3>7, LoneReader
    <2> QED BY <2>3, <2>4
  <1>7. \A v \in Uris : ~clash'[v] => ~clash[v]
    BY <1>1, <1>2 DEF Joins
  <1> QED BY <1>2, <1>5, <1>6, <1>7 DEF AllSound

LEMMA SoundSchedule == ASSUME IInv, Roles, AllSound, Schedule PROVE AllSound'
  <1> USE TimersAreNotMain
  <1>0. PICK u \in Uris : u = work[Main].uri
    BY JobTypes DEF IInv, Jobs
  <1> USE <1>0
  <1>1. /\ pc[Main] = "schedule" /\ pc \in [Threads -> Steps] /\ work \in [Threads -> Jobs] /\ u \in Uris
        /\ messages \in Timers /\ pc[messages] = "none"
        /\ pc' = [pc EXCEPT ![Main] = "idle", ![messages] = "waiting"]
        /\ work' = [work EXCEPT ![messages] = [work[Main] EXCEPT !.text = NoText]]
        /\ documents' = documents /\ published' = published /\ shown' = shown /\ clash' = clash
    BY JobTypes DEF Schedule, history, IInv, TypeOK, Counted, Roles, Jobs
  <1>2. /\ pc'[Main] = "idle" /\ pc'[messages] = "waiting" /\ work'[messages].uri = u /\ work'[Main] = work[Main]
        /\ \A s \in Threads \ {Main, messages} : pc'[s] = pc[s] /\ work'[s] = work[s]
    BY <1>1 DEF Jobs
  <1>3. ASSUME NEW v \in Uris \ {u}, Sound(v) PROVE Sound(v)'
    <2>1. \A t \in Threads :
            (work[t].uri = v /\ pc[t] \notin Off) \/ (work'[t].uri = v /\ pc'[t] \notin Off)
              => work'[t] = work[t] /\ pc'[t] = pc[t]
      BY <1>1, <1>2 DEF Off
    <2> QED BY <1>1, <1>3, <2>1, Elsewhere DEF IInv
  <1>4. ASSUME Sound(u) PROVE Sound(u)'
    <2>1. Awaited(u)'
      BY <1>1, <1>2 DEF Awaited, Reads
    <2>2. \A t \in Threads : pc'[t] \in Running \cup Closing => pc'[t] = pc[t] /\ work'[t] = work[t]
      BY <1>1, <1>2 DEF Running, Closing
    <2>3. \A t \in Threads : pc[t] \in Running \cup Closing => pc'[t] = pc[t] /\ work'[t] = work[t]
      BY <1>1, <1>2 DEF Running, Closing
    <2>4. AtWork(u)' = AtWork(u)
      BY <2>2, <2>3 DEF AtWork
    <2> QED BY <1>1, <1>4, <2>1, <2>2, <2>3, <2>4 DEF Sound, Holds, Running, Closing
  <1> QED BY <1>1, <1>3, <1>4 DEF AllSound

(* The loop closes a document alone.                                           *)
LEMMA SoundClose == ASSUME IInv, Roles, AllSound, Forget \/ Drop \/ Clear PROVE AllSound'
  <1> USE TimersAreNotMain
  <1>0. PICK u \in Uris : u = work[Main].uri
    BY JobTypes DEF IInv, Jobs
  <1> USE <1>0
  <1>1. /\ pc[Main] \in {"forget", "drop", "clear"} /\ work' = work /\ clash' = clash /\ u \in Uris
        /\ pc \in [Threads -> Steps] /\ documents \in [Uris -> Texts \cup {NoText}]
        /\ published \in [Uris -> Texts \cup {NoText}] /\ shown \in [Uris -> Texts \cup {NoText}]
    BY JobTypes DEF Forget, Drop, Clear, history, IInv, TypeOK, Jobs
  <1>2. PICK step \in {"drop", "clear", "idle"} : pc' = [pc EXCEPT ![Main] = step]
    BY DEF Forget, Drop, Clear, Goto, Finish
  <1>3. pc'[Main] = step /\ \A s \in Threads \ {Main} : pc'[s] = pc[s]
    BY <1>1, <1>2
  <1>4. ASSUME NEW v \in Uris \ {u}, Sound(v) PROVE Sound(v)'
    <2>1. documents'[v] = documents[v] /\ published'[v] = published[v] /\ shown'[v] = shown[v]
      BY <1>1 DEF Forget, Drop, Clear, server
    <2> QED BY <1>1, <1>3, <1>4, <2>1, Apart
  <1>5. ASSUME Sound(u) PROVE Sound(u)'
    <2>1. \A s \in Threads \ {Main} : work'[s].uri = u => pc'[s] \notin Running \cup Closing
      BY <1>1, <1>3, <1>5, Knows DEF Closing
    <2>2. Awaited(u) => Awaited(u)' \/ pc[Main] = "forget"
      BY <1>1, <1>3 DEF Awaited, Reads
    <2>3. /\ pc[Main] = "drop" => documents[u] = NoText
          /\ pc[Main] = "clear" => published[u] = NoText
          /\ documents[u] = NoText => published[u] = NoText \/ pc[Main] = "drop"
          /\ shown[u] = published[u] \/ pc[Main] = "clear"
          /\ Awaited(u) \/ pc[Main] = "drop" \/ documents[u] \in Raising \cup {published[u]}
      BY <1>1, <1>5, Knows DEF Closing, Holds
    <2>4. work'[Main].uri = u
      BY <1>1
    <2>5. CASE Forget
      <3>1. pc'[Main] = "drop" /\ documents'[u] = NoText /\ shown'[u] = published'[u]
        BY <1>1, <1>3, <2>3, <2>5 DEF Forget, Goto
      <3> QED BY <1>1, <2>1, <2>4, <3>1, Lone DEF Holds
    <2>6. CASE Drop
      <3>1. pc'[Main] = "clear" /\ documents'[u] = NoText /\ published'[u] = NoText
        BY <1>1, <1>3, <2>3, <2>6 DEF Drop, Goto
      <3> QED BY <1>1, <2>1, <2>4, <3>1, Lone DEF Holds
    <2>7. CASE Clear
      <3>1. /\ pc'[Main] = "idle" /\ published'[u] = NoText /\ shown'[u] = NoText
            /\ documents'[u] = documents[u] /\ published[u] = NoText /\ pc[Main] = "clear"
        BY <1>1, <1>3, <2>3, <2>7 DEF Clear, Finish, Goto, server
      <3>2. Awaited(u)' \/ documents'[u] \in Raising \cup {published'[u]}
        BY <2>2, <2>3, <3>1
      <3> QED BY <1>1, <2>1, <2>4, <3>1, <3>2, Lone DEF Holds
    <2> QED BY <2>5, <2>6, <2>7
  <1> QED BY <1>1, <1>4, <1>5 DEF AllSound

(* A timer goes off: had anybody been at work, that would be a clash.          *)
LEMMA SoundFire == ASSUME IInv, AllSound, NEW t \in Threads, Fire(t) PROVE AllSound'
  <1> USE TimersAreNotMain
  <1>0. PICK u \in Uris : u = work[t].uri
    BY JobTypes DEF IInv, Jobs
  <1> USE <1>0
  <1>1. /\ pc[t] = "waiting" /\ pc' = [pc EXCEPT ![t] = "pop"] /\ work' = work
        /\ pc \in [Threads -> Steps] /\ clash \in [Uris -> BOOLEAN] /\ Joins(u)
        /\ documents' = documents /\ published' = published /\ shown' = shown
    BY DEF Fire, Goto, server, IInv, TypeOK
  <1>2. pc'[t] = "pop" /\ \A s \in Threads \ {t} : pc'[s] = pc[s]
    BY <1>1
  <1>3. ASSUME NEW v \in Uris \ {u}, Sound(v) PROVE Sound(v)'
    BY <1>1, <1>2, <1>3, Apart
  <1>4. ASSUME Sound(u), ~clash'[u] PROVE Sound(u)'
    <2>1. AtWork(u) = {}
      BY <1>1, <1>4 DEF Joins
    <2>2. \A s \in Threads : work[s].uri = u => pc[s] \notin Running \cup Closing
      BY <2>1 DEF AtWork
    <2>3. \A s \in Threads \ {t} : work'[s].uri = u => pc'[s] \notin Running \cup Closing
      BY <1>1, <1>2, <2>2
    <2>4. shown'[u] = published'[u] /\ (documents'[u] = NoText => published'[u] = NoText)
      BY <1>1, <1>4, <2>2 DEF Sound, Running, Closing
    <2>5. work'[t].uri = u
      BY <1>1
    <2> QED BY <1>2, <2>3, <2>4, <2>5, LoneReader
  <1>5. \A v \in Uris : ~clash'[v] => ~clash[v]
    BY <1>1 DEF Joins
  <1> QED BY <1>3, <1>4, <1>5 DEF AllSound

LEMMA SoundPop == ASSUME IInv, AllSound, NEW t \in Threads, Pop(t) PROVE AllSound'
  <1> USE TimersAreNotMain
  <1>0. PICK u \in Uris : u = work[t].uri
    BY JobTypes DEF IInv, Jobs
  <1> USE <1>0
  <1>1. /\ pc[t] = "pop" /\ pc' = [pc EXCEPT ![t] = "read"] /\ work' = work /\ clash' = clash
        /\ pc \in [Threads -> Steps]
        /\ documents' = documents /\ published' = published /\ shown' = shown
    BY DEF Pop, Goto, history, IInv, TypeOK
  <1>2. pc'[t] = "read" /\ \A s \in Threads \ {t} : pc'[s] = pc[s]
    BY <1>1
  <1>3. ASSUME NEW v \in Uris \ {u}, Sound(v) PROVE Sound(v)'
    BY <1>1, <1>2, <1>3, Apart
  <1>4. ASSUME Sound(u) PROVE Sound(u)'
    <2>1. \A s \in Threads \ {t} : work'[s].uri = u => pc'[s] \notin Running \cup Closing
      BY <1>1, <1>2, <1>4, Knows DEF Running
    <2>2. shown'[u] = published'[u] /\ (documents'[u] = NoText => published'[u] = NoText)
      BY <1>1, <1>4, Knows DEF Running
    <2>3. work'[t].uri = u
      BY <1>1
    <2> QED BY <1>2, <2>1, <2>2, <2>3, LoneReader
  <1> QED BY <1>1, <1>3, <1>4 DEF AllSound

(* What is read is the text; with none there, nothing is left to show.         *)
LEMMA SoundRead == ASSUME IInv, AllSound, NEW t \in Threads, Read(t) PROVE AllSound'
  <1> USE TimersAreNotMain
  <1>0. PICK u \in Uris : u = work[t].uri
    BY JobTypes DEF IInv, Jobs
  <1> USE <1>0
  <1>1. /\ pc[t] = "read" /\ clash' = clash /\ pc \in [Threads -> Steps] /\ work \in [Threads -> Jobs]
        /\ documents' = documents /\ published' = published /\ shown' = shown
        /\ \/ /\ documents[u] = NoText /\ work' = work
              /\ pc' = [pc EXCEPT ![t] = IF t = Main THEN "idle" ELSE "done"]
           \/ /\ documents[u] # NoText /\ pc' = [pc EXCEPT ![t] = "publish"]
              /\ work' = [work EXCEPT ![t].text = documents[u]]
    BY JobTypes DEF Read, Goto, Finish, server, history, IInv, TypeOK
  <1>2. \A s \in Threads \ {t} : pc'[s] = pc[s] /\ work'[s] = work[s]
    BY <1>1
  <1>3. work'[t].uri = u
    BY <1>1 DEF Jobs
  <1>4. ASSUME NEW v \in Uris \ {u}, Sound(v) PROVE Sound(v)'
    BY <1>1, <1>2, <1>3, <1>4, Apart
  <1>5. ASSUME Sound(u) PROVE Sound(u)'
    <2>1. \A s \in Threads \ {t} : work'[s].uri = u => pc'[s] \notin Running \cup Closing
      BY <1>1, <1>2, <1>5, Knows DEF Running
    <2>2. shown'[u] = published'[u] /\ (documents'[u] = NoText => published'[u] = NoText)
      BY <1>1, <1>5, Knows DEF Running
    <2>3. CASE documents[u] = NoText
      <3>1. pc'[t] \notin Holds \cup {"drop", "clear"}
        BY <1>1, <2>3 DEF Holds
      <3>2. documents'[u] \in Raising \cup {published'[u]}
        BY <1>1, <2>2, <2>3
      <3> QED BY <1>3, <2>1, <2>2, <3>1, <3>2, Lone
    <2>4. CASE documents[u] # NoText
      <3>1. pc'[t] = "publish" /\ work'[t].text = documents'[u] /\ documents'[u] # NoText
        BY <1>1, <2>4 DEF Jobs
      <3> QED BY <1>3, <2>1, <2>2, <3>1, Lone DEF Holds
    <2> QED BY <2>3, <2>4
  <1> QED BY <1>1, <1>4, <1>5 DEF AllSound

LEMMA SoundPublish == ASSUME IInv, AllSound, NEW t \in Threads, Publish(t) PROVE AllSound'
  <1> USE TimersAreNotMain
  <1>0. PICK u \in Uris : u = work[t].uri
    BY JobTypes DEF IInv, Jobs
  <1> USE <1>0
  <1>1. /\ pc[t] = "publish" /\ clash' = clash /\ pc \in [Threads -> Steps] /\ work' = work
        /\ documents' = documents /\ shown' = shown /\ published \in [Uris -> Texts \cup {NoText}]
        /\ \/ /\ work[t].text \in Raising /\ published' = published
              /\ pc' = [pc EXCEPT ![t] = IF t = Main THEN "idle" ELSE "done"]
           \/ /\ published' = [published EXCEPT ![u] = work[t].text]
              /\ pc' = [pc EXCEPT ![t] = "send"]
    BY DEF Publish, Goto, Finish, IInv, TypeOK
  <1>2. \A s \in Threads \ {t} : pc'[s] = pc[s] /\ work'[s] = work[s]
    BY <1>1
  <1>3. work'[t].uri = u
    BY <1>1
  <1>4. ASSUME NEW v \in Uris \ {u}, Sound(v) PROVE Sound(v)'
    <2>1. published'[v] = published[v]
      BY <1>1
    <2> QED BY <1>1, <1>2, <1>4, <2>1, Apart
  <1>5. ASSUME Sound(u) PROVE Sound(u)'
    <2>1. \A s \in Threads \ {t} : work'[s].uri = u => pc'[s] \notin Running \cup Closing
      BY <1>1, <1>2, <1>5, Knows DEF Running
    <2>2. /\ documents[u] # NoText /\ (Awaited(u) \/ work[t].text = documents[u])
          /\ shown[u] = published[u]
      BY <1>1, <1>5, Knows DEF Running, Holds
    <2>3. Awaited(u)' \/ work[t].text = documents[u]
      BY <1>1, <1>2, <2>2, StillAwaited DEF Reads
    <2>4. CASE work[t].text \in Raising /\ published' = published /\ pc'[t] \in {"idle", "done"}
      BY <1>1, <1>3, <2>1, <2>2, <2>3, <2>4, Lone DEF Holds
    <2>5. CASE published'[u] = work[t].text /\ pc'[t] = "send"
      BY <1>1, <1>3, <2>1, <2>2, <2>3, <2>5, Lone DEF Holds
    <2> QED BY <1>1, <2>4, <2>5
  <1> QED BY <1>1, <1>4, <1>5 DEF AllSound

LEMMA SoundSend == ASSUME IInv, AllSound, NEW t \in Threads, Send(t) PROVE AllSound'
  <1> USE TimersAreNotMain
  <1>0. PICK u \in Uris : u = work[t].uri
    BY JobTypes DEF IInv, Jobs
  <1> USE <1>0
  <1>1. /\ pc[t] = "send" /\ clash' = clash /\ pc \in [Threads -> Steps] /\ work' = work
        /\ documents' = documents /\ published' = published /\ shown \in [Uris -> Texts \cup {NoText}]
        /\ shown' = [shown EXCEPT ![u] = work[t].text]
        /\ pc' = [pc EXCEPT ![t] = IF t = Main THEN "idle" ELSE "done"]
    BY DEF Send, Goto, Finish, server, IInv, TypeOK
  <1>2. \A s \in Threads \ {t} : pc'[s] = pc[s] /\ work'[s] = work[s]
    BY <1>1
  <1>3. work'[t].uri = u /\ pc'[t] \in {"idle", "done"} /\ shown'[u] = work[t].text
    BY <1>1
  <1>4. ASSUME NEW v \in Uris \ {u}, Sound(v) PROVE Sound(v)'
    <2>1. shown'[v] = shown[v]
      BY <1>1
    <2> QED BY <1>1, <1>2, <1>4, <2>1, Apart
  <1>5. ASSUME Sound(u) PROVE Sound(u)'
    <2>1. \A s \in Threads \ {t} : work'[s].uri = u => pc'[s] \notin Running \cup Closing
      BY <1>1, <1>2, <1>5, Knows DEF Running
    <2>2. /\ documents[u] # NoText /\ (Awaited(u) \/ work[t].text = documents[u])
          /\ published[u] = work[t].text
      BY <1>1, <1>5, Knows DEF Running, Holds
    <2>3. Awaited(u)' \/ work[t].text = documents[u]
      BY <1>1, <1>2, <2>2, StillAwaited DEF Reads
    <2> QED BY <1>1, <1>3, <2>1, <2>2, <2>3, Lone DEF Holds
  <1> QED BY <1>1, <1>4, <1>5 DEF AllSound

LEMMA SoundStep == ASSUME IInv, [Next]_vars, status' = "up" PROVE AllSound'
  <1>0. status = "up" /\ ~Shutdown /\ ~Exit /\ Roles /\ AllSound
    BY StillUp DEF IInv, AllSound
  <1>1. CASE Message
    BY <1>0, <1>1, SoundMessage
  <1>2. CASE Handle
    BY <1>0, <1>2, SoundStore, SoundCancel, SoundSchedule, SoundClose DEF Handle
  <1>3. ASSUME NEW t \in Threads, Run(t) PROVE AllSound'
    BY <1>0, <1>3, SoundFire, SoundPop, SoundRead, SoundPublish, SoundSend DEF Run
  <1>4. CASE UNCHANGED vars
    BY <1>0, <1>4 DEF vars, AllSound, Sound, Awaited, AtWork
  <1> QED BY <1>0, <1>1, <1>2, <1>3, <1>4 DEF Next

LEMMA StepKeeps == IInv /\ [Next]_vars => IInv'
  <1> SUFFICES ASSUME IInv, [Next]_vars PROVE IInv' OBVIOUS
  <1>1. TypeOK'
    BY TypeStep DEF IInv
  <1>2. status' = "up" => Roles' /\ AllSound'
    BY RolesStep, SoundStep
  <1> QED BY <1>1, <1>2, CountedStep DEF IInv, AllSound

-------------------------------------------------------------------------------
(* The dictionaries, threads and messages are what their comments say.         *)
THEOREM TypeCorrect == Spec => []TypeOK
  <1>1. IInv => TypeOK
    BY DEF IInv
  <1> QED BY Begins, StepKeeps, <1>1, PTL DEF Spec

(* Of a document at rest that no two threads worked on at once, the editor     *)
(* shows what its current text gives, and hover answers from what is shown.    *)
THEOREM QuietIsCurrent == Spec => []QuietMeansCurrent
  <1>1. IInv => QuietMeansCurrent
    <2> SUFFICES ASSUME IInv, status = "up", NEW u \in Uris, AtRest(u), ~clash[u]
                 PROVE  /\ published[u] = shown[u]
                        /\ documents[u] \notin Raising => shown[u] = documents[u]
      BY DEF QuietMeansCurrent
    <2>1. \A t \in Threads : work[t].uri = u => pc[t] \in Off
      BY DEF AtRest, Threads, Off
    <2>2. Sound(u)
      BY DEF IInv
    <2> QED BY <2>1, <2>2 DEF Sound, Awaited, Reads, Holds, Off
  <1> QED BY Begins, StepKeeps, <1>1, PTL DEF Spec

===============================================================================
