----------------------------- MODULE BotGateway -----------------------------
(***************************************************************************)
(* The bot channel of a station (bot_gateway): notices to the phone, which *)
(* are kept back a while and sent together, tried again and in the end put *)
(* in a queue; and the long polling for what the phone has to say, which   *)
(* are commands, buttons and messages for the secretary.                   *)
(*                                                                         *)
(* One channel, of the Telegram kind.  What a message does in the chat is  *)
(* the module ChatDesk's, what an answer to a PM does DirectTask's.        *)
(***************************************************************************)
EXTENDS Naturals, Sequences, FiniteSets, SequencesExt

CONSTANTS MaxNotices,  \* bound: notices
          MaxUpdates,  \* bound: messages from the phone
          MaxRetry,    \* tries of a sending
          QueueLength, \* of the queue of failed messages
          MaxFaults    \* bound: failed requests and crashes

VARIABLES configured, \* the channel of the configuration file: "none", "off", "on"
          channel,   \* the channel at present
          buffer,    \* notices kept back
          timer,     \* the aggregator's timer runs
          sending,   \* messages being sent: [notices, tries]
          queue,     \* _pending_queue
          accepted,  \* notices since the start that passed the filters
          arrived,   \* history: notices at the phone
          noticed,   \* number of notices so far
          written,   \* updates at Telegram, numbered from 1
          forgotten, \* updates Telegram does not offer again
          lastId,    \* _tg_last_update_id
          polling,   \* _tg_polling
          batch,     \* updates fetched and not handled
          handled,   \* history: how often an update was handled
          restarts, faults

notices == <<buffer, timer, sending, queue, accepted, arrived, noticed>>
updates == <<written, forgotten, lastId, polling, batch, handled>>
vars == <<configured, channel, notices, updates, restarts, faults>>

Init ==
    /\ configured \in {"none", "on"} /\ channel = configured
    /\ buffer = {} /\ timer = FALSE /\ sending = {} /\ queue = <<>>
    /\ accepted = {} /\ arrived = {} /\ noticed = 0
    /\ written = 0 /\ forgotten = 0 /\ lastId = 0
    /\ polling = (channel = "on") /\ batch = <<>>
    /\ handled = [u \in 1..MaxUpdates |-> 0]
    /\ restarts = 0 /\ faults = 0

Fault == faults < MaxFaults /\ faults' = faults + 1

-----------------------------------------------------------------------------
(* Notices.                                                                *)

\* A message on its way.
Sending(items) == [items |-> items, tries |-> 0]

\* Notices that the quiet hours, the channel or its least priority keep back go nowhere.
Notify(priority) ==
    /\ noticed < MaxNotices /\ noticed' = noticed + 1
    /\ channel = "on"
    /\ accepted' = accepted \cup {noticed'}
    /\ IF priority = "high"
       THEN sending' = sending \cup {Sending({noticed'})} /\ UNCHANGED <<buffer, timer>>
       ELSE buffer' = buffer \cup {noticed'} /\ timer' = TRUE /\ UNCHANGED sending
    /\ UNCHANGED <<configured, channel, queue, arrived, updates, restarts, faults>>

\* The question of a PM is sent with its buttons at once, and is not tried again.
NotifyQuestion ==
    /\ noticed < MaxNotices /\ noticed' = noticed + 1
    /\ channel = "on"
    /\ \/ arrived' = arrived \cup {noticed'} /\ UNCHANGED faults
       \/ Fault /\ UNCHANGED arrived
    /\ UNCHANGED <<configured, channel, buffer, timer, sending, queue, accepted, updates, restarts>>

\* _flush: the timer has ended, and all that was kept back becomes one message.
TimerFires ==
    /\ timer /\ timer' = FALSE
    /\ buffer' = {}
    /\ sending' = sending \cup {Sending(buffer)}
    /\ UNCHANGED <<configured, channel, queue, accepted, arrived, noticed, updates, restarts, faults>>

SendDone(s) ==
    /\ sending' = sending \ {s} /\ arrived' = arrived \cup s.items
    /\ UNCHANGED <<configured, channel, buffer, timer, queue, accepted, noticed, updates, restarts, faults>>

\* Faulty: one try more than there is.
LastTryLate(s) == s.tries = MaxRetry

LastTry(s) == s.tries + 1 = MaxRetry

\* _do_send_to_channel: a failed request, which the phone may have got all the same, is
\* repeated; after the last one the message goes into the queue, which drops its oldest.
SendFails(s) ==
    /\ Fault
    /\ arrived' \in {arrived, arrived \cup s.items}
    /\ sending' = (sending \ {s}) \cup
                  {t \in {[s EXCEPT !.tries = @ + 1]} : t.tries < MaxRetry}
    /\ queue' = IF ~LastTry(s) THEN queue
                ELSE Append(IF Len(queue) = QueueLength THEN Tail(queue) ELSE queue, s.items)
    /\ UNCHANGED <<configured, channel, buffer, timer, accepted, noticed, updates, restarts>>

-----------------------------------------------------------------------------
(* The channel.                                                            *)

\* The polling thread starts with the first enabled channel and keeps that one for ever:
\* it goes on after the channel has been switched off, replaced or removed.
SetChannel(enabled) ==
    /\ channel' = IF enabled THEN "on" ELSE "off"
    /\ channel' # channel
    /\ polling' = (polling \/ enabled)
    /\ UNCHANGED <<configured, notices, written, forgotten, lastId, batch, handled, restarts, faults>>

RemoveChannel ==
    /\ channel # "none" /\ channel' = "none"
    /\ UNCHANGED <<configured, notices, updates, restarts, faults>>

-----------------------------------------------------------------------------
(* Commands and messages from the phone.                                   *)

Write ==
    /\ written < MaxUpdates /\ written' = written + 1
    /\ UNCHANGED <<configured, channel, notices, forgotten, lastId, polling, batch, handled, restarts, faults>>

\* getUpdates with the offset after the last update: the server forgets those before it and
\* answers with the rest.  A request may fail after it has reached the server.
Fetch ==
    /\ polling /\ batch = <<>> /\ written > lastId
    /\ forgotten' = lastId
    /\ \/ batch' = [i \in 1..(written - lastId) |-> lastId + i] /\ UNCHANGED faults
       \/ Fault /\ UNCHANGED batch
    /\ UNCHANGED <<configured, channel, notices, written, lastId, polling, handled, restarts>>

\* Faulty: the number is kept when the update has been handled without an exception.
NotedAfter(u, ended) == IF ended THEN u ELSE lastId

\* The number is kept before the update is handled.
Noted(u, ended) == u

\* The answer to an outdated button is sent without a handler for its failure: the loop
\* drops the rest of the batch, and fetches it again.
Handle ==
    /\ batch # <<>>
    /\ LET u == Head(batch)
       IN  /\ handled' = [handled EXCEPT ![u] = @ + 1]
           /\ \/ lastId' = Noted(u, TRUE) /\ batch' = Tail(batch) /\ UNCHANGED faults
              \/ Fault /\ lastId' = Noted(u, FALSE) /\ batch' = <<>>
    /\ UNCHANGED <<configured, channel, notices, written, forgotten, polling, restarts>>

\* Everything is in memory, but Telegram keeps what was not confirmed.
Crash ==
    /\ Fault /\ restarts' = restarts + 1
    /\ channel' = configured /\ polling' = (configured = "on")
    /\ buffer' = {} /\ timer' = FALSE /\ sending' = {} /\ queue' = <<>> /\ accepted' = {}
    /\ lastId' = forgotten /\ batch' = <<>>
    /\ UNCHANGED <<configured, arrived, noticed, written, forgotten, handled>>

Next ==
    \/ \E p \in {"normal", "high"} : Notify(p)
    \/ NotifyQuestion \/ TimerFires \/ RemoveChannel \/ Write \/ Fetch \/ Handle \/ Crash
    \/ \E s \in sending : SendDone(s) \/ SendFails(s)
    \/ \E enabled \in BOOLEAN : SetChannel(enabled)

Spec == Init /\ [][Next]_vars

-----------------------------------------------------------------------------
(* Properties.                                                             *)

\* No notice that passed the filters is forgotten: the phone has it, or it is kept back and
\* a timer runs, or it is being sent, or it is among the failed ones, which drop only when
\* their queue is full.  (Nobody sends the queue again: flush_pending_queue has no caller.)
Accounted ==
    \A n \in accepted :
        \/ n \in arrived
        \/ n \in buffer /\ timer
        \/ \E s \in sending : n \in s.items
        \/ \E i \in DOMAIN queue : n \in queue[i]
        \/ Len(queue) = QueueLength

\* A command of the phone is carried out once, if the station has not crashed since it was
\* fetched: neither twice, nor given up before it reached its handler.
CommandsOnce ==
    \A u \in 1..MaxUpdates :
        /\ handled[u] <= 1 + restarts
        /\ u <= forgotten => handled[u] >= 1
=============================================================================
