---------------------------- MODULE FleetStream ----------------------------
(***************************************************************************)
(* The event stream of one fleet root: append, retention and page reads of *)
(* app/storage/fleet_events.py and the wait of                             *)
(* app/services/fleet_sessions.py.  Appends and retention hold the root's  *)
(* advisory lock for their whole transaction, so each is one step; the     *)
(* Redis wake follows the commit and may be lost.  The waiter interleaves  *)
(* with both at every await, and its deadline cancels it at any of them.   *)
(***************************************************************************)
EXTENDS Integers, Sequences, FiniteSets, FiniteSetsExt

CONSTANTS Key,        \* source keys producers append under
          Lasting,    \* those of root.* and native.delivery.* events
          PageSize,   \* page_size of a wait
          MaxEvents   \* appends that are explored

ASSUME StreamAssumption ==
    /\ Lasting \subseteq Key
    /\ PageSize \in Nat \ {0} /\ MaxEvents \in Nat

VARIABLES
    rows,     \* retained rows
    history,  \* every source key ever appended, in commit order
    wakes,    \* committed appends whose wake is not published yet
    step,     \* where the wait is
    phase,    \* why it is draining
    cursor,   \* the wait's cursor, moved by every page it reads
    page,     \* records the current drain has collected
    late,     \* the wait's deadline has passed
    woken,    \* a wake is waiting in the subscription
    mine,     \* the cursor the reader's last wait returned
    got,      \* the sequences the reader has been given
    dropped   \* a deadline threw away records that were read

waiter == <<step, phase, cursor, page, late, woken>>
streamVars == <<rows, history, wakes, waiter, mine, got, dropped>>

Entry == [seq : 1..MaxEvents, key : Key]

StreamTypeOK ==
    /\ rows \in SUBSET Entry
    /\ history \in Seq(Key) /\ Len(history) <= MaxEvents
    /\ wakes \in 0..MaxEvents
    /\ step \in {"idle", "drain", "subscribe", "listen", "close", "poll", "stale", "gone"}
    /\ phase \in {"first", "listening", "deadline", "timeout", "polling"}
    /\ cursor \in 0..MaxEvents /\ mine \in 0..MaxEvents
    /\ page \in Seq(1..MaxEvents) /\ got \in Seq(1..MaxEvents)
    /\ late \in BOOLEAN /\ woken \in BOOLEAN /\ dropped \in BOOLEAN

StreamInit ==
    /\ rows = {} /\ history = <<>> /\ wakes = 0
    /\ step = "idle" /\ phase = "first" /\ cursor = 0 /\ page = <<>>
    /\ late = FALSE /\ woken = FALSE
    /\ mine = 0 /\ got = <<>> /\ dropped = FALSE

(* COALESCE(MAX(stream_sequence), 0).                                      *)
Newest == Max({e.seq : e \in rows} \union {0})

NextSequence == Newest + 1

(* A key that is retained returns its row; a new one takes the next number.*)
AppendEvent(k) ==
    /\ \A e \in rows : e.key # k
    /\ Len(history) < MaxEvents
    /\ rows' = rows \union {[seq |-> NextSequence, key |-> k]}
    /\ history' = Append(history, k)
    /\ wakes' = wakes + 1
    /\ UNCHANGED <<waiter, mine, got, dropped>>

Subscribed == step = "listen" \/ (step = "drain" /\ phase \in {"listening", "deadline"})

PublishWake ==
    /\ wakes > 0
    /\ wakes' = wakes - 1
    /\ woken' \in {woken, woken \/ Subscribed}
    /\ UNCHANGED <<rows, history, step, phase, cursor, page, late, mine, got, dropped>>

(* Rows older than some age, but lifecycle rows and the newest row stay.   *)
RemoveOld ==
    /\ \E n \in 1..MaxEvents :
         rows' = {e \in rows : e.key \in Lasting \/ e.seq > n \/ e.seq = Newest}
    /\ rows' # rows
    /\ UNCHANGED <<history, wakes, waiter, mine, got, dropped>>

---------------------------------------------------------------------------
Beyond == {e \in rows : e.seq > cursor}

(* How many rows ORDER BY stream_sequence LIMIT page_size yields; the page *)
(* is refused when they are not the next ones, one by one.                 *)
Fetched == Min({Cardinality(Beyond), PageSize})

Gap == \E i \in 1..Fetched : \A e \in Beyond : e.seq # cursor + i

(* The records of the drain with this page.                                *)
Records == page \o [i \in 1..Fetched |-> cursor + i]

Wait ==
    /\ step \in {"idle", "stale", "gone"}
    /\ step' = "drain" /\ phase' = "first" /\ cursor' = mine /\ page' = <<>>
    /\ late' = FALSE /\ woken' = FALSE
    /\ UNCHANGED <<rows, history, wakes, mine, got, dropped>>

DeadlinePasses ==
    /\ step \notin {"idle", "stale", "gone"} /\ ~late
    /\ late' = TRUE
    /\ UNCHANGED <<rows, history, wakes, step, phase, cursor, page, woken, mine, got, dropped>>

\* Mutant: the gap is swallowed and the reader waits again.
ReadGapQuietly ==
    /\ step = "drain" /\ Gap
    /\ step' = "idle"
    /\ UNCHANGED <<rows, history, wakes, phase, cursor, page, late, woken, mine, got, dropped>>

ReadGap ==
    /\ step = "drain" /\ Gap
    /\ step' = "stale"
    /\ UNCHANGED <<rows, history, wakes, phase, cursor, page, late, woken, mine, got, dropped>>

(* A full page: the drain goes on, and awaits the next read.               *)
ReadFullPage ==
    /\ step = "drain" /\ ~Gap /\ Fetched = PageSize
    /\ cursor' = cursor + Fetched
    /\ page' = Records
    /\ UNCHANGED <<rows, history, wakes, step, phase, late, woken, mine, got, dropped>>

Return(records) ==
    /\ step' = "idle"
    /\ got' = got \o records
    /\ page' = <<>>
    /\ UNCHANGED phase

(* The last page ends the drain; what follows depends on what it was for.  *)
(* With a subscription open, the wait closes it before it returns.         *)
ReadLastPage ==
    /\ step = "drain" /\ ~Gap /\ Fetched < PageSize
    /\ cursor' = cursor + Fetched
    /\ \/ /\ phase = "timeout" \/ (phase \in {"first", "polling"} /\ (Records # <<>> \/ late))
          /\ Return(Records)
          /\ mine' = cursor'
       \/ /\ phase = "deadline" \/ (phase = "listening" /\ Records # <<>>)
          /\ step' = "close" /\ page' = Records
          /\ UNCHANGED <<phase, mine, got>>
       \/ /\ Records = <<>> /\ ~late
          /\ phase \in {"first", "listening", "polling"}
          /\ step' = CASE phase = "first" -> "subscribe"
                       [] phase = "listening" -> "listen"
                       [] phase = "polling" -> "poll"
          /\ UNCHANGED <<phase, page, mine, got>>
       \/ /\ Records = <<>> /\ late /\ phase = "listening"
          /\ phase' = "deadline"
          /\ UNCHANGED <<step, page, mine, got>>
    /\ UNCHANGED <<rows, history, wakes, late, woken, dropped>>

(* aclose of the subscription, which the deadline still covers.            *)
Close ==
    /\ step = "close"
    /\ Return(page)
    /\ mine' = cursor
    /\ UNCHANGED <<rows, history, wakes, cursor, late, woken, dropped>>

Subscribe ==
    /\ step = "subscribe"
    /\ step' = "drain" /\ phase' = "listening" /\ woken' = FALSE
    /\ UNCHANGED <<rows, history, wakes, cursor, page, late, mine, got, dropped>>

\* Mutant: no read at the deadline.
ListenOnly ==
    /\ step = "listen" /\ (woken \/ late)
    /\ \/ woken /\ step' = "drain" /\ phase' = "listening" /\ UNCHANGED <<page, mine, got>>
       \/ ~woken /\ Return(<<>>) /\ mine' = cursor
    /\ woken' = FALSE
    /\ UNCHANGED <<rows, history, wakes, cursor, late, dropped>>

(* get_message returns a wake, or nothing at the deadline.                 *)
Listen ==
    /\ step = "listen" /\ (woken \/ late)
    /\ step' = "drain"
    /\ phase' = IF woken THEN "listening" ELSE "deadline"
    /\ woken' = FALSE
    /\ UNCHANGED <<rows, history, wakes, cursor, page, late, mine, got, dropped>>

RedisFails ==
    /\ step \in {"subscribe", "listen"}
    /\ step' = "poll"
    /\ woken' = FALSE
    /\ UNCHANGED <<rows, history, wakes, phase, cursor, page, late, mine, got, dropped>>

Poll ==
    /\ step = "poll"
    /\ \/ ~late /\ step' = "drain" /\ phase' = "polling" /\ UNCHANGED <<page, mine, got>>
       \/ late /\ Return(<<>>) /\ mine' = cursor
    /\ UNCHANGED <<rows, history, wakes, cursor, late, woken, dropped>>

(* The deadline cancels whatever the subscription block awaits, a drain    *)
(* between two pages and the closing of the subscription included; the     *)
(* drain that follows starts at cursor, without the records read before.   *)
Cancel ==
    /\ late
    /\ step \in {"subscribe", "listen", "close"} \/ (step = "drain" /\ phase \in {"listening", "deadline"})
    /\ step' = "drain" /\ phase' = "timeout" /\ page' = <<>> /\ woken' = FALSE
    /\ dropped' = (dropped \/ page # <<>>)
    /\ UNCHANGED <<rows, history, wakes, cursor, late, mine, got>>

(* The caller goes away: its own cursor does not move.                     *)
Disconnect ==
    /\ step \notin {"idle", "stale", "gone"}
    /\ step' = "gone" /\ page' = <<>>
    /\ UNCHANGED <<rows, history, wakes, phase, cursor, late, woken, mine, got, dropped>>

ReaderStep ==
    \/ ReadGap \/ ReadFullPage \/ ReadLastPage
    \/ Subscribe \/ Listen \/ Close \/ Poll \/ Cancel

StreamNext ==
    \/ \E k \in Key : AppendEvent(k)
    \/ PublishWake \/ RemoveOld
    \/ Wait \/ DeadlinePasses \/ ReaderStep \/ RedisFails \/ Disconnect

StreamSpec == StreamInit /\ [][StreamNext]_streamVars

(* The reader waits again with the cursor it was given, time passes and    *)
(* the event loop runs it between disconnections; wakes may all be lost.   *)
(* With a backlog that fits a page a drain is one step, so that not every  *)
(* drain is cut short by a disconnection.                                  *)
FairStreamSpec == StreamSpec /\ WF_streamVars(Wait) /\ WF_streamVars(DeadlinePasses) /\ SF_streamVars(ReaderStep)

---------------------------------------------------------------------------
(* A sequence number names one event for ever: neither racing appends nor  *)
(* a retention pass before an append reuse or skip a number.               *)
SequenceNamesOneEvent ==
    /\ \A e \in rows : e.seq <= Len(history) /\ history[e.seq] = e.key
    /\ Newest = Len(history)

(* What a reader was given is exactly the sequences up to the cursor it    *)
(* was handed: a retention gap is refused, and nothing is passed over.     *)
NothingSkipped == got = [i \in 1..mine |-> i]

(* The same, unless a deadline threw away records that the wait had read:  *)
(* no lost wake, no retention pass, no disconnection and no failure of     *)
(* Redis loses or repeats an event.                                        *)
SkippedOnlyByDeadline == ~dropped => NothingSkipped

(* A wait that ends with nothing has found in its last read that no event  *)
(* was committed beyond its cursor, whether the wake was lost, came before *)
(* the subscription or raced the deadline; only a wait that Redis failed   *)
(* may end without that read.                                              *)
EmptyMeansQuiet ==
    [][(step \in {"drain", "listen", "subscribe"} /\ step' \in {"idle", "close"}
           /\ got' = got /\ page' = <<>>) => Beyond = {}]_streamVars

(* Every committed event reaches a reader that keeps waiting: its cursor   *)
(* catches up with the root, or it learns that retention took an event,    *)
(* also when every wake is lost.                                           *)
EventDelivered == []<>(mine = Len(history) \/ step = "stale")
============================================================================
