---------------------------- MODULE ServerLifecycle ----------------------------
(***************************************************************************)
(* The threads of the ticket server and the table thread_buff that ties a  *)
(* service thread to its connection: the GTK thread (startserver,          *)
(* stopserver and info_print of server.c), the listen thread               *)
(* (listen_thread, with check_connection and get_free_buff of              *)
(* threadbuff.h) and the service threads (the connection handling of       *)
(* servicethread.h; the requests themselves are TicketSale).               *)
(*                                                                         *)
(* Threads are cancelled with deferred cancellation: a cancel is acted     *)
(* upon in accept, recv, send, close, pthread_join and in the sleep of     *)
(* add_info, and never in pthread_mutex_lock.  A section of buff_mutex     *)
(* that contains none of these is one action.                              *)
(***************************************************************************)
EXTENDS Integers, FiniteSets

CONSTANTS
  Tids,              \* bound: thread handles the system can give out
  Conns,             \* connections that clients can make
  MaxConns,          \* bound: how many of them they make
  Addr,              \* the client address of each connection
  THREAD_BUFF_NUM,   \* slots of thread_buff (128 in the code)
  INFO_NUM,          \* slots of the info ring (10 in the code)
  MaxStarts          \* bound: how often the server is opened

ASSUME LifecycleAssumption ==
  /\ THREAD_BUFF_NUM \in Nat \ {0} /\ INFO_NUM \in Nat \ {0}
  /\ MaxStarts \in Nat /\ MaxConns \in Nat

VARIABLES
  opened,      \* isserveropened
  starts,      \* successful calls of startserver
  gtk,         \* the GTK thread: place, and the slot of stopserver's loop
  listener,    \* the listen thread: place, slot, and connection in hand
  thr,         \* the service threads: place, slot, and conn_fd
  cancelled,   \* threads with a pending cancellation
  buffMutex,   \* the holder of buff_mutex
  slot,        \* thread_buff: status, tid, ip_addr, conn_fd
  fd,          \* the server's end of each connection
  status, claim,   \* the info ring
  asleep,      \* threads in the sleep of add_info
  \* History: what the code does not keep and the properties name.
  late,        \* connections in the listen thread's hands while stopserver closed
  hasty,       \* was a slot's handle used before the slot's thread had stored it?
  unserved     \* connections whose pthread_create failed

vars == <<opened, starts, gtk, listener, thr, cancelled, buffMutex, slot, fd, status,
          claim, asleep, late, hasty, unserved>>

Listener == "listener"
Gtk == "gtk"
Nobody == "nobody"
NoTid == "noTid"        \* -1 from init_thread_buff, or 0
NoConn == "noConn"
Writers == Tids \cup {Listener}

(* The marks are no handles and no connections.                             *)
ASSUME MarksAssumption == {Listener, NoTid} \cap Tids = {} /\ NoConn \notin Conns

Ring == INSTANCE InfoRing

Slots == 0 .. THREAD_BUFF_NUM - 1
FreedSlot == [st |-> "BUFF_FREED", tid |-> NoTid, addr |-> Nobody, conn |-> NoConn]
MutantSkipsFirst(k) == {j \in Slots : j > k /\ slot[j].st = "BUFF_OCCUPIED"}

OccupiedFrom(k) == {j \in Slots : j >= k /\ slot[j].st = "BUFF_OCCUPIED"}
Lowest(S) == CHOOSE k \in S : \A j \in S : k <= j

Unused == [pc |-> "unused", slot |-> 0, conn |-> NoConn]
Live(t) == thr[t].pc \notin {"unused", "exited"}

Init ==
  /\ opened = FALSE /\ starts = 0
  /\ gtk = [pc |-> "loop", k |-> 0]
  /\ listener = [pc |-> "none", k |-> 0, conn |-> NoConn]
  /\ thr = [t \in Tids |-> Unused]
  /\ cancelled = {}
  /\ buffMutex = Nobody
  /\ slot = [k \in Slots |-> FreedSlot]
  /\ fd = [c \in Conns |-> "none"]
  /\ Ring!RingInit
  /\ asleep = {}
  /\ late = {} /\ hasty = FALSE /\ unserved = {}

server == <<opened, starts, gtk>>
table == <<buffMutex, slot>>
ring == <<status, claim, asleep>>
history == <<late, hasty, unserved>>
-------------------------------------------------------------------------------
(* A client connects while the server listens.  When it goes away is seen   *)
(* where the server meets it: in getpeername, recv and send.                *)
Connect(c) ==
  /\ opened
  /\ fd[c] = "none" /\ Cardinality({d \in Conns : fd[d] # "none"}) < MaxConns
  /\ fd' = [fd EXCEPT ![c] = "backlog"]
  /\ UNCHANGED <<server, listener, thr, cancelled, table, ring, history>>
-------------------------------------------------------------------------------
(* add_info, called by w: get_free_info, or a second of sleep when the ring *)
(* is full; then the store.                                                 *)
FindSlot(w) ==
  \/ Ring!GetFreeInfo(w) /\ asleep' = asleep \ {w}
  \/ /\ claim[w] = Ring!NoSlot /\ Ring!Freed = {} /\ w \notin asleep
     /\ asleep' = asleep \cup {w}
     /\ UNCHANGED <<status, claim>>

StoreLine(w) == Ring!StoreInfo(w) /\ UNCHANGED asleep

(* pthread_cancel on the handle kept in slot k, which may be that of an     *)
(* older thread if the slot's own has not run yet.  -1 and 0 are no thread: *)
(* the process crashes, which the model leaves as a step that cannot be     *)
(* taken (see Crashed).                                                     *)
Starting(k) == \E t \in Tids : thr[t].pc = "start" /\ thr[t].slot = k

CancelSlot(k) ==
  LET t == slot[k].tid IN
  /\ t # NoTid
  /\ cancelled' = IF Live(t) THEN cancelled \cup {t} ELSE cancelled
  /\ hasty' = (hasty \/ Starting(k))

MutantDoesNotWait(k) ==
  /\ slot' = [slot EXCEPT ![k].tid = NoTid, ![k].st = "BUFF_FREED"]
  /\ fd' = [fd EXCEPT ![slot[k].conn] = "closed"]
  /\ UNCHANGED <<thr, cancelled>>

(* pthread_join on that handle, and what follows it: the slot is freed and  *)
(* its connection closed.                                                   *)
FreeJoined(k) ==
  /\ thr[slot[k].tid].pc = "exited"
  /\ thr' = [thr EXCEPT ![slot[k].tid] = Unused]
  /\ cancelled' = cancelled \ {slot[k].tid}
  /\ slot' = [slot EXCEPT ![k].tid = NoTid, ![k].st = "BUFF_FREED"]

JoinAndFree(k) == FreeJoined(k) /\ fd' = [fd EXCEPT ![slot[k].conn] = "closed"]
-------------------------------------------------------------------------------
(* The service threads.  Where a line is logged, and where the thread goes  *)
(* from there: a new connection, a request (several lines for INQUIRE_ALL), *)
(* the end of the connection, a failed recv (which logs twice), thread_err. *)
AfterLog ==
  [logNew |-> {"recv"}, logRequest |-> {"logRequest", "send"}, logBye |-> {"close"},
   logWrong |-> {"logFatal"}, logFatal |-> {"freeBuff"}]

ThreadGoes(t, from, to) ==
  /\ thr[t].pc = from
  /\ thr' = [thr EXCEPT ![t].pc = to]

MutantNoTid(t) ==
  LET k == thr[t].slot IN
  /\ thr[t].pc = "start"
  /\ thr' = [thr EXCEPT ![t].conn = slot[k].conn, ![t].pc = "logNew"]
  /\ UNCHANGED <<server, listener, cancelled, table, fd, ring, history>>

(* The head of service_thread: the slot learns the handle only now; then    *)
(* the connection is read from the slot and its peer asked for.             *)
Register(t) ==
  LET k == thr[t].slot
      c == slot[k].conn
  IN
  /\ thr[t].pc = "start"
  /\ slot' = [slot EXCEPT ![k].tid = t]
  /\ \/ fd[c] = "open" /\ thr' = [thr EXCEPT ![t].conn = c, ![t].pc = "logNew"]
     \/ thr' = [thr EXCEPT ![t].conn = c, ![t].pc = "logFatal"]
  /\ UNCHANGED <<server, listener, cancelled, buffMutex, fd, ring, history>>

Log(t) ==
  /\ thr[t].pc \in DOMAIN AfterLog
  /\ \/ FindSlot(t) /\ UNCHANGED thr
     \/ StoreLine(t) /\ \E to \in AfterLog[thr[t].pc] : ThreadGoes(t, thr[t].pc, to)
  /\ UNCHANGED <<server, listener, cancelled, table, fd, history>>

Works(t) == fd[thr[t].conn] = "open"

(* recv: a request that is logged, one of an unknown type, which is not,    *)
(* the end of the connection (a DISCONNECT or end of file), or an error.    *)
Recv(t) ==
  /\ thr[t].pc = "recv" /\ t \notin cancelled
  /\ \/ Works(t) /\ \E to \in {"logRequest", "send", "logBye"} : ThreadGoes(t, "recv", to)
     \/ ThreadGoes(t, "recv", "logWrong")
  /\ UNCHANGED <<server, listener, cancelled, table, fd, ring, history>>

Send(t) ==
  /\ thr[t].pc = "send" /\ t \notin cancelled
  /\ \/ Works(t) /\ ThreadGoes(t, "send", "recv")
     \/ ThreadGoes(t, "send", "logFatal")
  /\ UNCHANGED <<server, listener, cancelled, table, fd, ring, history>>

CloseConn(t) ==
  /\ t \notin cancelled
  /\ ThreadGoes(t, "close", "freeBuff")
  /\ fd' = [fd EXCEPT ![thr[t].conn] = "closed"]
  /\ UNCHANGED <<server, listener, cancelled, table, ring, history>>

(* free_buff and pthread_exit.  The handle stays in the slot.               *)
FreeBuff(t) ==
  /\ buffMutex = Nobody
  /\ ThreadGoes(t, "freeBuff", "exited")
  /\ slot' = [slot EXCEPT ![thr[t].slot].st = "BUFF_FREED"]
  /\ UNCHANGED <<server, listener, cancelled, buffMutex, fd, ring, history>>

AtCancellationPoint(t) ==
  thr[t].pc \in {"recv", "send", "close"} \/ (thr[t].pc \in DOMAIN AfterLog /\ t \in asleep)

Cancelled(t) ==
  /\ t \in cancelled
  /\ AtCancellationPoint(t)
  /\ thr' = [thr EXCEPT ![t].pc = "exited"]
  /\ asleep' = asleep \ {t}
  /\ UNCHANGED <<server, listener, cancelled, table, fd, status, claim, history>>

ServiceThread(t) ==
  \/ Register(t) \/ Log(t) \/ Recv(t) \/ Send(t) \/ CloseConn(t) \/ FreeBuff(t) \/ Cancelled(t)
-------------------------------------------------------------------------------
(* The listen thread.                                                       *)
ListenerGoes(from, to) ==
  /\ listener.pc = from
  /\ listener' = [listener EXCEPT !.pc = to]

(* stopserver from where it has buff_mutex.                                 *)
Closing == {"sweep", "join", "cancelListener", "joinListener"}

(* At accept the thread has no slot and no connection in hand.              *)
AtAccept == [pc |-> "accept", k |-> 0, conn |-> NoConn]

Accept(c) ==
  /\ Listener \notin cancelled
  /\ fd[c] = "backlog"
  /\ listener.pc = "accept"
  /\ listener' = [pc |-> "lock", k |-> 0, conn |-> c]
  /\ fd' = [fd EXCEPT ![c] = "open"]
  /\ late' = IF gtk.pc \in Closing THEN late \cup {c} ELSE late
  /\ UNCHANGED <<server, thr, cancelled, table, ring, hasty, unserved>>

CheckLock ==
  /\ buffMutex = Nobody
  /\ buffMutex' = Listener
  /\ ListenerGoes("lock", "scan")
  /\ UNCHANGED <<server, thr, cancelled, slot, fd, ring, history>>

MutantSkipsSlotZero ==
  {j \in OccupiedFrom(listener.k) : j > 0 /\ slot[j].addr = Addr[listener.conn]}

Same == {j \in OccupiedFrom(listener.k) : slot[j].addr = Addr[listener.conn]}

MutantKeepsLock ==
  /\ listener.pc = "scan"
  /\ listener' = IF Same # {} THEN [listener EXCEPT !.pc = "logSame", !.k = Lowest(Same)]
                              ELSE [listener EXCEPT !.pc = "getBuff"]
  /\ UNCHANGED <<server, thr, cancelled, table, fd, ring, history>>

(* check_connection: the next slot that serves the same address, if any.    *)
Scan ==
  /\ listener.pc = "scan"
  /\ IF Same # {}
       THEN /\ listener' = [listener EXCEPT !.pc = "logSame", !.k = Lowest(Same)]
            /\ UNCHANGED buffMutex
       ELSE /\ listener' = [listener EXCEPT !.pc = "getBuff"]
            /\ buffMutex' = Nobody
  /\ UNCHANGED <<server, thr, cancelled, slot, fd, ring, history>>

ListenerLog(from, to) ==
  /\ listener.pc = from
  /\ \/ FindSlot(Listener) /\ UNCHANGED listener
     \/ StoreLine(Listener) /\ ListenerGoes(from, to)
  /\ UNCHANGED <<server, thr, cancelled, table, fd, history>>

LogSame == ListenerLog("logSame", "cancel")

CancelSame ==
  /\ ListenerGoes("cancel", "join")
  /\ CancelSlot(listener.k)
  /\ UNCHANGED <<server, thr, table, fd, ring, late, unserved>>

JoinSame ==
  /\ Listener \notin cancelled
  /\ ListenerGoes("join", "scan")
  /\ JoinAndFree(listener.k)
  /\ UNCHANGED <<server, buffMutex, ring, history>>

MutantOneBased ==
  {k \in 1 .. THREAD_BUFF_NUM : k \in Slots => slot[k].st = "BUFF_FREED"}

FreeSlots == {k \in Slots : slot[k].st = "BUFF_FREED"}

(* get_free_buff, which does not mark the slot; a full table is refused.    *)
GetFreeBuff ==
  /\ buffMutex = Nobody
  /\ listener.pc = "getBuff"
  /\ listener' = IF FreeSlots = {} THEN [listener EXCEPT !.pc = "logFull"]
                                   ELSE [listener EXCEPT !.pc = "fill", !.k = Lowest(FreeSlots)]
  /\ UNCHANGED <<server, thr, cancelled, table, fd, ring, history>>

LogFull == ListenerLog("logFull", "refuse")

MutantNoRefusal ==
  /\ Listener \notin cancelled
  /\ listener.pc = "refuse" /\ listener' = AtAccept
  /\ UNCHANGED <<server, thr, cancelled, table, fd, ring, history>>

Refuse ==
  /\ Listener \notin cancelled
  /\ listener.pc = "refuse" /\ listener' = AtAccept
  /\ fd' = [fd EXCEPT ![listener.conn] = "closed"]
  /\ UNCHANGED <<server, thr, cancelled, table, ring, history>>

Fill ==
  /\ buffMutex = Nobody
  /\ ListenerGoes("fill", "create")
  /\ slot' = [slot EXCEPT ![listener.k].st = "BUFF_OCCUPIED",
                          ![listener.k].addr = Addr[listener.conn],
                          ![listener.k].conn = listener.conn]
  /\ UNCHANGED <<server, thr, cancelled, buffMutex, fd, ring, history>>

(* pthread_create.  It reports an error by a positive number, so the test   *)
(* for -1 never succeeds and a failure is not noticed.                      *)
UnusedTids == {t \in Tids : thr[t].pc = "unused"}

Create ==
  /\ listener.pc = "create" /\ listener' = AtAccept
  /\ \/ /\ \E t \in UnusedTids :
             thr' = [thr EXCEPT ![t] = [pc |-> "start", slot |-> listener.k, conn |-> NoConn]]
        /\ UNCHANGED unserved
     \/ /\ UnusedTids = {}
        /\ unserved' = unserved \cup {listener.conn}
        /\ UNCHANGED thr
  /\ UNCHANGED <<server, cancelled, table, fd, ring, late, hasty>>

ListenerAtCancellationPoint ==
  \/ listener.pc \in {"accept", "join", "refuse"}
  \/ listener.pc \in {"logSame", "logFull"} /\ Listener \in asleep

(* A cancelled listen thread ends where it stands, with what it holds.  In  *)
(* check_connection that is in add_info, in pthread_join or in close.       *)
ListenerCancelled ==
  /\ Listener \in cancelled
  /\ ListenerAtCancellationPoint
  /\ listener' = [listener EXCEPT !.pc = "exited"]
  /\ asleep' = asleep \ {Listener}
  /\ \/ listener.pc = "join" /\ FreeJoined(listener.k)
     \/ UNCHANGED <<thr, cancelled, slot>>
  /\ UNCHANGED <<server, buffMutex, fd, status, claim, history>>

ListenThread ==
  \/ \E c \in Conns : Accept(c)
  \/ CheckLock \/ Scan \/ LogSame \/ CancelSame \/ JoinSame
  \/ GetFreeBuff \/ LogFull \/ Refuse \/ Fill \/ Create \/ ListenerCancelled
-------------------------------------------------------------------------------
(* The GTK thread.                                                          *)
GtkGoes(from, to, k) ==
  /\ gtk.pc = from
  /\ gtk' = [pc |-> to, k |-> k]

(* startserver: the table is reset before anything can fail (socket, bind). *)
ResetTable == slot' = [k \in Slots |-> [slot[k] EXCEPT !.tid = NoTid, !.st = "BUFF_FREED"]]

StartServer ==
  /\ gtk.pc = "loop" /\ ~opened
  /\ starts < MaxStarts
  /\ opened' = TRUE
  /\ starts' = starts + 1
  /\ ResetTable
  /\ listener' = AtAccept
  /\ UNCHANGED <<gtk, thr, cancelled, buffMutex, fd, ring, history>>

StartFails ==
  /\ gtk.pc = "loop" /\ ~opened
  /\ starts < MaxStarts
  /\ ResetTable
  /\ UNCHANGED <<server, listener, thr, cancelled, buffMutex, fd, ring, history>>

StopServer ==
  /\ opened
  /\ GtkGoes("loop", "stopLock", 0)
  /\ UNCHANGED <<opened, starts, listener, thr, cancelled, table, fd, ring, history>>

StopLock ==
  /\ buffMutex = Nobody
  /\ buffMutex' = Gtk
  /\ GtkGoes("stopLock", "sweep", 0)
  /\ late' = IF listener.pc = "accept" THEN late ELSE late \cup {listener.conn}
  /\ UNCHANGED <<opened, starts, listener, thr, cancelled, slot, fd, ring, hasty, unserved>>

MutantKeepsMutex ==
  IF OccupiedFrom(gtk.k) = {}
    THEN /\ GtkGoes("sweep", "cancelListener", 0)
         /\ UNCHANGED <<opened, starts, listener, thr, cancelled, table, fd, ring, history>>
    ELSE /\ GtkGoes("sweep", "join", Lowest(OccupiedFrom(gtk.k)))
         /\ CancelSlot(Lowest(OccupiedFrom(gtk.k)))
         /\ UNCHANGED <<opened, starts, listener, thr, table, fd, ring, late, unserved>>

Sweep ==
  \/ /\ OccupiedFrom(gtk.k) # {}
     /\ GtkGoes("sweep", "join", Lowest(OccupiedFrom(gtk.k)))
     /\ CancelSlot(Lowest(OccupiedFrom(gtk.k)))
     /\ UNCHANGED <<opened, starts, listener, thr, table, fd, ring, late, unserved>>
  \/ /\ OccupiedFrom(gtk.k) = {}
     /\ GtkGoes("sweep", "cancelListener", 0)
     /\ buffMutex' = Nobody
     /\ UNCHANGED <<opened, starts, listener, thr, cancelled, slot, fd, ring, history>>

JoinService ==
  /\ GtkGoes("join", "sweep", gtk.k)
  /\ JoinAndFree(gtk.k)
  /\ UNCHANGED <<opened, starts, listener, buffMutex, ring, history>>

CancelListener ==
  /\ GtkGoes("cancelListener", "joinListener", 0)
  /\ cancelled' = cancelled \cup {Listener}
  /\ UNCHANGED <<opened, starts, listener, thr, table, fd, ring, history>>

(* The listen thread is joined and the listening socket closed, which       *)
(* resets the connections that nobody accepted.                             *)
Closed ==
  /\ listener.pc = "exited"
  /\ GtkGoes("joinListener", "loop", 0)
  /\ listener' = [listener EXCEPT !.pc = "none"]
  /\ cancelled' = cancelled \ {Listener}
  /\ fd' = [c \in Conns |-> IF fd[c] = "backlog" THEN "closed" ELSE fd[c]]
  /\ opened' = FALSE
  /\ UNCHANGED <<starts, thr, table, ring, history>>

InfoPrint ==
  /\ gtk.pc = "loop"
  /\ Ring!Occupied # {}
  /\ Ring!InfoPrint
  /\ UNCHANGED <<server, listener, thr, cancelled, table, fd, asleep, history>>

GtkThread == InfoPrint \/ StopLock \/ Sweep \/ JoinService \/ CancelListener \/ Closed

Environment == (\E c \in Conns : Connect(c)) \/ StartServer \/ StartFails \/ StopServer

Next ==
  \/ Environment
  \/ \E t \in Tids : ServiceThread(t)
  \/ ListenThread
  \/ GtkThread

Spec == Init /\ [][Next]_vars

(* Threads run and the GTK loop turns; users and clients need not act.      *)
Fairness ==
  /\ \A t \in Tids : WF_vars(ServiceThread(t))
  /\ WF_vars(ListenThread)
  /\ WF_vars(GtkThread)

FairSpec == Spec /\ Fairness
-------------------------------------------------------------------------------
Places == {"unused", "start", "recv", "send", "close", "freeBuff", "exited"}
            \cup DOMAIN AfterLog

TypeOK ==
  /\ opened \in BOOLEAN /\ starts \in 0 .. MaxStarts
  /\ gtk \in [pc : {"loop", "stopLock"} \cup Closing, k : Slots]
  /\ listener \in [pc : {"none", "accept", "lock", "scan", "logSame", "cancel", "join",
                         "getBuff", "logFull", "refuse", "fill", "create", "exited"},
                   k : Slots, conn : Conns \cup {NoConn}]
  /\ thr \in [Tids -> [pc : Places, slot : Slots, conn : Conns \cup {NoConn}]]
  /\ cancelled \subseteq Writers /\ asleep \subseteq Writers
  /\ buffMutex \in {Nobody, Listener, Gtk}
  /\ slot \in [Slots -> [st : {"BUFF_FREED", "BUFF_OCCUPIED"}, tid : Tids \cup {NoTid},
                         addr : {Nobody} \cup {Addr[c] : c \in Conns},
                         conn : Conns \cup {NoConn}]]
  /\ fd \in [Conns -> {"none", "backlog", "open", "closed"}]
  /\ Ring!RingTypeOK
  /\ late \subseteq Conns /\ unserved \subseteq Conns /\ hasty \in BOOLEAN

(* No handle was used too early, and no connection met a stopserver.        *)
Orderly == ~hasty /\ late = {}

(* The connection a live thread serves, or is about to read from its slot.  *)
Serves(t) == IF thr[t].pc = "start" THEN slot[thr[t].slot].conn ELSE thr[t].conn

(* check_connection and the slot table keep at most one service thread per  *)
(* client address (threadbuff.h:72-101, server.c:34-54), although a slot is *)
(* found, filled and given to a thread in three separate steps.             *)
OneThreadPerAddress ==
  Orderly =>
    \A t, u \in Tids : Live(t) /\ Live(u) /\ Addr[Serves(t)] = Addr[Serves(u)] => t = u

(* A slot is occupied as long as its thread lives, holds that thread's      *)
(* handle and connection once the thread registered, and is given to no     *)
(* second thread: so whoever frees it never frees the slot of another       *)
(* thread (threadbuff.h:64-70, 91-97).                                      *)
SlotFollowsThread ==
  Orderly => \A t \in Tids : Live(t) =>
    LET s == slot[thr[t].slot] IN
    /\ s.st = "BUFF_OCCUPIED"
    /\ thr[t].pc # "start" => s.tid = t /\ s.conn = thr[t].conn
    /\ \A u \in Tids : Live(u) /\ thr[u].slot = thr[t].slot => u = t

(* After "Server close succeed!" no service thread is left and every slot   *)
(* is free (server.c:192-231).                                              *)
ClosedMeansEnded ==
  gtk.pc = "loop" /\ ~opened =>
    /\ \A t \in Tids : ~Live(t)
    /\ \A k \in Slots : slot[k].st = "BUFF_FREED"

(* That is so, and buff_mutex is free, whatever the service threads were    *)
(* doing and wherever the listen thread stood when stopserver was called,   *)
(* if no connection came in once it had the mutex, or was in hand then.     *)
QuietCloseEnds ==
  Orderly => ClosedMeansEnded /\ (gtk.pc = "loop" /\ ~opened => buffMutex = Nobody)

(* The listen thread was cancelled inside check_connection: buff_mutex is   *)
(* locked for ever.                                                         *)
MutexLost == buffMutex = Listener /\ listener.pc \notin {"scan", "logSame", "cancel", "join"}

(* Between server.c:212 and 213, unlock and cancel, the listen thread can   *)
(* enter check_connection.  The mutex is lost there only if two connections *)
(* of one address come in while stopserver runs: the first gets a thread    *)
(* behind the sweep, and the listen thread is cancelled while it ends that  *)
(* thread for the second.                                                   *)
MutexLostToTwo ==
  MutexLost => \E c, d \in late : c # d /\ Addr[c] = Addr[d]

(* The handle in slot k is that of the live thread of the slot.             *)
OwnHandle(k) ==
  \E t \in Tids : Live(t) /\ thr[t].slot = k /\ thr[t].pc # "start" /\ slot[k].tid = t

(* The handles that check_connection and stopserver cancel and join         *)
(* (threadbuff.h:91-93, server.c:204-205) are those of the threads that     *)
(* they mean to end, with three exceptions: the thread has not run yet      *)
(* (servicethread.h:41), it is about to be created, or pthread_create had   *)
(* failed, which server.c:55 does not notice.                               *)
HandlesOwn ==
  LET Known(k) == OwnHandle(k) \/ Starting(k) \/ slot[k].conn \in unserved IN
  /\ listener.pc = "cancel" => Known(listener.k)
  /\ gtk.pc = "sweep" =>
       \A k \in OccupiedFrom(gtk.k) : Known(k) \/ (listener.pc = "create" /\ listener.k = k)
-------------------------------------------------------------------------------
(* The ways in which the server can stop for good.                          *)

(* A thread waits in free_buff for buff_mutex, and the holder of buff_mutex *)
(* waits in pthread_join for that thread.                                   *)
JoinsWaiter ==
  \E t \in Tids :
    /\ thr[t].pc = "freeBuff"
    /\ \/ listener.pc = "join" /\ slot[listener.k].tid = t
       \/ gtk.pc = "join" /\ slot[gtk.k].tid = t

(* The listen thread waits in check_connection for room in the info ring,   *)
(* and the GTK thread, which alone makes room, for buff_mutex.              *)
RingAgainstMutex ==
  listener.pc = "logSame" /\ Listener \in asleep /\ gtk.pc = "stopLock" /\ Ring!Freed = {}

(* Between cancel and join the thread of the slot stored its handle over    *)
(* the one that was cancelled: a thread that nobody cancelled is joined.    *)
JoinsUncancelled ==
  \E t \in Tids \ cancelled :
    /\ Live(t)
    /\ \/ listener.pc = "join" /\ slot[listener.k].tid = t
       \/ gtk.pc = "join" /\ slot[gtk.k].tid = t

(* -1 or 0 is cancelled instead of a handle.                                *)
Crashed ==
  \/ listener.pc = "cancel" /\ slot[listener.k].tid = NoTid
  \/ /\ gtk.pc = "sweep" /\ OccupiedFrom(gtk.k) # {}
     /\ slot[Lowest(OccupiedFrom(gtk.k))].tid = NoTid

StoppedButForWaiter == RingAgainstMutex \/ JoinsUncancelled \/ Crashed \/ MutexLost
Stopped == JoinsWaiter \/ StoppedButForWaiter

Handled(c) == fd[c] = "closed" \/ \E t \in Tids : thr[t].conn = c

(* From some time on no client sends a request.  Without this a busy client *)
(* can keep the ring full whenever a writer wakes up from its sleep.        *)
ClientsCalmDown == <>[](\A t \in Tids : thr[t].pc # "logRequest")

(* A connecting client gets a service thread or is refused (server.c:27-65, *)
(* threadbuff.h:72-101), unless it met a stopserver, its thread could not   *)
(* be created, or the server stopped for good.                              *)
ServedOrRefused ==
  ClientsCalmDown =>
    \A c \in Conns : fd[c] = "backlog" ~> Handled(c) \/ c \in late \cup unserved \/ Stopped

(* Closing the server comes to an end, unless it stopped in one of the      *)
(* ways above: there is no other deadlock of stopserver.                    *)
StopCompletes == gtk.pc = "stopLock" ~> gtk.pc = "loop" \/ Stopped

(* threadbuff.h:72-74: a client that connects again has its old thread      *)
(* ended and gets a new one.  What other causes can prevent is left out.    *)
Renewed ==
  ClientsCalmDown =>
    \A c \in Conns :
      fd[c] = "backlog" ~> Handled(c) \/ c \in late \cup unserved \/ StoppedButForWaiter
===============================================================================
