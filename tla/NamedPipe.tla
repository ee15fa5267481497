-------------------------------- MODULE NamedPipe --------------------------------
(***************************************************************************)
(* ipc/pipe_server.c and pipe_client.c: the server opens the FIFO again    *)
(* and again and prints what it reads until the end of file; each run of   *)
(* the client writes one text into it.  An open of one end waits for the   *)
(* other one.  The texts have no line feed, so that fgets reads until no   *)
(* writer is left, or until its buffer is full.  No client runs before the *)
(* FIFO exists (its fopen would make a regular file of that name).         *)
(***************************************************************************)
EXTENDS Integers, Sequences

CONSTANTS
  Texts,       \* the texts, each of one run of the client
  Silent,      \* the runs without arguments, which write nothing
  READBUFF,    \* how many texts fit in readbuff
  OPEN_MAX     \* how many files the server can have open

ASSUME PipeAssumption == Silent \subseteq Texts /\ READBUFF \in Nat \ {0} /\ OPEN_MAX \in Nat

VARIABLES
  server,      \* where the server stands
  leaked,      \* how many ends it has forgotten to close
  met,         \* has a writer come since it opens?
  client,      \* where each client stands
  pipe,        \* the texts in the pipe
  readbuff,    \* what fgets has read so far
  received,    \* the texts that were printed
  expected,    \* history: the clients that came while the server waited in its loop
  cut          \* history: has fgets stopped at a full buffer?

pipeVars == <<server, leaked, met, client, pipe, readbuff, received, expected, cut>>
results == <<readbuff, received, cut>>

(* The FIFO is left from an earlier server, or not there yet.               *)
PipeInit ==
  /\ server \in {"first open", "mknod"} /\ leaked = 0 /\ met = FALSE
  /\ client = [c \in Texts |-> "start"]
  /\ pipe = << >> /\ readbuff = << >> /\ received = {}
  /\ expected = {} /\ cut = FALSE

(* An end counts from the beginning of its open.                            *)
Writers(at) == {c \in Texts : at[c] \in {"opening", "open", "fclose"}}
Reading(at) == at \in {"probe", "probed", "opening", "fgets", "fclose"}
HasReader == Reading(server) \/ leaked > 0

(* What is in a pipe is gone when all ends are closed.                      *)
Kept == IF HasReader' \/ Writers(client') # {} THEN pipe ELSE << >>
-------------------------------------------------------------------------------
(* The server.  Its first fopen only finds out whether the FIFO is there,   *)
(* but waits for a writer, whose text is lost if it comes before the next.  *)
ServerMoves(from, to) == server = from /\ server' = to

Mknod ==
  /\ ServerMoves("mknod", "open")
  /\ UNCHANGED <<leaked, met, client, pipe, results, expected>>

OpenRead(from, to) ==
  /\ leaked < OPEN_MAX
  /\ ServerMoves(from, to)
  /\ met' = (Writers(client) # {})
  /\ client' = [c \in Texts |-> IF client[c] = "opening" THEN "open" ELSE client[c]]
  /\ UNCHANGED <<leaked, pipe, results, expected>>

Opened(from, to) ==
  /\ met
  /\ ServerMoves(from, to)
  /\ UNCHANGED <<leaked, met, client, pipe, results, expected>>

MutantReadsOnce == pipe = << >>

EndOfFile == pipe = << >> /\ Writers(client) = {}

Fgets ==
  /\ server = "fgets" /\ pipe # << >> /\ Len(readbuff) < READBUFF
  /\ LET all == readbuff \o pipe IN
       /\ readbuff' = SubSeq(all, 1, IF Len(all) > READBUFF THEN READBUFF ELSE Len(all))
       /\ cut' = (cut \/ Len(all) >= READBUFF)
  /\ pipe' = << >>
  /\ UNCHANGED <<server, leaked, met, client, received, expected>>

(* No text before the end of file is taken for no error, and fp stays open. *)
FgetsNull ==
  /\ EndOfFile /\ readbuff = << >>
  /\ ServerMoves("fgets", "open")
  /\ leaked' = leaked + 1
  /\ UNCHANGED <<met, client, pipe, results, expected>>

PrintText ==
  /\ readbuff # << >> /\ (EndOfFile \/ Len(readbuff) = READBUFF)
  /\ ServerMoves("fgets", "fclose")
  /\ received' = received \cup {readbuff[k] : k \in 1 .. Len(readbuff)}
  /\ readbuff' = << >>
  /\ UNCHANGED <<leaked, met, client, pipe, expected, cut>>

FcloseRead(from) ==
  /\ ServerMoves(from, "open")
  /\ UNCHANGED <<leaked, met, client, results, expected>>
  /\ pipe' = Kept

(* fopen fails, and exit closes what was leaked.                            *)
OpenFails ==
  /\ leaked = OPEN_MAX
  /\ ServerMoves("open", "failed")
  /\ leaked' = 0
  /\ UNCHANGED <<met, client, results, expected>>
  /\ pipe' = Kept

PipeServer ==
  \/ OpenRead("first open", "probe") \/ Opened("probe", "probed") \/ FcloseRead("probed")
  \/ Mknod \/ OpenRead("open", "opening") \/ OpenFails \/ Opened("opening", "fgets")
  \/ Fgets \/ FgetsNull \/ PrintText \/ FcloseRead("fclose")
-------------------------------------------------------------------------------
(* A client.                                                                *)
OpenWrite(c) ==
  /\ client[c] = "start" /\ server # "mknod"
  /\ client' = [client EXCEPT ![c] = IF HasReader THEN "open" ELSE "opening"]
  /\ met' = TRUE
  /\ expected' = IF server = "opening" THEN expected \cup {c} ELSE expected
  /\ UNCHANGED <<server, leaked, pipe, results>>

(* fclose writes what fputs collected.  Without a reader that kills the     *)
(* client (SIGPIPE).                                                        *)
WriteText(c) ==
  /\ client[c] = "open"
  /\ UNCHANGED <<server, leaked, met, results, expected>>
  /\ \/ c \in Silent /\ client' = [client EXCEPT ![c] = "fclose"] /\ UNCHANGED pipe
     \/ c \notin Silent /\ HasReader
          /\ client' = [client EXCEPT ![c] = "fclose"] /\ pipe' = Append(pipe, c)
     \/ c \notin Silent /\ ~HasReader
          /\ client' = [client EXCEPT ![c] = "killed"] /\ pipe' = Kept

FcloseWrite(c) ==
  /\ client[c] = "fclose"
  /\ client' = [client EXCEPT ![c] = "ended"]
  /\ UNCHANGED <<server, leaked, met, results, expected>>
  /\ pipe' = Kept

PipeNext == PipeServer \/ \E c \in Texts : OpenWrite(c) \/ WriteText(c) \/ FcloseWrite(c)

PipeSpec == PipeInit /\ [][PipeNext]_pipeVars
-------------------------------------------------------------------------------
PipeTypeOK ==
  /\ server \in {"first open", "probe", "probed", "mknod", "open", "opening", "fgets",
                 "fclose", "failed"}
  /\ leaked \in 0 .. OPEN_MAX /\ met \in BOOLEAN /\ cut \in BOOLEAN
  /\ client \in [Texts -> {"start", "opening", "open", "fclose", "killed", "ended"}]
  /\ pipe \in Seq(Texts) /\ readbuff \in Seq(Texts)
  /\ received \subseteq Texts /\ expected \subseteq Texts

(* A client that comes while the server waits for one is never killed and   *)
(* its text never lost, whoever else comes, and however many ends were      *)
(* leaked: it has still to write, or its text is in the pipe, in the buffer *)
(* or printed - unless fgets stopped at a full buffer.  (A client that      *)
(* comes at another time has no such promise.)                              *)
ExpectedArrives ==
  \A c \in expected \ Silent :
    \/ client[c] = "open" \/ c \in received \/ cut
    \/ \E k \in 1 .. Len(pipe) : pipe[k] = c
    \/ \E k \in 1 .. Len(readbuff) : readbuff[k] = c
================================================================================
