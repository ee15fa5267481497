------------------------------ MODULE ShmHandshake ------------------------------
(***************************************************************************)
(* ipc/19ex_shm_serve.c and 20ex_shm_client.c: the server writes the       *)
(* alphabet into a shared segment and waits for a star in its first place; *)
(* a client prints what is there and puts the star.  Nothing else keeps    *)
(* them apart.  A step is one system call or one access to the segment.    *)
(***************************************************************************)
EXTENDS Integers, Sequences

CONSTANTS Clients,   \* runs of 20ex_shm_client
          LETTERS    \* 26 in the code

ASSUME HandshakeAssumption == LETTERS \in Nat \ {0}

VARIABLES
  inUse,     \* is the segment found under its key?
  text,      \* its places, 0 .. LETTERS
  place,     \* the server's or a client's position
  at,        \* where the server ("server") and each client stand
  printed    \* what each client printed

handshakeVars == <<inUse, text, place, at, printed>>

Server == "server"
Users == Clients \cup {Server}
Places == 0 .. LETTERS
Star == LETTERS + 1      \* the letters are 1 .. LETTERS
Terminator == 0

HandshakeInit ==
  /\ inUse = FALSE
  /\ text = [i \in Places |-> Terminator]
  /\ place = [u \in Users |-> 0]
  /\ at = [u \in Users |-> "shmget"]
  /\ printed = [c \in Clients |-> << >>]

Move(u, from, to) == at[u] = from /\ at' = [at EXCEPT ![u] = to]
-------------------------------------------------------------------------------
(* The server.  A new segment is full of zeros; shmget and shmat are one    *)
(* step, because only the server removes the segment.                       *)
CreateSegment ==
  /\ Move(Server, "shmget", "write")
  /\ inUse' = TRUE
  /\ UNCHANGED <<text, place, printed>>

Target == place[Server]

WriteNext ==
  /\ Move(Server, "write", IF place[Server] = LETTERS THEN "poll" ELSE "write")
  /\ text' = [text EXCEPT ![Target] =
                IF Target = LETTERS THEN Terminator ELSE Target + 1]
  /\ place' = [place EXCEPT ![Server] = IF @ = LETTERS THEN @ ELSE @ + 1]
  /\ UNCHANGED <<inUse, printed>>

(* The server looks once a second for the star, then removes the segment    *)
(* (nobody finds it from now on) and ends.                                  *)
SeeStar ==
  /\ text[0] = Star
  /\ Move(Server, "poll", "exit")
  /\ inUse' = FALSE
  /\ UNCHANGED <<text, place, printed>>

ServerExit ==
  /\ Move(Server, "exit", "done")
  /\ UNCHANGED <<inUse, text, place, printed>>
-------------------------------------------------------------------------------
(* A client.  shmget without IPC_CREAT fails when there is no segment.      *)
GetSegment(c) ==
  /\ Move(c, "shmget", IF inUse THEN "shmat" ELSE "failed")
  /\ UNCHANGED <<inUse, text, place, printed>>

(* A removed segment lives on while a program is attached to it; a client   *)
(* that comes later fails (and its own shmctl removes nothing).             *)
SegmentLives == inUse \/ \E u \in Users : at[u] \in {"write", "poll", "exit", "print"}

Attach(c) ==
  /\ Move(c, "shmat", IF SegmentLives THEN "print" ELSE "failed")
  /\ UNCHANGED <<inUse, text, place, printed>>

MutantNoTerminator(c) == FALSE

AllPrinted(c) == text[place[c]] = Terminator

PrintNext(c) ==
  /\ at[c] = "print" /\ ~AllPrinted(c)
  /\ UNCHANGED at
  /\ printed' = [printed EXCEPT ![c] = Append(@, text[place[c]])]
  /\ place' = [place EXCEPT ![c] = @ + 1]
  /\ UNCHANGED <<inUse, text>>

PutStar(c) ==
  /\ Move(c, "print", "done")
  /\ AllPrinted(c)
  /\ text' = [text EXCEPT ![0] = Star]
  /\ UNCHANGED <<inUse, place, printed>>
-------------------------------------------------------------------------------
ServerWorks == CreateSegment \/ WriteNext \/ SeeStar \/ ServerExit
ClientWorks(c) == GetSegment(c) \/ Attach(c) \/ PrintNext(c) \/ PutStar(c)

HandshakeNext == ServerWorks \/ \E c \in Clients : ClientWorks(c)

HandshakeSpec == HandshakeInit /\ [][HandshakeNext]_handshakeVars
-------------------------------------------------------------------------------
(* The variables have their types; nobody leaves the text, so no client     *)
(* reads past the server's '\0', which may not be written yet (what is not   *)
(* written is zero in a new segment).                                       *)
HandshakeTypeOK ==
  /\ inUse \in BOOLEAN
  /\ text \in [Places -> 0 .. Star]
  /\ place \in [Users -> Places]
  /\ at \in [Users ->
               {"shmget", "shmat", "write", "poll", "print", "exit", "done", "failed"}]
  /\ printed \in [Clients -> Seq(1 .. Star)]

(* A client that attaches when the server has written all prints as many    *)
(* letters as there are, also when another one puts its star meanwhile.     *)
WholeAlphabet ==
  \A c \in Clients :
    at[Server] = "poll" /\ at[c] \in {"shmget", "shmat"}
      ~> Len(printed[c]) = LETTERS \/ at[c] = "failed"

(* A client that still prints after the server's first letter ends the      *)
(* server, though it may overtake it: its star is not written over.  (A     *)
(* client that is done before the first letter loses its star, and the      *)
(* server waits on.)                                                        *)
StarSeen ==
  \A c \in Clients :
    place[Server] > 0 /\ at[c] = "print" ~> at[Server] = "done"
================================================================================
