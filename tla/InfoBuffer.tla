------------------------------ MODULE InfoBuffer ------------------------------
(***************************************************************************)
(* The output path of the ticket server: writers that call add_info, the   *)
(* ring between them and the window, and the window itself.  A line is the *)
(* pair of its writer and its number among that writer's lines.            *)
(***************************************************************************)
EXTENDS InfoRing, Sequences, FiniteSets

CONSTANT MaxLines      \* bound: calls of add_info per writer

ASSUME MaxLinesAssumption == MaxLines \in Nat

VARIABLES text,        \* info[i].msg
          stored,      \* calls of add_info that returned, per writer
          window       \* what the window shows: one batch per info_print

vars == <<status, claim, text, stored, window>>

Line == Writers \X (1 .. MaxLines)
Blank == << >>         \* the empty string of a slot never written
NextLine(w) == <<w, stored[w] + 1>>

Init ==
  /\ RingInit
  /\ text = [i \in InfoSlots |-> Blank]
  /\ stored = [w \in Writers |-> 0]
  /\ window = << >>

BeginAddInfo(w) ==
  /\ stored[w] < MaxLines
  /\ GetFreeInfo(w)
  /\ UNCHANGED <<text, stored, window>>

EndAddInfo(w) ==
  /\ StoreInfo(w)
  /\ text' = [text EXCEPT ![claim[w]] = NextLine(w)]
  /\ stored' = [stored EXCEPT ![w] = @ + 1]
  /\ UNCHANGED window

(* display_info appends; a batch is a function from the slots that were    *)
(* occupied, and the window shows it in the order of the slots.  A call    *)
(* that finds no occupied slot leaves everything as it is.                  *)
Show ==
  /\ InfoPrint
  /\ Printed # {}
  /\ window' = Append(window, [i \in Printed |-> text[i]])
  /\ UNCHANGED <<text, stored>>

Done ==
  /\ \A w \in Writers : stored[w] = MaxLines
  /\ Occupied = {}
  /\ UNCHANGED vars

Next ==
  \/ \E w \in Writers : BeginAddInfo(w) \/ EndAddInfo(w)
  \/ Show
  \/ Done

Spec == Init /\ [][Next]_vars

(* Threads run, and the GTK loop fires its timer again and again.           *)
Fairness ==
  /\ \A w \in Writers : WF_vars(BeginAddInfo(w)) /\ WF_vars(EndAddInfo(w))
  /\ WF_vars(Show)

FairSpec == Spec /\ Fairness
-------------------------------------------------------------------------------
TypeOK ==
  /\ RingTypeOK
  /\ text \in [InfoSlots -> Line \cup {Blank}]
  /\ stored \in [Writers -> 0 .. MaxLines]
  /\ window \in Seq(UNION {[S -> Line] : S \in SUBSET InfoSlots})

Accepted == {l \in Line : l[2] <= stored[l[1]]}
InRing == {text[i] : i \in Occupied}
InBatch(k) == {window[k][i] : i \in DOMAIN window[k]}
InWindow == UNION {InBatch(k) : k \in DOMAIN window}
Lost == Accepted \ (InRing \cup InWindow)

(* A slot that get_free_info distributed is still free when add_info fills *)
(* it (global.h:96-141).  True while one thread writes; two writers can    *)
(* be given the same slot.                                                 *)
DistributedIsFree ==
  \A w \in Writers : claim[w] # NoSlot => status[claim[w]] = "INFO_FREED"

(* The window never shows a line twice, and shows no line that add_info    *)
(* has not stored; a slot is freed in the section that shows it.           *)
ShownOnce ==
  /\ InWindow \subseteq Accepted
  /\ \A k, m \in DOMAIN window :
       \A i \in DOMAIN window[k], j \in DOMAIN window[m] :
         window[k][i] = window[m][j] => k = m /\ i = j

(* What the race of two writers can cost: a filled slot was distributed,   *)
(* while free, to each of the other writers at most once, so for one line  *)
(* kept at most Cardinality(Writers) - 1 are overwritten.  With one writer *)
(* nothing is lost (global.h:129-143, server.c:371-386).                   *)
LossBounded ==
  Cardinality(Lost) <=
    (Cardinality(Writers) - 1) * Cardinality(InRing \cup InWindow)

(* The window keeps the order of each writer's lines between batches, and   *)
(* inside a batch only the writer's oldest line can stand too late: its     *)
(* slot was chosen before the print that freed the slots below it, the      *)
(* other lines were stored and distributed after that print.                *)
NearlyInOrder ==
  \A k, m \in DOMAIN window :
    \A i \in DOMAIN window[k], j \in DOMAIN window[m] :
      LET a == window[k][i]
          b == window[m][j]
          bNotOldest == \E h \in DOMAIN window[m] :
                          window[m][h][1] = b[1] /\ window[m][h][2] < b[2]
      IN  (a[1] = b[1] /\ (k < m \/ (k = m /\ i < j /\ bNotOldest)))
            => a[2] < b[2]

(* Every call of add_info returns, however often it found the ring full,   *)
(* and every stored line leaves the ring for the window.                   *)
EverythingShown ==
  <>[](Occupied = {} /\ \A w \in Writers : stored[w] = MaxLines)
===============================================================================
