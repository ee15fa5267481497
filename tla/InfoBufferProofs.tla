--------------------------- MODULE InfoBufferProofs ---------------------------
(***************************************************************************)
(* Theorems about InfoBuffer, for all writers, ring sizes and numbers of   *)
(* lines: the types, that no line is shown twice, that one writer alone    *)
(* (the case of add_info's comments) never loses a line, in which order    *)
(* the window shows the lines, and how many the race can cost.             *)
(***************************************************************************)
EXTENDS InfoBuffer, FiniteSetTheorems, TLAPS

(* A batch of the window: the lines of some of the slots.                   *)
Batch == UNION {[S -> Line] : S \in SUBSET InfoSlots}

(* TypeOK is not inductive: a print copies what occupied slots hold, and a  *)
(* store writes the next line of a writer that is not done.                 *)
TypeInv ==
  /\ TypeOK
  /\ \A i \in Occupied : text[i] \in Line
  /\ \A w \in Writers : claim[w] # NoSlot => stored[w] < MaxLines

(* Slots are numbers, and NoSlot is none of them.                           *)
LEMMA SlotTypes ==
  /\ \A i \in InfoSlots : i \in Int /\ i # NoSlot
  /\ MaxLines \in Nat
BY InfoNumAssumption, MaxLinesAssumption DEF InfoSlots, NoSlot

(* What a print adds to the window is a batch.                              *)
LEMMA PrintedIsBatch ==
  ASSUME TypeInv
  PROVE  [i \in Printed |-> text[i]] \in Batch
<1>1. Printed \subseteq InfoSlots /\ \A i \in Printed : text[i] \in Line
  BY DEF TypeInv, Printed, Occupied
<1>2. [i \in Printed |-> text[i]] \in [Printed -> Line]
  BY <1>1
<1> QED
  BY <1>1, <1>2 DEF Batch

(* Nothing is occupied or claimed when the server starts.                   *)
LEMMA InitTypeInv == Init => TypeInv
BY SlotTypes DEF Init, RingInit, TypeInv, TypeOK, RingTypeOK, Occupied

(* The types survive the two sections of add_info and a print.              *)
LEMMA TypeInductive ==
  ASSUME TypeInv, [Next]_vars
  PROVE  TypeInv'
<1> USE SlotTypes
<1>1. ASSUME NEW w \in Writers, BeginAddInfo(w) PROVE TypeInv'
  <2>1. PICK i \in InfoSlots : claim' = [claim EXCEPT ![w] = i]
    BY <1>1 DEF BeginAddInfo, GetFreeInfo, LowestFreed, Freed
  <2>2. UNCHANGED <<status, text, stored, window>> /\ stored[w] < MaxLines
    BY <1>1 DEF BeginAddInfo, GetFreeInfo
  <2> QED
    BY <2>1, <2>2 DEF TypeInv, TypeOK, RingTypeOK, Occupied
<1>2. ASSUME NEW w \in Writers, EndAddInfo(w) PROVE TypeInv'
  <2> DEFINE c == claim[w]
  <2>1. c \in InfoSlots /\ stored[w] \in 0 .. MaxLines /\ stored[w] < MaxLines
    BY <1>2 DEF EndAddInfo, StoreInfo, TypeInv, TypeOK, RingTypeOK
  <2>2. NextLine(w) \in Line /\ stored[w] + 1 \in 0 .. MaxLines
    BY <2>1 DEF NextLine, Line
  <2>3. /\ status' = [status EXCEPT ![c] = "INFO_OCCUPIED"]
        /\ claim' = [claim EXCEPT ![w] = NoSlot]
        /\ text' = [text EXCEPT ![c] = NextLine(w)]
        /\ stored' = [stored EXCEPT ![w] = stored[w] + 1]
        /\ window' = window
    BY <1>2 DEF EndAddInfo, StoreInfo
  <2>4. TypeOK'
    BY <2>1, <2>2, <2>3 DEF TypeInv, TypeOK, RingTypeOK
  <2>5. \A i \in Occupied' : text'[i] \in Line
    BY <2>1, <2>2, <2>3 DEF TypeInv, TypeOK, RingTypeOK, Occupied
  <2>6. \A v \in Writers : claim'[v] # NoSlot => stored'[v] < MaxLines
    BY <2>3 DEF TypeInv, TypeOK, RingTypeOK
  <2> QED
    BY <2>4, <2>5, <2>6 DEF TypeInv
<1>3. ASSUME Show PROVE TypeInv'
  <2>1. /\ status' = [i \in InfoSlots |-> IF i \in Printed THEN "INFO_FREED" ELSE status[i]]
        /\ UNCHANGED <<claim, text, stored>>
        /\ window' = Append(window, [i \in Printed |-> text[i]])
    BY <1>3 DEF Show, InfoPrint
  <2>2. status' \in [InfoSlots -> {"INFO_FREED", "INFO_OCCUPIED"}]
    BY <2>1 DEF TypeInv, TypeOK, RingTypeOK
  <2>3. window' \in Seq(Batch)
    BY <2>1, PrintedIsBatch DEF TypeInv, TypeOK, Batch
  <2>4. TypeOK'
    BY <2>1, <2>2, <2>3 DEF TypeInv, TypeOK, RingTypeOK, Batch
  <2>5. Occupied' \subseteq Occupied
    BY <2>1 DEF Occupied
  <2> QED
    BY <2>1, <2>4, <2>5 DEF TypeInv
<1>4. ASSUME UNCHANGED vars PROVE TypeInv'
  BY <1>4 DEF vars, TypeInv, TypeOK, RingTypeOK, Occupied
<1> QED
  BY <1>1, <1>2, <1>3, <1>4 DEF Next, Done

(* Every variable keeps its type: slots handed out and claimed are slots of *)
(* the ring, and the window holds whole lines only.                         *)
THEOREM BufferTypeCorrect == Spec => []TypeOK
<1>1. TypeInv => TypeOK
  BY DEF TypeInv
<1> QED
  BY InitTypeInv, TypeInductive, <1>1, PTL DEF Spec
-------------------------------------------------------------------------------
(* Why no line is shown twice: a line that was stored stands in at most one *)
(* place, a slot or the window, and lines that were not stored in none.     *)
StoredOnly ==
  /\ \A i \in Occupied : text[i] \in Accepted
  /\ \A k \in DOMAIN window : \A j \in DOMAIN window[k] : window[k][j] \in Accepted

OnePlace ==
  /\ \A i, j \in Occupied : text[i] = text[j] => i = j
  /\ \A i \in Occupied, k \in DOMAIN window :
       \A j \in DOMAIN window[k] : window[k][j] # text[i]
  /\ \A k, m \in DOMAIN window :
       \A i \in DOMAIN window[k], j \in DOMAIN window[m] :
         window[k][i] = window[m][j] => k = m /\ i = j

OnceInv == TypeInv /\ StoredOnly /\ OnePlace

(* A store accepts one more line, which was not accepted before.            *)
LEMMA StoreAccepts ==
  ASSUME TypeInv, NEW w \in Writers, EndAddInfo(w)
  PROVE  NextLine(w) \notin Accepted /\ Accepted' = Accepted \cup {NextLine(w)}
<1>1. stored \in [Writers -> 0 .. MaxLines] /\ stored[w] < MaxLines /\ MaxLines \in Nat
  BY SlotTypes DEF TypeInv, TypeOK, RingTypeOK, EndAddInfo, StoreInfo
<1>2. stored' = [stored EXCEPT ![w] = stored[w] + 1]
  BY DEF EndAddInfo
<1>3. ASSUME NEW l \in Line
      PROVE  l[2] <= stored'[l[1]] <=> l[2] <= stored[l[1]] \/ l = NextLine(w)
  <2>1. l[1] \in Writers /\ l[2] \in 1 .. MaxLines /\ l = <<l[1], l[2]>>
    BY DEF Line
  <2>2. l = NextLine(w) <=> l[1] = w /\ l[2] = stored[w] + 1
    BY <2>1 DEF NextLine
  <2>3. CASE l[1] = w
    <3>1. stored'[l[1]] = stored[w] + 1
      BY <1>1, <1>2, <2>3
    <3> QED
      BY <1>1, <2>1, <2>2, <2>3, <3>1
  <2>4. CASE l[1] # w
    BY <1>1, <1>2, <2>1, <2>2, <2>4
  <2> QED
    BY <2>3, <2>4
<1>4. NextLine(w) \in Line /\ ~(NextLine(w)[2] <= stored[NextLine(w)[1]])
  BY <1>1 DEF NextLine, Line
<1> QED
  BY <1>3, <1>4 DEF Accepted

(* What is occupied after a store: the claimed slot, with the new line, and *)
(* the slots that were.                                                     *)
LEMMA StoreOccupies ==
  ASSUME TypeInv, NEW w \in Writers, EndAddInfo(w)
  PROVE  /\ Occupied' = Occupied \cup {claim[w]}
         /\ claim[w] \in InfoSlots
         /\ text'[claim[w]] = NextLine(w)
         /\ \A i \in Occupied \ {claim[w]} : text'[i] = text[i]
         /\ window' = window
BY DEF TypeInv, TypeOK, RingTypeOK, EndAddInfo, StoreInfo, Occupied

(* What a print does: nothing is occupied any more, and there is one more   *)
(* batch, of what was.                                                      *)
LEMMA ShowEmpties ==
  ASSUME TypeInv, Show
  PROVE  /\ Occupied' = {}
         /\ DOMAIN window' = DOMAIN window \cup {Len(window) + 1}
         /\ Len(window) + 1 \notin DOMAIN window
         /\ \A k \in DOMAIN window : window'[k] = window[k]
         /\ DOMAIN window'[Len(window) + 1] = Occupied
         /\ \A i \in Occupied : window'[Len(window) + 1][i] = text[i]
         /\ Accepted' = Accepted
<1>1. window \in Seq(Batch) /\ status \in [InfoSlots -> {"INFO_FREED", "INFO_OCCUPIED"}]
  BY DEF TypeInv, TypeOK, RingTypeOK, Batch
<1> DEFINE b == [i \in Printed |-> text[i]]
<1>2. window' = Append(window, b)
  BY DEF Show
<1>3. b \in Batch
  BY PrintedIsBatch
<1>4. DOMAIN b = Occupied /\ \A i \in Occupied : b[i] = text[i]
  BY DEF Printed
<1> HIDE DEF b
<1>5. /\ DOMAIN window' = DOMAIN window \cup {Len(window) + 1}
      /\ Len(window) + 1 \notin DOMAIN window
      /\ \A k \in DOMAIN window : window'[k] = window[k]
      /\ window'[Len(window) + 1] = b
  BY <1>1, <1>2, <1>3
<1>6. Occupied' = {}
  BY <1>1 DEF Show, InfoPrint, Printed, Occupied
<1>7. Accepted' = Accepted
  BY DEF Show, Accepted
<1> QED
  BY <1>4, <1>5, <1>6, <1>7

(* Nothing was stored or shown when the server starts.                      *)
LEMMA InitOnce == Init => OnceInv
<1> SUFFICES ASSUME Init PROVE OnceInv
  OBVIOUS
<1>1. Occupied = {} /\ DOMAIN window = {}
  BY DEF Init, RingInit, Occupied
<1> QED
  BY <1>1, InitTypeInv DEF OnceInv, StoredOnly, OnePlace

(* A store puts a new line into one place, and a print moves what is in the *)
(* slots to the window: no line gets a second place.                        *)
LEMMA OnceInductive ==
  ASSUME OnceInv, [Next]_vars
  PROVE  OnceInv'
<1>0. TypeInv /\ TypeInv'
  BY TypeInductive DEF OnceInv
<1>1. ASSUME NEW w \in Writers, BeginAddInfo(w) PROVE OnceInv'
  BY <1>0, <1>1
     DEF BeginAddInfo, GetFreeInfo, OnceInv, StoredOnly, OnePlace, Occupied, Accepted
<1>2. ASSUME NEW w \in Writers, EndAddInfo(w) PROVE OnceInv'
  <2>1. StoredOnly'
    BY <1>0, <1>2, StoreAccepts, StoreOccupies DEF OnceInv, StoredOnly
  <2>2. \A i \in Occupied : text[i] # NextLine(w)
    BY <1>0, <1>2, StoreAccepts DEF OnceInv, StoredOnly
  <2>3. \A k \in DOMAIN window : \A j \in DOMAIN window[k] : window[k][j] # NextLine(w)
    BY <1>0, <1>2, StoreAccepts DEF OnceInv, StoredOnly
  <2>4. OnePlace'
    BY <1>0, <1>2, <2>2, <2>3, StoreOccupies DEF OnceInv, OnePlace
  <2> QED
    BY <1>0, <2>1, <2>4 DEF OnceInv
<1>3. ASSUME Show PROVE OnceInv'
  <2>1. StoredOnly'
    BY <1>0, <1>3, ShowEmpties DEF OnceInv, StoredOnly
  <2>2. OnePlace'
    BY <1>0, <1>3, ShowEmpties DEF OnceInv, OnePlace
  <2> QED
    BY <1>0, <2>1, <2>2 DEF OnceInv
<1>4. ASSUME UNCHANGED vars PROVE OnceInv'
  BY <1>0, <1>4 DEF vars, OnceInv, StoredOnly, OnePlace, Occupied, Accepted
<1> QED
  BY <1>1, <1>2, <1>3, <1>4 DEF Next, Done

(* However many writers race for a slot, the window shows no line twice and *)
(* none that add_info did not store (info_print frees in the section that   *)
(* shows).                                                                  *)
THEOREM NoLineTwice == Spec => []ShownOnce
<1>1. OnceInv => ShownOnce
  BY DEF OnceInv, StoredOnly, OnePlace, ShownOnce, InWindow, InBatch
<1> QED
  BY InitOnce, OnceInductive, <1>1, PTL DEF Spec

-------------------------------------------------------------------------------
(* With one writer the two sections of add_info are as good as one: between *)
(* them only info_print runs, and it fills no slot.                         *)
OneWriterInv == TypeInv /\ DistributedIsFree /\ Lost = {}

(* Between the two sections of the only writer nobody fills its slot.       *)
LEMMA OneWriterInductive ==
  ASSUME NEW me \in Writers, Writers = {me}, OneWriterInv, [Next]_vars
  PROVE  OneWriterInv'
<1>0. TypeInv /\ TypeInv'
  BY TypeInductive DEF OneWriterInv
<1> USE DEF Lost, InRing, InWindow, InBatch
<1>1. ASSUME NEW w \in Writers, BeginAddInfo(w) PROVE OneWriterInv'
  <2>1. PICK i \in Freed : claim' = [claim EXCEPT ![w] = i]
    BY <1>1 DEF BeginAddInfo, GetFreeInfo, LowestFreed
  <2>2. DistributedIsFree'
    BY <1>0, <1>1, <2>1
       DEF BeginAddInfo, GetFreeInfo, Freed, OneWriterInv, DistributedIsFree, TypeInv, TypeOK,
           RingTypeOK
  <2>3. Lost' = Lost
    BY <1>1 DEF BeginAddInfo, GetFreeInfo, Occupied, Accepted
  <2> QED
    BY <1>0, <2>2, <2>3 DEF OneWriterInv
<1>2. ASSUME NEW w \in Writers, EndAddInfo(w) PROVE OneWriterInv'
  <2>1. claim[w] \notin Occupied
    BY <1>2 DEF EndAddInfo, StoreInfo, OneWriterInv, DistributedIsFree, Occupied
  <2>2. InRing' = InRing \cup {NextLine(w)} /\ InWindow' = InWindow
    BY <1>0, <1>2, <2>1, StoreOccupies
  <2>3. Accepted' = Accepted \cup {NextLine(w)}
    BY <1>0, <1>2, StoreAccepts
  <2>4. Lost' = {}
    BY <2>2, <2>3 DEF OneWriterInv
  <2>5. claim'[w] = NoSlot
    BY <1>0, <1>2 DEF EndAddInfo, StoreInfo, TypeInv, TypeOK, RingTypeOK
  <2> QED
    BY <1>0, <2>4, <2>5 DEF OneWriterInv, DistributedIsFree
<1>3. ASSUME Show PROVE OneWriterInv'
  <2>1. InRing \cup InWindow = InRing' \cup InWindow'
    BY <1>0, <1>3, ShowEmpties
  <2>2. Lost' = {}
    BY <1>0, <1>3, <2>1, ShowEmpties DEF OneWriterInv
  <2>3. DistributedIsFree'
    BY <1>0, <1>3 DEF Show, InfoPrint, OneWriterInv, DistributedIsFree, TypeInv, TypeOK, RingTypeOK
  <2> QED
    BY <1>0, <2>2, <2>3 DEF OneWriterInv
<1>4. ASSUME UNCHANGED vars PROVE OneWriterInv'
  BY <1>0, <1>4 DEF vars, OneWriterInv, DistributedIsFree, Occupied, Accepted
<1> QED
  BY <1>1, <1>2, <1>3, <1>4 DEF Next, Done

(* One writer alone is never given a slot that is filled before it stores,  *)
(* and none of its lines is lost: the race needs a second writer.           *)
THEOREM OneWriterLosesNothing ==
  ASSUME NEW me \in Writers, Writers = {me}
  PROVE  Spec => [](DistributedIsFree /\ Lost = {})
<1>1. Init => OneWriterInv
  <2> SUFFICES ASSUME Init PROVE OneWriterInv
    OBVIOUS
  <2>1. DistributedIsFree
    BY DEF Init, RingInit, DistributedIsFree
  <2>2. stored \in [Writers -> {0}]
    BY DEF Init
  <2>3. \A l \in Line : l[1] \in Writers /\ l[2] \in 1 .. MaxLines
    BY DEF Line
  <2>4. Lost = {}
    BY <2>2, <2>3, MaxLinesAssumption DEF Lost, Accepted
  <2> QED
    BY <2>1, <2>4, InitTypeInv DEF OneWriterInv
<1>2. OneWriterInv /\ [Next]_vars => OneWriterInv'
  BY OneWriterInductive
<1>3. OneWriterInv => DistributedIsFree /\ Lost = {}
  BY DEF OneWriterInv
<1> QED
  BY <1>1, <1>2, <1>3, PTL DEF Spec
-------------------------------------------------------------------------------
(* The order of the window.  A line that is not its writer's oldest in the  *)
(* ring was stored into a slot distributed after the last print, as the     *)
(* lowest free one: below it everything is occupied, and the writer's next  *)
(* slot is above it.                                                        *)
NotOldest(j) == \E h \in Occupied : text[h][1] = text[j][1] /\ text[h][2] < text[j][2]

RingInOrder ==
  \A i, j \in Occupied :
    i < j /\ text[i][1] = text[j][1] /\ NotOldest(j) => text[i][2] < text[j][2]

FullBelow == \A j \in Occupied : NotOldest(j) => \A i \in InfoSlots : i < j => i \in Occupied

ClaimsFullBelow ==
  \A w \in Writers, j \in Occupied :
    claim[w] # NoSlot /\ text[j][1] = w => \A i \in InfoSlots : i < claim[w] => i \in Occupied

ClaimsAbove ==
  \A w \in Writers, j \in Occupied :
    claim[w] # NoSlot /\ text[j][1] = w /\ NotOldest(j) => ~(claim[w] < j)

WindowFirst ==
  \A k \in DOMAIN window : \A i \in DOMAIN window[k], j \in Occupied :
    window[k][i][1] = text[j][1] => window[k][i][2] < text[j][2]

OrderInv ==
  /\ OnceInv
  /\ RingInOrder
  /\ FullBelow
  /\ ClaimsFullBelow
  /\ ClaimsAbove
  /\ WindowFirst
  /\ NearlyInOrder

(* The numbers of lines are numbers, and a store writes a higher one than   *)
(* all that its writer stored before.                                       *)
LEMMA NewLineIsHighest ==
  ASSUME TypeInv, NEW w \in Writers, EndAddInfo(w)
  PROVE  /\ NextLine(w)[1] = w
         /\ NextLine(w)[2] \in Int
         /\ \A l \in Accepted : l[2] \in Int /\ (l[1] = w => l[2] < NextLine(w)[2])
<1>1. stored \in [Writers -> 0 .. MaxLines] /\ MaxLines \in Nat
  BY SlotTypes DEF TypeInv, TypeOK
<1>2. NextLine(w)[1] = w /\ NextLine(w)[2] = stored[w] + 1
  BY DEF NextLine
<1>3. \A l \in Accepted : l[2] \in 1 .. MaxLines /\ l[2] <= stored[l[1]]
  BY DEF Accepted, Line
<1> QED
  BY <1>1, <1>2, <1>3

(* A store makes no line but the new one younger than another of its writer. *)
LEMMA StoreKeepsOldest ==
  ASSUME OnceInv, NEW w \in Writers, EndAddInfo(w),
         NEW j \in Occupied', j # claim[w], NotOldest(j)'
  PROVE  j \in Occupied /\ text'[j] = text[j] /\ NotOldest(j)
<1>1. TypeInv /\ StoredOnly
  BY DEF OnceInv
<1>2. j \in Occupied /\ text'[j] = text[j]
  BY <1>1, StoreOccupies
<1>3. PICK h \in Occupied' : text'[h][1] = text'[j][1] /\ text'[h][2] < text'[j][2]
  BY DEF NotOldest
<1>4. h # claim[w]
  <2> SUFFICES ASSUME h = claim[w] PROVE FALSE
    OBVIOUS
  <2>1. text'[h] = NextLine(w)
    BY <1>1, StoreOccupies
  <2>2. text[j] \in Accepted
    BY <1>1, <1>2 DEF StoredOnly
  <2> QED
    BY <1>1, <1>2, <1>3, <2>1, <2>2, NewLineIsHighest
<1>5. h \in Occupied /\ text'[h] = text[h]
  BY <1>1, <1>4, StoreOccupies
<1> QED
  BY <1>2, <1>3, <1>5 DEF NotOldest

(* The order survives: a store adds the highest line, above the older ones  *)
(* of its writer, and a print takes all slots at once.                      *)
LEMMA OrderInductive ==
  ASSUME OrderInv, [Next]_vars
  PROVE  OrderInv'
<1>0. TypeInv /\ StoredOnly /\ OnceInv /\ OnceInv'
  BY OnceInductive DEF OrderInv, OnceInv
<1>a. \A i \in InfoSlots : i \in Int
  BY SlotTypes
<1>1. ASSUME NEW w \in Writers, BeginAddInfo(w) PROVE OrderInv'
  <2>1. PICK c \in LowestFreed : claim' = [claim EXCEPT ![w] = c]
    BY <1>1 DEF BeginAddInfo, GetFreeInfo
  <2>2. claim \in [Writers -> InfoSlots \cup {NoSlot}]
        /\ status \in [InfoSlots -> {"INFO_FREED", "INFO_OCCUPIED"}]
    BY <1>0 DEF TypeInv, TypeOK, RingTypeOK
  <2>3. c \in InfoSlots /\ c \notin Occupied /\ \A i \in InfoSlots : i < c => i \in Occupied
    BY <2>2, <1>a DEF LowestFreed, Freed, Occupied
  <2>4. UNCHANGED <<status, text, stored, window>> /\ Occupied' = Occupied
    BY <1>1 DEF BeginAddInfo, GetFreeInfo, Occupied
  <2>5. \A v \in Writers : claim'[v] = IF v = w THEN c ELSE claim[v]
    BY <2>1, <2>2
  <2>6. RingInOrder' /\ FullBelow' /\ WindowFirst' /\ NearlyInOrder'
    BY <2>4 DEF OrderInv, RingInOrder, FullBelow, WindowFirst, NearlyInOrder, NotOldest
  <2>7. ClaimsFullBelow'
    BY <2>3, <2>4, <2>5 DEF OrderInv, ClaimsFullBelow
  <2>8. ClaimsAbove'
    <3>1. \A j \in Occupied : NotOldest(j)' <=> NotOldest(j)
      BY <2>4 DEF NotOldest
    <3>2. \A j \in Occupied : NotOldest(j) => ~(c < j)
      BY <2>3 DEF OrderInv, FullBelow
    <3> QED
      BY <2>4, <2>5, <3>1, <3>2 DEF OrderInv, ClaimsAbove
  <2> QED
    BY <1>0, <2>6, <2>7, <2>8 DEF OrderInv
<1>2. ASSUME NEW w \in Writers, EndAddInfo(w) PROVE OrderInv'
  <2> DEFINE c == claim[w]
             n == NextLine(w)
  <2>1. /\ c # NoSlot /\ c \in InfoSlots
        /\ Occupied' = Occupied \cup {c} /\ text'[c] = n
        /\ window' = window
        /\ \A i \in Occupied \ {c} : text'[i] = text[i]
    BY <1>0, <1>2, StoreOccupies DEF EndAddInfo, StoreInfo
  <2>2. \A v \in Writers : claim'[v] = IF v = w THEN NoSlot ELSE claim[v]
    BY <1>0, <1>2 DEF TypeInv, TypeOK, RingTypeOK, EndAddInfo, StoreInfo
  <2>3. \A j \in Occupied' : j # c /\ NotOldest(j)'
          => j \in Occupied /\ text'[j] = text[j] /\ NotOldest(j)
    BY <1>0, <1>2, StoreKeepsOldest
  <2>4. /\ n[1] = w
        /\ \A i \in Occupied : text[i][1] = w => text[i][2] < n[2]
        /\ \A k \in DOMAIN window : \A i \in DOMAIN window[k] :
             window[k][i][1] = w => window[k][i][2] < n[2]
    BY <1>0, <1>2, NewLineIsHighest DEF StoredOnly
  <2> HIDE DEF c, n
  <2>5. RingInOrder'
    <3> SUFFICES ASSUME NEW i \in Occupied', NEW j \in Occupied',
                        i < j, text'[i][1] = text'[j][1], NotOldest(j)'
                 PROVE  text'[i][2] < text'[j][2]
      BY DEF RingInOrder
    <3>1. CASE j = c
      <4>1. i # c
        BY <1>a, <2>1, <3>1 DEF Occupied
      <4> QED
        BY <2>1, <2>4, <3>1, <4>1
    <3>2. CASE j # c /\ i = c
      <4>1. j \in Occupied /\ text[j][1] = w /\ NotOldest(j)
        BY <2>1, <2>3, <2>4, <3>2
      <4>2. ~(c < j)
        BY <2>1, <4>1 DEF OrderInv, ClaimsAbove, c
      <4> QED
        BY <3>2, <4>2
    <3>3. CASE j # c /\ i # c
      BY <2>1, <2>3, <3>3 DEF OrderInv, RingInOrder
    <3> QED
      BY <3>1, <3>2, <3>3
  <2>6. FullBelow'
    <3> SUFFICES ASSUME NEW j \in Occupied', NotOldest(j)', NEW i \in InfoSlots, i < j
                 PROVE  i \in Occupied'
      BY DEF FullBelow
    <3>1. CASE j # c
      BY <2>1, <2>3, <3>1 DEF OrderInv, FullBelow
    <3>2. CASE j = c
      <4>1. PICK h \in Occupied' : text'[h][1] = w /\ text'[h][2] < n[2]
        BY <2>1, <2>4, <3>2 DEF NotOldest
      <4>2. h # c
        BY <1>0, <1>2, <2>1, <4>1, NewLineIsHighest DEF n
      <4>3. h \in Occupied /\ text[h][1] = w
        BY <2>1, <4>1, <4>2
      <4> QED
        BY <2>1, <3>2, <4>3 DEF OrderInv, ClaimsFullBelow, c
    <3> QED
      BY <3>1, <3>2
  <2>7. ClaimsFullBelow'
    BY <2>1, <2>2, <2>4 DEF OrderInv, ClaimsFullBelow
  <2>8. ClaimsAbove'
    BY <2>1, <2>2, <2>3, <2>4 DEF OrderInv, ClaimsAbove
  <2>9. WindowFirst'
    BY <2>1, <2>4 DEF OrderInv, WindowFirst
  <2>10. NearlyInOrder'
    BY <2>1 DEF OrderInv, NearlyInOrder
  <2> QED
    BY <1>0, <2>5, <2>6, <2>7, <2>8, <2>9, <2>10 DEF OrderInv
<1>3. ASSUME Show PROVE OrderInv'
  <2> DEFINE last == Len(window) + 1
  <2>1. /\ Occupied' = {}
        /\ DOMAIN window' = DOMAIN window \cup {last}
        /\ last \notin DOMAIN window
        /\ \A k \in DOMAIN window : window'[k] = window[k]
        /\ DOMAIN window'[last] = Occupied
        /\ \A i \in Occupied : window'[last][i] = text[i]
    BY <1>0, <1>3, ShowEmpties
  <2>2. \A k \in DOMAIN window : k < last /\ ~(last < k)
    BY <1>0 DEF TypeInv, TypeOK
  <2> HIDE DEF last
  <2>3. RingInOrder' /\ FullBelow' /\ ClaimsFullBelow' /\ ClaimsAbove' /\ WindowFirst'
    BY <2>1 DEF RingInOrder, FullBelow, ClaimsFullBelow, ClaimsAbove, WindowFirst
  <2>4. NearlyInOrder'
    <3> SUFFICES ASSUME NEW k \in DOMAIN window', NEW m \in DOMAIN window',
                        NEW i \in DOMAIN window'[k], NEW j \in DOMAIN window'[m],
                        window'[k][i][1] = window'[m][j][1],
                        \/ k < m
                        \/ /\ k = m /\ i < j
                           /\ \E h \in DOMAIN window'[m] :
                                /\ window'[m][h][1] = window'[m][j][1]
                                /\ window'[m][h][2] < window'[m][j][2]
                 PROVE  window'[k][i][2] < window'[m][j][2]
      BY Zenon DEF NearlyInOrder
    <3>1. CASE k # last /\ m # last
      BY <2>1, <3>1 DEF OrderInv, NearlyInOrder
    <3>2. CASE k # last /\ m = last
      BY <2>1, <2>2, <3>2 DEF OrderInv, WindowFirst
    <3>3. CASE k = last /\ m # last
      BY <2>1, <2>2, <3>3
    <3>4. CASE k = last /\ m = last
      <4>1. ~(last < last)
        BY <1>0 DEF TypeInv, TypeOK, last
      <4>2. i \in Occupied /\ j \in Occupied /\ i < j /\ text[i][1] = text[j][1] /\ NotOldest(j)
        BY <2>1, <3>4, <4>1 DEF NotOldest
      <4> QED
        BY <2>1, <3>4, <4>2 DEF OrderInv, RingInOrder
    <3> QED
      BY <3>1, <3>2, <3>3, <3>4
  <2> QED
    BY <1>0, <2>3, <2>4 DEF OrderInv
<1>4. ASSUME UNCHANGED vars PROVE OrderInv'
  <2>1. UNCHANGED <<claim, text, window>> /\ Occupied' = Occupied
    BY <1>4 DEF vars, Occupied
  <2> QED
    BY <1>0, <2>1
       DEF OrderInv, RingInOrder, FullBelow, ClaimsFullBelow, ClaimsAbove, WindowFirst,
           NearlyInOrder, NotOldest
<1> QED
  BY <1>1, <1>2, <1>3, <1>4 DEF Next, Done

(* However many writers race for a slot, the window shows each writer's     *)
(* lines in the order of its calls, but for the oldest line of a batch.     *)
THEOREM WindowInOrder == Spec => []NearlyInOrder
<1>1. Init => OrderInv
  <2> SUFFICES ASSUME Init PROVE OrderInv
    OBVIOUS
  <2>1. Occupied = {} /\ DOMAIN window = {}
    BY DEF Init, RingInit, Occupied
  <2> QED
    BY <2>1, InitOnce
       DEF OrderInv, RingInOrder, FullBelow, ClaimsFullBelow, ClaimsAbove, WindowFirst,
           NearlyInOrder
<1>2. OrderInv /\ [Next]_vars => OrderInv'
  BY OrderInductive
<1>3. OrderInv => NearlyInOrder
  BY DEF OrderInv
<1> QED
  BY <1>1, <1>2, <1>3, PTL DEF Spec
-------------------------------------------------------------------------------
(* What the race costs.  A writer that was given a slot which another has   *)
(* filled since will overwrite a line; a slot that is filled threatens all  *)
(* the other writers at most, and a line overwritten is one threat less.    *)
Kept == InRing \cup InWindow
Threatened == {w \in Writers : claim[w] \in Occupied}

LossInv ==
  Cardinality(Threatened) + Cardinality(Lost) <= (Cardinality(Writers) - 1) * Cardinality(Kept)

(* One line kept more allows a losses more.                                 *)
LEMMA OneMore ==
  ASSUME NEW a \in Nat, NEW n \in Nat
  PROVE  a * (n + 1) = a * n + a
OBVIOUS

(* The sets that LossInv counts are finite when the writers are finitely    *)
(* many.                                                                    *)
LEMMA CountedSets ==
  ASSUME IsFiniteSet(Writers), OnceInv
  PROVE  /\ Kept \subseteq Accepted /\ Lost \subseteq Accepted
         /\ IsFiniteSet(Threatened) /\ IsFiniteSet(Kept) /\ IsFiniteSet(Lost)
         /\ Cardinality(Threatened) \in Nat /\ Cardinality(Kept) \in Nat
         /\ Cardinality(Lost) \in Nat
<1>1. IsFiniteSet(Line)
  <2>1. IsFiniteSet(1 .. MaxLines)
    BY FS_Interval, MaxLinesAssumption
  <2> QED
    BY <2>1, FS_Product DEF Line
<1>2. IsFiniteSet(Accepted)
  BY <1>1, FS_Subset DEF Accepted
<1>3. Kept \subseteq Accepted /\ Lost \subseteq Accepted /\ Threatened \subseteq Writers
  BY DEF OnceInv, StoredOnly, Kept, InRing, InWindow, InBatch, Lost, Threatened
<1>4. IsFiniteSet(Threatened) /\ IsFiniteSet(Kept) /\ IsFiniteSet(Lost)
  BY <1>2, <1>3, FS_Subset
<1> QED
  BY <1>3, <1>4, FS_CardinalityType

(* What a store into a free slot keeps: one line more.                      *)
LEMMA StoreIntoFree ==
  ASSUME OnceInv, NEW w \in Writers, EndAddInfo(w), claim[w] \notin Occupied
  PROVE  Kept' = Kept \cup {NextLine(w)} /\ NextLine(w) \notin Kept /\ Lost' = Lost
<1>1. TypeInv /\ StoredOnly
  BY DEF OnceInv
<1>2. InRing' = InRing \cup {NextLine(w)} /\ InWindow' = InWindow
  BY <1>1, StoreOccupies DEF InRing, InWindow, InBatch
<1>3. NextLine(w) \notin Accepted /\ Accepted' = Accepted \cup {NextLine(w)}
  BY <1>1, StoreAccepts
<1>4. NextLine(w) \notin Kept
  BY <1>1, <1>3 DEF StoredOnly, Kept, InRing, InWindow, InBatch
<1> QED
  BY <1>2, <1>3, <1>4 DEF Kept, Lost

(* A store into a slot filled since: the new line for the old one, which is *)
(* in no other place and lost.                                              *)
LEMMA StoreIntoFilled ==
  ASSUME OnceInv, NEW w \in Writers, EndAddInfo(w), claim[w] \in Occupied
  PROVE  LET old == text[claim[w]]
         IN  /\ Kept' = (Kept \ {old}) \cup {NextLine(w)}
             /\ old \in Kept /\ NextLine(w) \notin Kept
             /\ Lost' = Lost \cup {old}
<1> DEFINE c == claim[w]
           n == NextLine(w)
           old == text[c]
<1>1. TypeInv /\ StoredOnly /\ OnePlace
  BY DEF OnceInv
<1>2. c \in Occupied /\ Occupied' = Occupied /\ window' = window
      /\ text'[c] = n /\ \A i \in Occupied \ {c} : text'[i] = text[i]
  BY <1>1, StoreOccupies
<1>3. n \notin Accepted /\ Accepted' = Accepted \cup {n}
  BY <1>1, StoreAccepts
<1> HIDE DEF c, n
<1>4. InRing' = (InRing \ {old}) \cup {n}
  <2>1. \A i \in Occupied : text[i] = old <=> i = c
    BY <1>1, <1>2 DEF OnePlace
  <2>2. n \notin InRing
    BY <1>1, <1>3 DEF StoredOnly, InRing
  <2>3. InRing' = {text'[i] : i \in Occupied}
    BY <1>2 DEF InRing
  <2> QED
    BY <1>2, <2>1, <2>2, <2>3 DEF InRing
<1>5. InWindow' = InWindow /\ old \notin InWindow
  BY <1>1, <1>2 DEF OnePlace, InWindow, InBatch
<1>6. old \in InRing
  BY <1>2 DEF InRing
<1>7. n \notin Kept /\ Kept \subseteq Accepted
  BY <1>1, <1>3 DEF StoredOnly, Kept, InRing, InWindow, InBatch
<1>8. Kept' = (Kept \ {old}) \cup {n} /\ old \in Kept
  BY <1>4, <1>5, <1>6 DEF Kept
<1>9. Lost = Accepted \ Kept /\ Lost' = Accepted' \ Kept'
  BY DEF Lost, Kept
<1>10. Lost' = Lost \cup {old}
  BY <1>3, <1>7, <1>8, <1>9
<1> QED
  BY <1>7, <1>8, <1>10 DEF c, n

(* The count survives: a store into a free slot keeps one line more and     *)
(* threatens the others at most; a store into a filled slot loses one line  *)
(* and is one threat less.                                                  *)
LEMMA LossInductive ==
  ASSUME IsFiniteSet(Writers), OnceInv, LossInv, [Next]_vars
  PROVE  LossInv'
<1>0. TypeInv /\ OnceInv'
  BY OnceInductive DEF OnceInv
<1> DEFINE K == Cardinality(Writers) - 1
<1>a. K \in Int /\ \A w \in Writers : K \in Nat /\ Cardinality(Writers \ {w}) = K
  <2>1. Cardinality(Writers) \in Nat
    BY FS_CardinalityType
  <2>2. \A w \in Writers : Cardinality(Writers \ {w}) = K /\ IsFiniteSet(Writers \ {w})
    BY FS_RemoveElement
  <2>3. \A w \in Writers : Cardinality(Writers \ {w}) \in Nat
    BY <2>2, FS_CardinalityType
  <2> QED
    BY <2>1, <2>2, <2>3
<1>b. /\ IsFiniteSet(Threatened) /\ IsFiniteSet(Kept) /\ IsFiniteSet(Lost)
      /\ Cardinality(Threatened) \in Nat /\ Cardinality(Kept) \in Nat
      /\ Cardinality(Lost) \in Nat
  BY CountedSets
<1>c. Cardinality(Threatened') \in Nat
  <2>1. Threatened' \subseteq Writers
    BY DEF Threatened
  <2>2. IsFiniteSet(Threatened')
    BY <2>1, FS_Subset
  <2> QED
    BY <2>2, FS_CardinalityType
<1>d. Cardinality(Threatened) + Cardinality(Lost) <= K * Cardinality(Kept)
  BY DEF LossInv
<1>1. ASSUME NEW w \in Writers, BeginAddInfo(w) PROVE LossInv'
  <2>1. PICK i \in Freed : claim' = [claim EXCEPT ![w] = i]
    BY <1>1 DEF BeginAddInfo, GetFreeInfo, LowestFreed
  <2>2. UNCHANGED <<status, text, stored, window>> /\ claim[w] = NoSlot
    BY <1>1 DEF BeginAddInfo, GetFreeInfo
  <2>3. Occupied' = Occupied /\ i \notin Occupied /\ NoSlot \notin Occupied
    BY <2>1, <2>2, SlotTypes DEF Occupied, Freed
  <2>4. Threatened' = Threatened
    BY <1>0, <2>1, <2>2, <2>3 DEF Threatened, TypeInv, TypeOK, RingTypeOK
  <2>5. Kept' = Kept /\ Lost' = Lost
    BY <2>2, <2>3 DEF Kept, Lost, InRing, InWindow, InBatch, Accepted
  <2> QED
    BY <2>4, <2>5 DEF LossInv
<1>2. ASSUME NEW w \in Writers, EndAddInfo(w) PROVE LossInv'
  <2>1. claim' = [claim EXCEPT ![w] = NoSlot] /\ NoSlot \notin InfoSlots
    BY <1>2, SlotTypes DEF EndAddInfo, StoreInfo
  <2>2. w \notin Threatened' /\ claim \in [Writers -> InfoSlots \cup {NoSlot}]
    BY <1>0, <2>1 DEF Threatened, TypeInv, TypeOK, RingTypeOK, Occupied
  <2>3. CASE claim[w] \notin Occupied
    <3>1. Threatened' \subseteq Writers \ {w}
      BY <2>2 DEF Threatened
    <3>2. Cardinality(Threatened') <= K
      <4>1. IsFiniteSet(Writers \ {w})
        BY FS_RemoveElement
      <4>2. Cardinality(Threatened') <= Cardinality(Writers \ {w})
        BY <3>1, <4>1, FS_Subset
      <4> QED
        BY <1>a, <4>2
    <3>3. Kept' = Kept \cup {NextLine(w)} /\ NextLine(w) \notin Kept /\ Lost' = Lost
      BY <1>2, <2>3, StoreIntoFree
    <3>4. Cardinality(Kept') = Cardinality(Kept) + 1
      BY <1>b, <3>3, FS_AddElement
    <3>5. K * (Cardinality(Kept) + 1) = K * Cardinality(Kept) + K
      BY <1>a, <1>b, OneMore
    <3>6. Cardinality(Threatened') \in Nat /\ K * Cardinality(Kept) \in Int
      BY <1>a, <1>b, <1>c
    <3>7. Cardinality(Threatened') + Cardinality(Lost') <= K * Cardinality(Kept')
      <4> HIDE DEF K
      <4> QED
        BY <1>a, <1>b, <1>d, <3>2, <3>3, <3>4, <3>5, <3>6
    <3> QED
      BY <3>7 DEF LossInv
  <2>4. CASE claim[w] \in Occupied
    <3> DEFINE old == text[claim[w]]
    <3>1. /\ Kept' = (Kept \ {old}) \cup {NextLine(w)}
          /\ old \in Kept /\ NextLine(w) \notin Kept
          /\ Lost' = Lost \cup {old}
      BY <1>2, <2>4, StoreIntoFilled
    <3>2. Occupied' = Occupied
      BY <1>0, <1>2, <2>4, StoreOccupies
    <3>3. Threatened' = Threatened \ {w} /\ w \in Threatened
      BY <2>1, <2>2, <2>4, <3>2 DEF Threatened, Occupied
    <3> HIDE DEF old
    <3>4. Cardinality(Threatened') = Cardinality(Threatened) - 1
      BY <1>b, <3>3, FS_RemoveElement
    <3>5. Cardinality(Kept') = Cardinality(Kept)
      <4>1. IsFiniteSet(Kept \ {old}) /\ Cardinality(Kept \ {old}) = Cardinality(Kept) - 1
        BY <1>b, <3>1, FS_RemoveElement
      <4>2. NextLine(w) \notin Kept \ {old}
        BY <3>1
      <4>3. Cardinality((Kept \ {old}) \cup {NextLine(w)}) = Cardinality(Kept \ {old}) + 1
        BY <4>1, <4>2, FS_AddElement
      <4> QED
        BY <1>b, <3>1, <4>1, <4>3
    <3>6. Cardinality(Lost') <= Cardinality(Lost) + 1 /\ Cardinality(Lost') \in Nat
      <4>1. /\ IsFiniteSet(Lost \cup {old})
            /\ \/ Cardinality(Lost \cup {old}) = Cardinality(Lost)
               \/ Cardinality(Lost \cup {old}) = Cardinality(Lost) + 1
        BY <1>b, FS_AddElement
      <4> QED
        BY <1>b, <3>1, <4>1
    <3>7. K * Cardinality(Kept) \in Int
      BY <1>a, <1>b
    <3>8. Cardinality(Threatened') + Cardinality(Lost') <= K * Cardinality(Kept')
      <4> HIDE DEF K
      <4> QED
        BY <1>b, <1>d, <3>4, <3>5, <3>6, <3>7
    <3> QED
      BY <3>8 DEF LossInv
  <2> QED
    BY <2>3, <2>4
<1>3. ASSUME Show PROVE LossInv'
  <2>1. Kept' = Kept
    BY <1>0, <1>3, ShowEmpties DEF Kept, InRing, InWindow, InBatch
  <2>2. Lost' = Lost
    BY <1>0, <1>3, <2>1, ShowEmpties DEF Lost, Kept
  <2>3. Threatened' = {} /\ Cardinality(Threatened') = 0
    BY <1>0, <1>3, ShowEmpties, FS_EmptySet DEF Threatened
  <2>4. K * Cardinality(Kept) \in Int
    BY <1>a, <1>b
  <2>5. Cardinality(Threatened') + Cardinality(Lost') <= K * Cardinality(Kept')
    <3> HIDE DEF K
    <3> QED
      BY <1>b, <1>d, <2>1, <2>2, <2>3, <2>4
  <2> QED
    BY <2>5 DEF LossInv
<1>4. ASSUME UNCHANGED vars PROVE LossInv'
  BY <1>4 DEF vars, LossInv, Threatened, Kept, Lost, InRing, InWindow, InBatch, Accepted, Occupied
<1> QED
  BY <1>1, <1>2, <1>3, <1>4 DEF Next, Done

(* However many writers race for a slot, for each line kept the others lose *)
(* one line each at most: the code's own case, one writer, loses nothing.   *)
THEOREM LossIsBounded ==
  ASSUME IsFiniteSet(Writers)
  PROVE  Spec => []LossBounded
<1>1. Init => LossInv
  <2> SUFFICES ASSUME Init PROVE LossInv
    OBVIOUS
  <2>1. Occupied = {} /\ DOMAIN window = {}
    BY DEF Init, RingInit, Occupied
  <2>2. \A l \in Line : l[1] \in Writers /\ l[2] \in 1 .. MaxLines
    BY DEF Line
  <2>3. Lost = {} /\ Threatened = {} /\ Kept = {}
    BY <2>1, <2>2, MaxLinesAssumption
       DEF Init, Lost, Accepted, Threatened, Kept, InRing, InWindow, InBatch
  <2> QED
    BY <2>3, FS_EmptySet, FS_CardinalityType DEF LossInv
<1>2. OnceInv /\ LossInv /\ [Next]_vars => OnceInv' /\ LossInv'
  BY OnceInductive, LossInductive
<1>3. OnceInv /\ LossInv => LossBounded
  <2> SUFFICES ASSUME OnceInv, LossInv PROVE LossBounded
    OBVIOUS
  <2>1. (Cardinality(Writers) - 1) * Cardinality(Kept) \in Int
    BY CountedSets, FS_CardinalityType
  <2> QED
    BY <2>1, CountedSets DEF LossInv, LossBounded, Kept
<1> QED
  BY InitOnce, <1>1, <1>2, <1>3, PTL DEF Spec
===============================================================================
