----------------------------- MODULE ProcessProofs -----------------------------
(***************************************************************************)
(* Theorems about the programs that consist of processes, for any number   *)
(* of processes, lines, words and messages: the chat over shared memory,   *)
(* the handshake, the printers of words, the message queue, the UDP echo   *)
(* and the named pipe.                                                     *)
(***************************************************************************)
EXTENDS MCProcesses, FiniteSetTheorems, SequenceTheorems, TLAPS

(* A sequence that gets one more element at its end.                        *)
LEMMA OneMore ==
  ASSUME NEW S, NEW s \in Seq(S), NEW x \in S
  PROVE  /\ Append(s, x) \in Seq(S) /\ Len(Append(s, x)) = Len(s) + 1 /\ Len(s) \in Nat
         /\ \A k \in 1 .. Len(s) + 1 : Append(s, x)[k] = IF k = Len(s) + 1 THEN x ELSE s[k]
         /\ \A k \in 1 .. Len(s) + 1 : k # Len(s) + 1 => k \in 1 .. Len(s)
  OBVIOUS
-------------------------------------------------------------------------------
(* 21ex_serve_semaphore_and_shm.c and 21ex_client_semaphore_and_shm.c.      *)

Undos == -SEMAEM - 1 .. SEMAEM
Places21 == {"consumer", "producer", "shmget", "shmat", "fgets", "P", "sprintf", "copying", "V",
             "remove", "printf", "test", "rmid producer", "rmid consumer", "exit", "done"}

(* What the two programs, or a program and a name, are.                     *)
LEMMA TwoPrograms ==
  /\ "server" \in Programs /\ "client" \in Programs
  /\ \A p \in Programs : p = "server" \/ p = "client"
  /\ "consumer" \in Names /\ "producer" \in Names
  /\ \A name \in Names : Sem(name) \in Names
  BY DEF Programs, Names, Sem

(* The numbers of the program.                                              *)
LEMMA ChatNumbers ==
  /\ MaxLines \in Nat /\ MaxLines >= 1 /\ MaxShown \in Nat /\ SEMAEM \in Nat /\ SEMAEM >= 1
  /\ 0 \in Undos
  BY ChatAssumption DEF Undos

(* The fields of a semaphore.                                               *)
LEMMA SemFields ==
  /\ \A x \in SemType : /\ x.exists \in BOOLEAN /\ x.val \in Nat /\ x.adj \in [Programs -> Undos]
                        /\ \A p \in Programs : x.adj[p] \in Undos /\ x.adj[p] \in Int
  /\ \A e \in BOOLEAN, v \in Nat, a \in [Programs -> Undos] :
       [exists |-> e, val |-> v, adj |-> a] \in SemType
  BY ChatNumbers DEF SemType, Undos

(* What is left of a semaphore when its value and one undo are set.         *)
LEMMA Adjusting ==
  ASSUME NEW x \in SemType, NEW p \in Programs, NEW v, NEW a
  PROVE  [x EXCEPT !.val = v, !.adj[p] = a]
           = [exists |-> x.exists, val |-> v, adj |-> [x.adj EXCEPT ![p] = a]]
<1> DEFINE y == [x EXCEPT !.val = v]
<1>1. y = [exists |-> x.exists, val |-> v, adj |-> x.adj]
  BY DEF SemType
<1>2. [x EXCEPT !.val = v, !.adj[p] = a] = [y EXCEPT !.adj = [y.adj EXCEPT ![p] = a]]
  OBVIOUS
<1> HIDE DEF y
<1>3. y.adj = x.adj
  BY <1>1
<1> QED BY <1>1, <1>2, <1>3

(* A semop that works moves its unit between the value and the undo of the  *)
(* program; one that fails changes nothing.                                 *)
LEMMA SemopEffect ==
  ASSUME sem \in [Names -> SemType], NEW p \in Programs, NEW name \in Names, NEW op \in {-1, 1},
         Semop(p, name, op)
  PROVE  /\ sem' \in [Names -> SemType]
         /\ Fails(p, Sem(name), op) => sem' = sem
         /\ ~Fails(p, Sem(name), op) =>
              /\ \A t \in Names : t # Sem(name) => sem'[t] = sem[t]
              /\ sem'[Sem(name)].exists = sem[Sem(name)].exists
              /\ sem'[Sem(name)].val = sem[Sem(name)].val + op
              /\ sem'[Sem(name)].adj[p] = sem[Sem(name)].adj[p] - op
              /\ \A q \in Programs : q # p => sem'[Sem(name)].adj[q] = sem[Sem(name)].adj[q]
<1> DEFINE s == Sem(name)
<1>1. s \in Names /\ sem[s] \in SemType
  BY TwoPrograms
<1>2. CASE Fails(p, s, op)
  BY <1>2 DEF Semop
<1>3. CASE ~Fails(p, s, op)
  <2>1. sem' = [sem EXCEPT ![s] = Adjusted(p, s, op)]
    BY <1>3 DEF Semop
  <2>2. sem[s].exists /\ sem[s].adj[p] - op \in Undos
    BY <1>3 DEF Fails, Undos
  <2>3. sem[s].val + op \in Nat
    <3>1. ~(sem[s].val + op < 0)
      BY <2>2 DEF Semop, Waits
    <3> QED BY <3>1, <1>1, SemFields
  <2>4. /\ Adjusted(p, s, op) = [exists |-> sem[s].exists, val |-> sem[s].val + op,
                                 adj |-> [sem[s].adj EXCEPT ![p] = sem[s].adj[p] - op]]
    BY <1>1, Adjusting DEF Adjusted
  <2>5. [sem[s].adj EXCEPT ![p] = sem[s].adj[p] - op] \in [Programs -> Undos]
    BY <1>1, <2>2, SemFields
  <2>6. sem[s].exists \in BOOLEAN
    BY <1>1, SemFields
  <2>7. Adjusted(p, s, op) \in SemType
    BY <2>3, <2>4, <2>5, <2>6, SemFields
  <2>8. sem[s].adj \in [Programs -> Undos]
    BY <1>1, SemFields
  <2>9. sem'[s] = Adjusted(p, s, op) /\ \A t \in Names : t # s => sem'[t] = sem[t]
    BY <2>1, <1>1
  <2>10. sem' \in [Names -> SemType]
    BY <2>1, <2>7
  <2> QED BY <1>3, <2>4, <2>8, <2>9, <2>10
<1> QED BY <1>2, <1>3

(* A program is counted when it has asked for the segment.                  *)
Has(p) == IF pc[p] \in {"consumer", "producer", "shmget"} THEN 0 ELSE 1

(* Each program makes one segment at most, and has one when it is past      *)
(* shmget; the server has not read its last line while it may go on to read.*)
ChatTypeInv ==
  /\ TypeOK
  /\ pc \in [Programs -> Places21]
  /\ pc["server"] \notin {"printf", "test", "rmid producer", "rmid consumer"}
  /\ segments <= Has("server") + Has("client")
  /\ \A p \in Programs : Has(p) = 1 => shmid[p] # 0
  /\ found => segments >= 1
  /\ readbuf.n = MaxLines => readbuf.end
  /\ pc["server"] \in Starting \cup {"fgets"} => ~readbuf.end

(* The variables but the place of the programs keep their types; so does    *)
(* the place, when one program moves on.                                    *)
LEMMA MovedOn ==
  ASSUME pc \in [Programs -> Places21], NEW p \in Programs, NEW from, NEW to \in Places21,
         Goto(p, from, to)
  PROVE  /\ pc' \in [Programs -> Places21] /\ pc[p] = from /\ pc'[p] = to
         /\ \A q \in Programs : q # p => pc'[q] = pc[q]
  BY DEF Goto

(* ChatTypeInv is inductive.                                                *)
LEMMA ChatTypeInductive ==
  ChatTypeInv /\ [Next]_vars => ChatTypeInv'
<1> SUFFICES ASSUME ChatTypeInv, [Next]_vars PROVE ChatTypeInv'
  OBVIOUS
<1>t. /\ distinctKeys \in BOOLEAN /\ sem \in [Names -> SemType]
      /\ segments \in 0 .. 2 /\ found \in BOOLEAN /\ data \in [1 .. 2 -> LineType]
      /\ shmid \in [Programs -> 0 .. segments] /\ readbuf \in LineType
      /\ shown \in 0 .. MaxShown /\ complained \in BOOLEAN /\ withdrawn \in BOOLEAN
      /\ misled \in BOOLEAN /\ pc \in [Programs -> Places21]
  BY DEF ChatTypeInv, TypeOK
<1>i. /\ pc["server"] \notin {"printf", "test", "rmid producer", "rmid consumer"}
      /\ segments <= Has("server") + Has("client")
      /\ \A p \in Programs : Has(p) = 1 => shmid[p] # 0
      /\ found => segments >= 1
  BY DEF ChatTypeInv
<1>l. /\ readbuf.n = MaxLines => readbuf.end
      /\ pc["server"] \in Starting \cup {"fgets"} => ~readbuf.end
  BY DEF ChatTypeInv
<1>s. ASSUME distinctKeys' \in BOOLEAN, sem' \in [Names -> SemType], segments' \in 0 .. 2,
             found' \in BOOLEAN, data' \in [1 .. 2 -> LineType],
             shmid' \in [Programs -> 0 .. segments'], readbuf' \in LineType,
             shown' \in 0 .. MaxShown, complained' \in BOOLEAN, withdrawn' \in BOOLEAN,
             misled' \in BOOLEAN,
             pc' \in [Programs -> Places21],
             pc'["server"] \notin {"printf", "test", "rmid producer", "rmid consumer"},
             segments' <= Has("server")' + Has("client")',
             \A p \in Programs : Has(p)' = 1 => shmid'[p] # 0, found' => segments' >= 1,
             readbuf'.n = MaxLines => readbuf'.end,
             pc'["server"] \in Starting \cup {"fgets"} => ~readbuf'.end
      PROVE  ChatTypeInv'
  BY <1>s DEF ChatTypeInv, TypeOK
(* A step that moves a program on without the segment or the line.          *)
<1>k. ASSUME NEW p \in Programs, NEW from, NEW to \in Places21, Goto(p, from, to),
             UNCHANGED <<distinctKeys, segments, found, shmid, readbuf>>,
             sem' \in [Names -> SemType], data' \in [1 .. 2 -> LineType],
             shown' \in 0 .. MaxShown, complained' \in BOOLEAN, withdrawn' \in BOOLEAN,
             misled' \in BOOLEAN,
             from \in {"consumer", "producer", "shmget"}
               <=> to \in {"consumer", "producer", "shmget"},
             p = "server" =>
               /\ to \notin {"printf", "test", "rmid producer", "rmid consumer"}
               /\ to \in Starting \cup {"fgets"} =>
                    from \in Starting \cup {"fgets"} \/ ~readbuf.end
      PROVE  ChatTypeInv'
  <2>1. /\ pc' \in [Programs -> Places21] /\ pc[p] = from /\ pc'[p] = to
        /\ \A q \in Programs : q # p => pc'[q] = pc[q]
    BY <1>k, <1>t, MovedOn
  <2>2. \A q \in Programs : Has(q)' = Has(q)
    BY <1>k, <2>1 DEF Has
  <2>3. pc'["server"] \notin {"printf", "test", "rmid producer", "rmid consumer"}
    BY <1>k, <2>1, <1>i, TwoPrograms
  <2>4. pc'["server"] \in Starting \cup {"fgets"} => ~readbuf'.end
    BY <1>k, <2>1, <1>l, TwoPrograms
  <2>5. segments' <= Has("server")' + Has("client")'
    BY <1>k, <2>2, <1>i, TwoPrograms
  <2>6. \A q \in Programs : Has(q)' = 1 => shmid'[q] # 0
    BY <1>k, <2>2, <1>i
  <2>7. (found' => segments' >= 1) /\ (readbuf'.n = MaxLines => readbuf'.end)
    BY <1>k, <1>i, <1>l
  <2>8. /\ distinctKeys' \in BOOLEAN /\ segments' \in 0 .. 2 /\ found' \in BOOLEAN
        /\ shmid' \in [Programs -> 0 .. segments'] /\ readbuf' \in LineType
    BY <1>k, <1>t
  <2> QED BY <1>k, <2>1, <2>3, <2>4, <2>5, <2>6, <2>7, <2>8, <1>s
<1>1. ASSUME NEW p \in Programs, NEW name \in Names, NEW to \in {"producer", "shmget"},
             InitSem(p, name, to)
      PROVE  ChatTypeInv'
  <2>1. sem' \in [Names -> SemType]
    <3>1. [q \in Programs |-> 0] \in [Programs -> Undos]
      BY ChatNumbers
    <3>2. [exists |-> TRUE, val |-> 1, adj |-> [q \in Programs |-> 0]] \in SemType
      BY <3>1, SemFields
    <3> QED BY <1>1, <3>2, <1>t DEF InitSem
  <2>2. /\ Goto(p, name, to)
        /\ UNCHANGED <<distinctKeys, shm, readbuf, shown, complained, withdrawn, misled>>
    BY <1>1 DEF InitSem
  <2>3. name \in {"consumer", "producer"} /\ to \in Places21
    BY <1>1 DEF Names, Places21
  <2> QED BY <1>1, <2>1, <2>2, <2>3, <1>t, <1>k DEF shm, Starting
<1>2. ASSUME NEW p \in Programs, ShmGet(p) PROVE ChatTypeInv'
  <2>1. Goto(p, "shmget", "shmat") /\ "shmat" \in Places21
    BY <1>2 DEF ShmGet, Places21
  <2>2. /\ pc' \in [Programs -> Places21] /\ pc[p] = "shmget" /\ pc'[p] = "shmat"
        /\ \A q \in Programs : q # p => pc'[q] = pc[q]
    BY <2>1, <1>t, MovedOn
  <2>3. Has(p) = 0 /\ Has(p)' = 1 /\ \A q \in Programs : q # p => Has(q)' = Has(q)
    BY <2>2 DEF Has
  <2>4. \A q \in Programs : Has(q) \in {0, 1} /\ Has(q)' \in {0, 1}
    BY DEF Has
  <2>5. Has("server")' + Has("client")' = Has("server") + Has("client") + 1
        /\ Has("server") + Has("client") + 1 \in 0 .. 2
    <3>1. CASE p = "server"
      BY <3>1, <2>3, <2>4, TwoPrograms
    <3>2. CASE p = "client"
      BY <3>2, <2>3, <2>4, TwoPrograms
    <3> QED BY <3>1, <3>2, TwoPrograms
  <2>6. segments' \in {segments, segments + 1} /\ segments' \in 0 .. 2
        /\ segments' <= Has("server")' + Has("client")'
        /\ (segments' = segments => found)
    <3>1. segments' = IF found THEN segments ELSE segments + 1
      BY <1>2 DEF ShmGet
    <3>2. segments \in 0 .. 2 /\ segments + 1 <= Has("server")' + Has("client")'
          /\ Has("server")' + Has("client")' \in 0 .. 2
      <4>1. segments \in 0 .. 2 /\ segments <= Has("server") + Has("client")
        BY <1>t, <1>i
      <4>2. Has("server") \in {0, 1} /\ Has("client") \in {0, 1}
        BY <2>4, TwoPrograms
      <4> QED BY <4>1, <4>2, <2>5
    <3>3. segments' \in {segments, segments + 1}
      BY <3>1
    <3>4. segments' = segments => found
      BY <3>1, <3>2
    <3> QED BY <3>2, <3>3, <3>4
  <2>7. segments' >= 1
    <3>1. segments' = IF found THEN segments ELSE segments + 1
      BY <1>2 DEF ShmGet
    <3>2. segments \in 0 .. 2 /\ (found => segments >= 1)
      BY <1>t, <1>i
    <3> QED BY <3>1, <3>2
  <2>8. /\ UNCHANGED <<distinctKeys, sem, data, readbuf, shown, complained, withdrawn, misled>>
        /\ found' = TRUE /\ shmid' = [shmid EXCEPT ![p] = segments']
    BY <1>2 DEF ShmGet
  <2>9. \A n \in 0 .. segments : n \in 0 .. segments'
    BY <2>6, <1>t
  <2>10. segments' \in 0 .. segments'
    BY <2>6
  <2>11. shmid' \in [Programs -> 0 .. segments']
    BY <2>8, <2>9, <2>10, <1>t
  <2>12. \A q \in Programs : Has(q)' = 1 => shmid'[q] # 0
    <3>1. shmid'[p] # 0
      BY <2>7, <2>8, <1>t
    <3>2. \A q \in Programs : q # p => shmid'[q] = shmid[q]
      BY <2>8, <1>t
    <3> QED BY <3>1, <3>2, <2>3, <1>i
  <2>13. pc'["server"] \notin {"printf", "test", "rmid producer", "rmid consumer"}
    BY <2>2, <1>i, TwoPrograms
  <2>14. pc'["server"] \in Starting \cup {"fgets"} => ~readbuf'.end
    BY <2>2, <2>8, <1>l, TwoPrograms DEF Starting
  <2>15. readbuf'.n = MaxLines => readbuf'.end
    BY <2>8, <1>l
  <2> QED BY <2>2, <2>6, <2>7, <2>8, <2>11, <2>12, <2>13, <2>14, <2>15, <1>t, <1>s
<1>3. ASSUME NEW p \in Programs, NEW to \in {"fgets", "V"}, ShmAttach(p, to) PROVE ChatTypeInv'
  <2>1. /\ Goto(p, "shmat", to) \/ Goto(p, "shmat", "exit")
        /\ UNCHANGED <<distinctKeys, sem, shm, readbuf, shown, complained, withdrawn, misled>>
    BY <1>3 DEF ShmAttach
  <2>2. "exit" \in Places21 /\ to \in Places21
    BY <1>3 DEF Places21
  <2>3. data' = data
    BY <1>3 DEF ShmAttach, shm
  <2> QED BY <2>1, <2>2, <2>3, <1>t, <1>k DEF shm, Starting
<1>4. ASSUME NEW p \in Programs, Exit(p) PROVE ChatTypeInv'
  <2>1. /\ Goto(p, "exit", "done") /\ "done" \in Places21
        /\ UNCHANGED <<distinctKeys, shm, readbuf, shown, complained, misled>>
    BY <1>4 DEF Exit, Places21
  <2>2. withdrawn' \in BOOLEAN
    BY <1>4, <1>t DEF Exit
  <2>3. sem' \in [Names -> SemType]
    <3>1. ASSUME NEW t \in Names
          PROVE  [sem[t] EXCEPT !.val = Undone(p, t), !.adj[p] = 0] \in SemType
      <4>1. sem[t] \in SemType
        BY <1>t
      <4>2. sem[t].val \in Nat /\ sem[t].adj[p] \in Int
        BY <4>1, SemFields
      <4>3. Undone(p, t) \in Nat
        BY <4>2 DEF Undone
      <4>4. sem[t].exists \in BOOLEAN /\ sem[t].adj \in [Programs -> Undos]
        BY <4>1, SemFields
      <4>5. [sem[t].adj EXCEPT ![p] = 0] \in [Programs -> Undos]
        BY <4>4, ChatNumbers
      <4>6. [sem[t] EXCEPT !.val = Undone(p, t), !.adj[p] = 0]
              = [exists |-> sem[t].exists, val |-> Undone(p, t),
                 adj |-> [sem[t].adj EXCEPT ![p] = 0]]
        BY <4>1, Adjusting
      <4> QED BY <4>3, <4>4, <4>5, <4>6, SemFields
    <3>2. sem' = [t \in Names |-> [sem[t] EXCEPT !.val = Undone(p, t), !.adj[p] = 0]]
      BY <1>4 DEF Exit
    <3> QED BY <3>1, <3>2
  <2> QED BY <2>1, <2>2, <2>3, <1>t, <1>k DEF shm, Starting
<1>5. ASSUME FgetsLine PROVE ChatTypeInv'
  <2>1. Goto("server", "fgets", "P") /\ "P" \in Places21
        /\ UNCHANGED <<distinctKeys, sem, shm, shown, complained, withdrawn, misled>>
    BY <1>5 DEF FgetsLine, Places21
  <2>2. /\ pc' \in [Programs -> Places21] /\ pc["server"] = "fgets" /\ pc'["server"] = "P"
        /\ \A q \in Programs : q # "server" => pc'[q] = pc[q]
    BY <2>1, <1>t, MovedOn, TwoPrograms
  <2>3. \A q \in Programs : Has(q)' = Has(q)
    BY <2>2 DEF Has
  <2>4. PICK end \in BOOLEAN : /\ readbuf.n + 1 = MaxLines => end
                               /\ readbuf' = Line(readbuf.n + 1, end)
    BY <1>5 DEF FgetsLine
  <2>5. readbuf.n \in 0 .. MaxLines /\ readbuf.n # MaxLines
    <3>1. readbuf.n \in 0 .. MaxLines
      BY <1>t DEF LineType
    <3>2. readbuf.n # MaxLines
      BY <2>2, <1>l
    <3> QED BY <3>1, <3>2
  <2>6. readbuf.n + 1 \in 0 .. MaxLines
    BY <2>5, ChatNumbers
  <2>7. readbuf' \in LineType /\ (readbuf'.n = MaxLines => readbuf'.end)
    BY <2>4, <2>6 DEF Line, LineType
  <2>8. pc'["server"] \notin {"printf", "test", "rmid producer", "rmid consumer"}
        /\ pc'["server"] \notin Starting \cup {"fgets"}
    BY <2>2 DEF Starting
  <2>9. segments' <= Has("server")' + Has("client")'
        /\ \A q \in Programs : Has(q)' = 1 => shmid'[q] # 0
    <3>1. segments' = segments /\ shmid' = shmid
      BY <2>1 DEF shm
    <3>2. Has("server")' = Has("server") /\ Has("client")' = Has("client")
      BY <2>3, TwoPrograms
    <3> QED BY <3>1, <3>2, <2>3, <1>i
  <2> QED BY <2>1, <2>2, <2>7, <2>8, <2>9, <1>t, <1>i, <1>s DEF shm
<1>6. ASSUME NEW p \in Programs, NEW name \in Names, NEW op \in {-1, 1}, NEW from,
             NEW to \in Places21, Semop(p, name, op), Goto(p, from, to),
             UNCHANGED <<distinctKeys, shm, readbuf, shown, withdrawn, misled>>,
             from \notin {"consumer", "producer", "shmget"}
               /\ to \notin {"consumer", "producer", "shmget", "shmat"},
             p = "server" => to \notin {"printf", "test", "rmid producer", "rmid consumer"},
             p = "server" /\ to = "fgets" => ~readbuf.end
      PROVE  ChatTypeInv'
  <2>1. sem' \in [Names -> SemType]
    <3>1. sem \in [Names -> SemType] /\ Semop(p, name, op)
      BY <1>6, <1>t
    <3> QED BY <3>1, SemopEffect
  <2>2. complained' \in BOOLEAN
    BY <1>6, <1>t DEF Semop
  <2> QED BY <1>6, <2>1, <2>2, <1>t, <1>k DEF shm, Starting
<1>7. CASE ServerP
  BY <1>7, <1>6, TwoPrograms DEF ServerP, semaphore_P, Places21
<1>8. CASE ServerV
  <2>1. Goto("server", "V", IF readbuf.end THEN "remove" ELSE "fgets")
        /\ Semop("server", "producer", 1)
        /\ UNCHANGED <<distinctKeys, shm, readbuf, shown, withdrawn, misled>>
    BY <1>8 DEF ServerV, semaphore_V
  <2>2. CASE readbuf.end
    <3>1. Goto("server", "V", "remove") /\ "remove" \in Places21
      BY <2>1, <2>2 DEF Places21
    <3> QED BY <2>1, <3>1, <1>6, TwoPrograms
  <2>3. CASE ~readbuf.end
    <3>1. Goto("server", "V", "fgets") /\ "fgets" \in Places21
      BY <2>1, <2>3 DEF Places21
    <3> QED BY <2>1, <2>3, <3>1, <1>6, TwoPrograms
  <2> QED BY <2>2, <2>3
<1>9. CASE ClientV
  BY <1>9, <1>6, TwoPrograms DEF ClientV, semaphore_V, Places21
<1>10. CASE ClientP
  BY <1>10, <1>6, TwoPrograms DEF ClientP, semaphore_P, Places21
<1>11. ASSUME SprintfBegin \/ SprintfEnd PROVE ChatTypeInv'
  <2>1. PICK to \in {"copying", "V"}, line \in {[readbuf EXCEPT !.torn = TRUE], readbuf},
             from \in {"sprintf", "copying"} :
          /\ Goto("server", from, to) /\ data' = [data EXCEPT ![shmid["server"]] = line]
          /\ UNCHANGED <<distinctKeys, sem, segments, found, shmid, readbuf, shown,
                         complained, withdrawn, misled>>
    BY <1>11 DEF SprintfBegin, SprintfEnd
  <2>2. line \in LineType
    BY <1>t DEF LineType
  <2>3. data' \in [1 .. 2 -> LineType]
    BY <2>1, <2>2, <1>t
  <2>4. to \in Places21
    BY DEF Places21
  <2> QED BY <2>1, <2>3, <2>4, <1>t, <1>k, TwoPrograms DEF Starting
<1>12. CASE PrintLine
  <2>1. Goto("client", "printf", "test") /\ "test" \in Places21
        /\ UNCHANGED <<distinctKeys, sem, shm, readbuf, complained, withdrawn, misled>>
    BY <1>12 DEF PrintLine, Places21
  <2>2. shown' \in 0 .. MaxShown
    BY <1>12, <1>t, ChatNumbers DEF PrintLine
  <2> QED BY <2>1, <2>2, <1>t, <1>k, TwoPrograms DEF shm, Starting
<1>13. CASE TestEnd
  <2>1. PICK to \in {"rmid producer", "V"} :
          /\ Goto("client", "test", to)
          /\ UNCHANGED <<distinctKeys, sem, shm, readbuf, shown, complained, withdrawn>>
          /\ misled' \in BOOLEAN
    BY <1>13, <1>t DEF TestEnd
  <2>2. to \in Places21
    BY DEF Places21
  <2> QED BY <2>1, <2>2, <1>t, <1>k, TwoPrograms DEF shm, Starting
<1>14. ASSUME NEW name \in Names, NEW from \in {"rmid producer", "rmid consumer"},
              NEW to \in {"rmid consumer", "exit"}, RemoveSem(name, from, to)
       PROVE  ChatTypeInv'
  <2>1. Goto("client", from, to) /\ to \in Places21
        /\ UNCHANGED <<distinctKeys, shm, readbuf, shown, complained, withdrawn, misled>>
    BY <1>14 DEF RemoveSem, Places21
  <2>2. sem[Sem(name)] \in SemType
    BY <1>t, TwoPrograms
  <2>3. [sem[Sem(name)] EXCEPT !.exists = FALSE] \in SemType
    BY <2>2 DEF SemType
  <2>4. sem' = [sem EXCEPT ![Sem(name)] = [sem[Sem(name)] EXCEPT !.exists = FALSE]]
    BY <1>14 DEF RemoveSem
  <2>5. sem' \in [Names -> SemType]
    BY <2>3, <2>4, <1>t
  <2> QED BY <2>1, <2>5, <1>t, <1>k, TwoPrograms DEF shm, Starting
<1>15. CASE RemoveSegment
  <2>1. Goto("server", "remove", "exit") /\ found' = FALSE
        /\ UNCHANGED <<distinctKeys, sem, segments, data, shmid, readbuf, shown, complained,
                       withdrawn, misled>>
    BY <1>15 DEF RemoveSegment
  <2>2. /\ pc' \in [Programs -> Places21] /\ pc["server"] = "remove" /\ pc'["server"] = "exit"
        /\ \A q \in Programs : q # "server" => pc'[q] = pc[q]
    BY <2>1, <1>t, MovedOn, TwoPrograms DEF Places21
  <2>3. \A q \in Programs : Has(q)' = Has(q)
    BY <2>2 DEF Has
  <2>4. pc'["server"] \notin {"printf", "test", "rmid producer", "rmid consumer"}
        /\ pc'["server"] \notin Starting \cup {"fgets"}
    BY <2>2 DEF Starting
  <2>5. segments' <= Has("server")' + Has("client")'
        /\ \A q \in Programs : Has(q)' = 1 => shmid'[q] # 0
    <3>1. Has("server")' = Has("server") /\ Has("client")' = Has("client")
      BY <2>3, TwoPrograms
    <3> QED BY <2>1, <3>1, <2>3, <1>i
  <2> QED BY <2>1, <2>2, <2>4, <2>5, <1>t, <1>l, <1>s
<1>16. CASE UNCHANGED vars
  BY <1>16 DEF vars, ChatTypeInv, TypeOK, Has, SemType
<1> QED
  <2>1. ASSUME NEW p \in Programs, Start(p) PROVE ChatTypeInv'
    BY <2>1, <1>1, TwoPrograms DEF Start
  <2>2. CASE ServerStep
    BY <2>2, <1>1, <1>2, <1>3, <1>4, <1>5, <1>7, <1>8, <1>11, <1>15, TwoPrograms DEF ServerStep
  <2>3. CASE ClientStep
    BY <2>3, <1>1, <1>2, <1>3, <1>4, <1>9, <1>10, <1>12, <1>13, <1>14, TwoPrograms DEF ClientStep
  <2> QED BY <2>1, <2>2, <2>3, <1>16 DEF Next

(* The programs begin so.                                                   *)
LEMMA InitChatTypeInv == Init => ChatTypeInv
<1> SUFFICES ASSUME Init PROVE ChatTypeInv
  OBVIOUS
<1>1. EmptyLine \in LineType /\ ~EmptyLine.end /\ EmptyLine.n = 0
  BY ChatNumbers DEF EmptyLine, Line, LineType
<1>2. [p \in Programs |-> 0] \in [Programs -> Undos]
  BY ChatNumbers
<1>3. sem \in [Names -> SemType]
  BY <1>2, SemFields DEF Init
<1>4. pc \in [Programs -> Places21] /\ \A p \in Programs : pc[p] = "consumer"
  BY DEF Init, Places21
<1>5. segments = 0 /\ shmid \in [Programs -> 0 .. segments] /\ data \in [1 .. 2 -> LineType]
  BY <1>1 DEF Init
<1>6. \A p \in Programs : Has(p) = 0
  BY <1>4 DEF Has
<1>7. segments <= Has("server") + Has("client")
  BY <1>5, <1>6, TwoPrograms
<1>8. segments \in 0 .. 2 /\ shown \in 0 .. MaxShown
  BY <1>5, ChatNumbers DEF Init
<1>9. readbuf \in LineType /\ ~readbuf.end /\ readbuf.n # MaxLines
  BY <1>1, ChatNumbers DEF Init
<1>10. /\ distinctKeys \in BOOLEAN /\ found = FALSE
       /\ complained \in BOOLEAN /\ withdrawn \in BOOLEAN /\ misled \in BOOLEAN
  BY DEF Init
<1>11. TypeOK
  BY <1>3, <1>5, <1>8, <1>9, <1>10, Zenon DEF TypeOK
<1>12. pc["server"] = "consumer" /\ \A p \in Programs : ~(Has(p) = 1)
  BY <1>4, <1>6, TwoPrograms
<1> QED BY <1>4, <1>7, <1>9, <1>10, <1>11, <1>12 DEF ChatTypeInv

(* All variables of the chat have their types: however often semaphores are *)
(* set, undone and removed, no value is negative and no undo leaves the     *)
(* kernel's range, and no third segment is ever made.                       *)
THEOREM ChatTypes == Spec => []TypeOK
<1>1. ChatTypeInv => TypeOK
  BY DEF ChatTypeInv
<1> QED BY <1>1, InitChatTypeInv, ChatTypeInductive, PTL DEF Spec

(* The end of the text.                                                     *)
LastRead == {"copying", "V", "remove", "exit", "done"}

(* "end" is in a segment only when the server has read it and has begun to  *)
(* copy it, and a mix of lines only while the server copies.                *)
TornWhileCopying ==
  /\ ~readbuf.torn
  /\ \A g \in 1 .. 2 : data[g].torn => pc["server"] = "copying" /\ shmid["server"] = g

EndInv ==
  /\ \A g \in 1 .. 2 : data[g].end => readbuf.end /\ pc["server"] \in LastRead
  /\ TornWhileCopying
  /\ RemovedAtTheEnd

(* Where the server goes on, what it has sent stays sent.                   *)
LEMMA StaysSent ==
  ASSUME ChatTypeInv, [Next]_vars, readbuf.end /\ pc["server"] \in LastRead
  PROVE  readbuf'.end /\ pc'["server"] \in LastRead
<1>t. pc \in [Programs -> Places21]
  BY DEF ChatTypeInv
<1>1. ASSUME NEW p \in Programs, NEW from, NEW to, Goto(p, from, to), readbuf' = readbuf,
             p = "server" => (from \notin LastRead \/ to \in LastRead)
      PROVE  readbuf'.end /\ pc'["server"] \in LastRead
  BY <1>1, <1>t, TwoPrograms DEF Goto
<1>2. ASSUME NEW p \in Programs, Start(p) PROVE readbuf'.end /\ pc'["server"] \in LastRead
  BY <1>2, <1>1 DEF Start, InitSem, LastRead
<1>3. CASE ServerStep
  <2>1. CASE InitSem("server", "producer", "shmget") \/ ShmGet("server")
             \/ ShmAttach("server", "fgets")
    BY <2>1, <1>1, TwoPrograms DEF InitSem, ShmGet, ShmAttach, LastRead
  <2>2. CASE FgetsLine \/ ServerP \/ SprintfBegin \/ SprintfEnd \/ RemoveSegment \/ Exit("server")
    BY <2>2, <1>1, TwoPrograms
       DEF FgetsLine, ServerP, SprintfBegin, SprintfEnd, RemoveSegment, Exit, Goto, LastRead
  <2>3. CASE ServerV
    <3>1. Goto("server", "V", "remove") /\ readbuf' = readbuf
      BY <2>3 DEF ServerV
    <3> QED BY <3>1, <1>1, TwoPrograms DEF LastRead
  <2> QED BY <1>3, <2>1, <2>2, <2>3 DEF ServerStep
<1>4. CASE ClientStep
  <2>1. CASE InitSem("client", "producer", "shmget") \/ ShmGet("client")
             \/ ShmAttach("client", "V") \/ Exit("client")
    BY <2>1, <1>1, TwoPrograms DEF InitSem, ShmGet, ShmAttach, Exit
  <2>2. CASE ClientV \/ ClientP \/ PrintLine \/ TestEnd
    BY <2>2, <1>1, TwoPrograms DEF ClientV, ClientP, PrintLine, TestEnd
  <2>3. CASE RemoveSem("producer", "rmid producer", "rmid consumer")
             \/ RemoveSem("consumer", "rmid consumer", "exit")
    BY <2>3, <1>1, TwoPrograms DEF RemoveSem
  <2> QED BY <1>4, <2>1, <2>2, <2>3 DEF ClientStep
<1>5. CASE UNCHANGED vars
  BY <1>5 DEF vars
<1> QED BY <1>2, <1>3, <1>4, <1>5 DEF Next

(* Who has a segment looks at segment 1 or 2.                               *)
LEMMA OwnSegment ==
  ASSUME ChatTypeInv, NEW p \in Programs, Has(p) = 1
  PROVE  shmid[p] \in 1 .. 2
<1>1. shmid[p] \in 0 .. segments /\ segments \in 0 .. 2 /\ shmid[p] # 0
  BY DEF ChatTypeInv, TypeOK
<1> QED BY <1>1

(* EndInv is inductive.                                                     *)
LEMMA EndInductive ==
  ChatTypeInv /\ EndInv /\ [Next]_vars => EndInv'
<1> SUFFICES ASSUME ChatTypeInv, EndInv, [Next]_vars PROVE EndInv'
  OBVIOUS
<1>t. /\ pc \in [Programs -> Places21] /\ data \in [1 .. 2 -> LineType] /\ readbuf \in LineType
  BY DEF ChatTypeInv, TypeOK
<1>i. /\ \A g \in 1 .. 2 : data[g].end => readbuf.end /\ pc["server"] \in LastRead
      /\ pc["client"] \in {"rmid producer", "rmid consumer"} /\ ~misled
           => readbuf.end /\ pc["server"] \in LastRead
  BY DEF EndInv, RemovedAtTheEnd, LastRead
<1>s. ASSUME \A g \in 1 .. 2 : data'[g].end => readbuf'.end /\ pc'["server"] \in LastRead,
             TornWhileCopying',
             pc'["client"] \in {"rmid producer", "rmid consumer"} /\ ~misled'
               => readbuf'.end /\ pc'["server"] \in LastRead
      PROVE  EndInv'
  BY <1>s DEF EndInv, RemovedAtTheEnd, LastRead
(* No step but sprintf puts "end" into a segment.                           *)
<1>1. \A g \in 1 .. 2 : data'[g].end => readbuf'.end /\ pc'["server"] \in LastRead
  <2>1. CASE data' = data
    BY <2>1, <1>i, StaysSent
  <2>2. CASE SprintfBegin \/ SprintfEnd
    <3>1. pc["server"] \in {"sprintf", "copying"} /\ pc'["server"] \in {"copying", "V"}
          /\ readbuf' = readbuf
      BY <2>2, <1>t, TwoPrograms DEF SprintfBegin, SprintfEnd, Goto
    <3>2. Has("server") = 1
      BY <3>1 DEF Has
    <3>3. shmid["server"] \in 1 .. 2
      BY <3>2, OwnSegment, TwoPrograms
    <3>4. PICK line \in {[readbuf EXCEPT !.torn = TRUE], readbuf} :
             data' = [data EXCEPT ![shmid["server"]] = line]
      BY <2>2 DEF SprintfBegin, SprintfEnd
    <3>5. line.end = readbuf.end
      BY <3>4, <1>t DEF LineType
    <3>6. data'[shmid["server"]] = line
          /\ \A g \in 1 .. 2 : g # shmid["server"] => data'[g] = data[g]
      BY <3>3, <3>4, <1>t
    <3>7. \A g \in 1 .. 2 : data'[g].end => readbuf.end
      BY <3>5, <3>6, <1>i
    <3> QED BY <3>1, <3>7 DEF LastRead
  <2>3. CASE Next /\ ~(SprintfBegin \/ SprintfEnd)
    <3>1. data' = data
      BY <2>3 DEF Next, Start, ServerStep, ClientStep, InitSem, ShmGet, ShmAttach, Exit, FgetsLine,
                  ServerP, ServerV, RemoveSegment, ClientV, ClientP, PrintLine, TestEnd,
                  RemoveSem, shm
    <3> QED BY <3>1, <2>1
  <2>4. CASE UNCHANGED vars
    BY <2>4, <2>1 DEF vars
  <2> QED BY <2>2, <2>3, <2>4
(* The server copies into its segment, and goes on when the line is whole.  *)
<1>c. TornWhileCopying'
  <2>t. TornWhileCopying /\ shmid \in [Programs -> 0 .. segments]
    BY DEF EndInv, ChatTypeInv, TypeOK
  <2>1. ASSUME data' = data, readbuf' = readbuf, NEW p \in Programs, NEW from, NEW to,
               Goto(p, from, to), p = "server" => from # "copying" /\ shmid' = shmid,
               p = "client" => shmid'["server"] = shmid["server"]
        PROVE  TornWhileCopying'
    <3>1. pc["server"] = "copying" => p = "client" /\ pc'["server"] = "copying"
      BY <2>1, <1>t, TwoPrograms DEF Goto
    <3> QED BY <2>1, <2>t, <3>1 DEF TornWhileCopying
  <2>2. ASSUME NEW p \in Programs, NEW name, NEW to, InitSem(p, name, to), name \in Names
        PROVE  TornWhileCopying'
    BY <2>1, <2>2, TwoPrograms DEF InitSem, shm, Names
  <2>3. ASSUME NEW p \in Programs, NEW to, ShmGet(p) \/ ShmAttach(p, to)
        PROVE  TornWhileCopying'
    <3>1. CASE ShmGet(p)
      <4>1. data' = data /\ readbuf' = readbuf /\ Goto(p, "shmget", "shmat")
            /\ shmid' = [shmid EXCEPT ![p] = segments']
        BY <3>1 DEF ShmGet
      <4>2. pc["server"] = "copying" =>
              p = "client" /\ pc'["server"] = "copying" /\ shmid'["server"] = shmid["server"]
        BY <4>1, <1>t, <2>t, TwoPrograms DEF Goto
      <4> QED BY <2>t, <4>1, <4>2 DEF TornWhileCopying
    <3>2. CASE ShmAttach(p, to)
      BY <2>1, <3>2, TwoPrograms DEF ShmAttach, shm
    <3> QED BY <2>3, <3>1, <3>2
  <2>4. CASE ServerP \/ ServerV \/ RemoveSegment \/ Exit("server")
    BY <2>1, <2>4, TwoPrograms DEF ServerP, ServerV, RemoveSegment, Exit, shm
  <2>5. CASE FgetsLine
    <3>1. /\ Goto("server", "fgets", "P") /\ data' = data /\ ~readbuf'.torn
      BY <2>5 DEF FgetsLine, shm, Line
    <3>2. pc["server"] = "fgets"
      BY <3>1 DEF Goto
    <3> QED BY <2>t, <3>1, <3>2 DEF TornWhileCopying
  <2>6. CASE SprintfBegin \/ SprintfEnd
    <3>1. PICK from \in {"sprintf", "copying"}, to \in {"copying", "V"},
               line \in {[readbuf EXCEPT !.torn = TRUE], readbuf} :
            /\ Goto("server", from, to) /\ UNCHANGED <<shmid, readbuf>>
            /\ data' = [data EXCEPT ![shmid["server"]] = line]
            /\ from = "copying" => line = readbuf
            /\ line # readbuf => to = "copying"
      BY <2>6 DEF SprintfBegin, SprintfEnd
    <3>2. pc["server"] = from /\ pc'["server"] = to
      BY <3>1, <1>t, TwoPrograms DEF Goto
    <3>3. shmid["server"] \in 1 .. 2
      BY <3>1, <3>2, OwnSegment, TwoPrograms DEF Has
    <3>4. data'[shmid["server"]] = line
          /\ \A g \in 1 .. 2 : g # shmid["server"] => data'[g] = data[g]
      BY <3>1, <3>3, <1>t
    <3>5. line.torn => to = "copying"
      BY <3>1, <2>t DEF TornWhileCopying
    <3>6. ASSUME NEW g \in 1 .. 2, data'[g].torn
          PROVE  pc'["server"] = "copying" /\ shmid'["server"] = g
      <4>1. CASE g = shmid["server"]
        BY <4>1, <3>1, <3>2, <3>4, <3>5, <3>6
      <4>2. CASE g # shmid["server"]
        BY <4>2, <3>4, <3>6, <2>t DEF TornWhileCopying
      <4> QED BY <4>1, <4>2
    <3> QED BY <3>1, <3>6, <2>t DEF TornWhileCopying
  <2>7. CASE ClientV \/ ClientP \/ PrintLine \/ TestEnd \/ Exit("client")
    BY <2>1, <2>7, TwoPrograms DEF ClientV, ClientP, PrintLine, TestEnd, Exit, shm
  <2>8. CASE RemoveSem("producer", "rmid producer", "rmid consumer")
             \/ RemoveSem("consumer", "rmid consumer", "exit")
    BY <2>1, <2>8, TwoPrograms DEF RemoveSem, shm
  <2>9. CASE UNCHANGED vars
    BY <2>9, <2>t DEF vars, shm, TornWhileCopying
  <2> QED BY <2>2, <2>3, <2>4, <2>5, <2>6, <2>7, <2>8, <2>9, TwoPrograms
          DEF Next, Start, ServerStep, ClientStep, Names
(* The client goes to remove the semaphores after it has seen "end".        *)
<1>2. pc'["client"] \in {"rmid producer", "rmid consumer"} /\ ~misled'
        => readbuf'.end /\ pc'["server"] \in LastRead
  <2>0. misled => misled'
    BY DEF Next, Start, ServerStep, ClientStep, InitSem, ShmGet, ShmAttach, Exit, FgetsLine,
           ServerP, SprintfBegin, SprintfEnd, ServerV, RemoveSegment, ClientV, ClientP,
           PrintLine, TestEnd, RemoveSem, vars
  <2>1. CASE pc["client"] \in {"rmid producer", "rmid consumer"}
    BY <2>0, <2>1, <1>i, StaysSent
  <2>2. CASE TestEnd
    <3>1. PICK end \in MaySeeEnd(data[shmid["client"]]) :
             /\ Goto("client", "test", IF end THEN "rmid producer" ELSE "V")
             /\ ~misled' /\ end /\ data[shmid["client"]].torn => data[shmid["client"]].end
      BY <2>2 DEF TestEnd
    <3>2. CASE end /\ ~misled'
      <4>1. Has("client") = 1
        BY <3>1 DEF Goto, Has
      <4>2. shmid["client"] \in 1 .. 2
        BY <4>1, OwnSegment, TwoPrograms
      <4>3. data[shmid["client"]].end
        BY <3>1, <3>2, <1>t, <4>2 DEF MaySeeEnd, LineType
      <4> QED BY <4>2, <4>3, <1>i, StaysSent
    <3>3. CASE ~end
      <4>1. pc'["client"] = "V"
        BY <3>1, <3>3, <1>t, TwoPrograms DEF Goto
      <4> QED BY <4>1
    <3> QED BY <3>2, <3>3
  <2>3. CASE Next /\ ~TestEnd /\ pc["client"] \notin {"rmid producer", "rmid consumer"}
    <3>1. ASSUME NEW p \in Programs, NEW from, NEW to, Goto(p, from, to),
                 to \notin {"rmid producer", "rmid consumer"} \/ p = "server"
          PROVE  pc'["client"] \notin {"rmid producer", "rmid consumer"}
      BY <3>1, <2>3, <1>t, TwoPrograms DEF Goto
    <3>2. ASSUME NEW p \in Programs, Start(p)
          PROVE  pc'["client"] \notin {"rmid producer", "rmid consumer"}
      BY <3>1, <3>2 DEF Start, InitSem
    <3>3. ASSUME ServerStep PROVE pc'["client"] \notin {"rmid producer", "rmid consumer"}
      BY <3>1, <3>3, TwoPrograms
         DEF ServerStep, InitSem, ShmGet, ShmAttach, Exit, FgetsLine, ServerP, SprintfBegin,
             SprintfEnd, ServerV, RemoveSegment
    <3>4. ASSUME ClientStep PROVE pc'["client"] \notin {"rmid producer", "rmid consumer"}
      <4>1. CASE RemoveSem("producer", "rmid producer", "rmid consumer")
                 \/ RemoveSem("consumer", "rmid consumer", "exit")
        BY <4>1, <2>3 DEF RemoveSem, Goto
      <4>2. CASE ~(RemoveSem("producer", "rmid producer", "rmid consumer")
                   \/ RemoveSem("consumer", "rmid consumer", "exit"))
        BY <4>2, <3>1, <3>4, <2>3, TwoPrograms
           DEF ClientStep, InitSem, ShmGet, ShmAttach, Exit, ClientV, ClientP, PrintLine
      <4> QED BY <4>1, <4>2
    <3> QED BY <2>3, <3>2, <3>3, <3>4 DEF Next
  <2>4. CASE UNCHANGED vars
    BY <2>4, <2>1 DEF vars
  <2> QED BY <2>1, <2>2, <2>3, <2>4
<1> QED BY <1>1, <1>2, <1>c, <1>s

(* The client removes the semaphores only when the server is past its last  *)
(* wait, or took a mix of two lines for "end".                              *)
THEOREM RemovesLast == Spec => []RemovedAtTheEnd
<1>1. Init => EndInv
  <2> SUFFICES ASSUME Init PROVE EndInv
    OBVIOUS
  <2>1. pc["client"] = "consumer" /\ \A g \in 1 .. 2 : data[g] = EmptyLine
    BY TwoPrograms DEF Init
  <2>2. ~EmptyLine.end /\ ~EmptyLine.torn /\ readbuf = EmptyLine
    BY DEF EmptyLine, Line, Init
  <2> QED BY <2>1, <2>2 DEF EndInv, RemovedAtTheEnd, TornWhileCopying
<1>2. EndInv => RemovedAtTheEnd
  BY DEF EndInv
<1> QED BY <1>1, <1>2, InitChatTypeInv, ChatTypeInductive, EndInductive, PTL DEF Spec

(* A program that has set both semaphores.                                  *)
Ready(p) == pc[p] \notin {"consumer", "producer"}

(* Neither program is on its way out.                                       *)
Active ==
  /\ pc["server"] \notin {"exit", "done"}
  /\ pc["client"] \notin {"rmid producer", "rmid consumer", "exit", "done"}

(* The units a program took with P and has not given back with V, by the    *)
(* kernel's account; between P and V the server holds one.                  *)
Owes(p) ==
  IF distinctKeys THEN sem["consumer"].adj[p] + sem["producer"].adj[p]
  ELSE sem["consumer"].adj[p]
Held == IF pc["server"] \in {"sprintf", "copying", "V"} THEN 1 ELSE 0

(* A program that starts has no undo. *)
StartsClean == \A p \in Programs, t \in Names : pc[p] \in Starting => sem[t].adj[p] = 0

(* Where a program has set a semaphore, it exists. *)
AreSet ==
  \A p \in Programs : /\ pc[p] # "consumer" => sem[Sem("consumer")].exists
                      /\ Ready(p) => sem[Sem("producer")].exists

(* Value and undos of a semaphore sum to the 1 it was set to. *)
Balanced ==
  \A t \in Names :
    sem[t].exists => sem[t].val + sem[t].adj["server"] + sem[t].adj["client"] = 1

(* With two semaphores, each program only gives to one of them. *)
OneWay ==
  distinctKeys => sem["producer"].adj["server"] <= 0 /\ sem["consumer"].adj["client"] <= 0

(* It takes no more than it gives: both together owe one unit at most while *)
(* they wait.                                                               *)
OweLittle ==
  Ready("server") /\ Ready("client") =>
    /\ Owes("server") <= (IF distinctKeys THEN 1 ELSE 0) + Held
    /\ Owes("client") <= (IF pc["client"] = "P" THEN 0 ELSE 1)

BalanceInv == Active => StartsClean /\ AreSet /\ Balanced /\ OneWay /\ OweLittle

(* A program on its way out does not come back.                             *)
LEMMA ActiveBefore ==
  ASSUME ChatTypeInv, [Next]_vars, Active'
  PROVE  Active
<1>t. pc \in [Programs -> Places21]
  BY DEF ChatTypeInv
<1>1. ASSUME NEW p \in Programs, NEW from, NEW to, Goto(p, from, to),
             p = "server" => from \notin {"exit", "done"} \/ to \in {"exit", "done"},
             p = "client" => \/ from \notin {"rmid producer", "rmid consumer", "exit", "done"}
                             \/ to \in {"rmid producer", "rmid consumer", "exit", "done"}
      PROVE  Active
  BY <1>1, <1>t, TwoPrograms DEF Goto, Active
<1>2. ASSUME NEW p \in Programs, Start(p) PROVE Active
  BY <1>2, <1>1 DEF Start, InitSem
<1>3. CASE ServerStep
  <2>1. CASE InitSem("server", "producer", "shmget") \/ ShmGet("server")
             \/ ShmAttach("server", "fgets") \/ Exit("server")
    BY <2>1, <1>1, TwoPrograms DEF InitSem, ShmGet, ShmAttach, Exit
  <2>2. CASE FgetsLine \/ ServerP \/ SprintfBegin \/ SprintfEnd \/ ServerV \/ RemoveSegment
    BY <2>2, <1>1, TwoPrograms
       DEF FgetsLine, ServerP, SprintfBegin, SprintfEnd, ServerV, RemoveSegment
  <2> QED BY <1>3, <2>1, <2>2 DEF ServerStep
<1>4. CASE ClientStep
  <2>1. CASE InitSem("client", "producer", "shmget") \/ ShmGet("client")
             \/ ShmAttach("client", "V") \/ Exit("client")
    BY <2>1, <1>1, TwoPrograms DEF InitSem, ShmGet, ShmAttach, Exit
  <2>2. CASE ClientV \/ ClientP \/ PrintLine \/ TestEnd
    BY <2>2, <1>1, TwoPrograms DEF ClientV, ClientP, PrintLine, TestEnd
  <2>3. CASE RemoveSem("producer", "rmid producer", "rmid consumer")
             \/ RemoveSem("consumer", "rmid consumer", "exit")
    BY <2>3, <1>1, TwoPrograms DEF RemoveSem
  <2> QED BY <1>4, <2>1, <2>2, <2>3 DEF ClientStep
<1>5. CASE UNCHANGED vars
  BY <1>5 DEF vars, Active
<1> QED BY <1>2, <1>3, <1>4, <1>5 DEF Next

(* The undos and the debts are numbers.                                     *)
LEMMA Debts ==
  ASSUME sem \in [Names -> SemType]
  PROVE  /\ \A t \in Names : sem[t].val \in Nat /\ \A p \in Programs : sem[t].adj[p] \in Undos
         /\ \A t \in Names, p \in Programs : sem[t].adj[p] \in Int
         /\ \A p \in Programs : Owes(p) \in Int
<1>1. /\ \A t \in Names : sem[t].val \in Nat /\ \A p \in Programs : sem[t].adj[p] \in Undos
      /\ \A t \in Names, p \in Programs : sem[t].adj[p] \in Int
  BY SemFields
<1>2. ASSUME NEW p \in Programs PROVE Owes(p) \in Int
  <2>1. sem["consumer"].adj[p] \in Int /\ sem["producer"].adj[p] \in Int
    BY <1>1, TwoPrograms
  <2> QED BY <2>1 DEF Owes
<1> QED BY <1>1, <1>2

(* A step that leaves the semaphores alone.                                 *)
LEMMA SemKept ==
  ASSUME ChatTypeInv, StartsClean, AreSet, Balanced, OneWay,
         NEW p \in Programs, NEW from, NEW to, Goto(p, from, to), sem' = sem,
         distinctKeys' = distinctKeys, from \notin {"consumer", "producer"},
         to \in Starting => from \in Starting
  PROVE  /\ StartsClean' /\ AreSet' /\ Balanced' /\ OneWay'
         /\ \A q \in Programs : Owes(q)' = Owes(q)
<1>1. pc \in [Programs -> Places21]
  BY DEF ChatTypeInv
<1>2. pc[p] = from /\ pc'[p] = to /\ \A q \in Programs : q # p => pc'[q] = pc[q]
  BY <1>1 DEF Goto
<1>3. \A name \in Names : Sem(name)' = Sem(name)
  BY DEF Sem
<1>4. StartsClean'
  BY <1>2 DEF StartsClean
<1>5. AreSet'
  <2>1. \A q \in Programs : pc'[q] # "consumer" => pc[q] # "consumer"
    BY <1>2
  <2>2. \A q \in Programs : Ready(q)' => Ready(q)
    BY <1>2 DEF Ready
  <2> QED BY <2>1, <2>2, <1>3, TwoPrograms DEF AreSet
<1>6. Balanced' /\ OneWay'
  BY DEF Balanced, OneWay
<1>7. \A q \in Programs : Owes(q)' = Owes(q)
  BY DEF Owes
<1> QED BY <1>4, <1>5, <1>6, <1>7

(* A semop that works moves one unit of debt; one that fails because the    *)
(* undo is at its limit leaves the program owing nothing.                   *)
LEMMA SemopParts ==
  ASSUME ChatTypeInv, StartsClean, AreSet, Balanced, OneWay,
         NEW p \in Programs, NEW name \in Names, NEW op \in {-1, 1}, NEW from, NEW to,
         Goto(p, from, to), Semop(p, name, op), distinctKeys' = distinctKeys,
         from \notin Starting, to \notin Starting,
         (p = "server" /\ name = "producer") \/ (p = "client" /\ name = "consumer") => op = 1
  PROVE  /\ StartsClean' /\ AreSet' /\ Balanced' /\ OneWay'
         /\ \A q \in Programs : q # p => Owes(q)' = Owes(q)
         /\ op = 1 => Owes(p)' <= -1 \/ Owes(p)' = Owes(p) - 1
         /\ op = -1 => Owes(p)' = Owes(p) \/ Owes(p)' = Owes(p) + 1
<1> DEFINE s == Sem(name)
<1>t. pc \in [Programs -> Places21] /\ sem \in [Names -> SemType] /\ distinctKeys \in BOOLEAN
  BY DEF ChatTypeInv, TypeOK
<1>d. /\ \A t \in Names : sem[t].val \in Nat /\ \A q \in Programs : sem[t].adj[q] \in Undos
      /\ \A t \in Names, q \in Programs : sem[t].adj[q] \in Int
      /\ \A q \in Programs : Owes(q) \in Int
  BY <1>t, Debts
<1>p. pc[p] = from /\ pc'[p] = to /\ \A q \in Programs : q # p => pc'[q] = pc[q]
  BY <1>t DEF Goto
<1>m. s \in Names /\ (distinctKeys => s = name) /\ (~distinctKeys => s = "consumer")
  BY TwoPrograms DEF Sem
<1>n. \A n \in Names : Sem(n)' = Sem(n)
  BY DEF Sem
<1>1. CASE Fails(p, s, op)
  <2>1. sem' = sem
    BY <1>1, <1>t, SemopEffect
  <2>2. StartsClean' /\ AreSet' /\ Balanced' /\ OneWay' /\ \A q \in Programs : Owes(q)' = Owes(q)
    <3>1. from \notin {"consumer", "producer"} /\ (to \in Starting => from \in Starting)
      BY DEF Starting
    <3> QED BY <2>1, <3>1, SemKept
  <2>3. ASSUME op = 1 PROVE Owes(p) <= -1
    <3>1. Ready(p) /\ pc[p] # "consumer"
      BY <1>p DEF Ready, Starting
    <3>2. sem[s].exists
      BY <3>1 DEF AreSet, Names
    <3>3. sem[s].adj[p] - 1 \notin Undos
      BY <2>3, <3>2, <1>1 DEF Fails, Undos
    <3>4. sem[s].adj[p] = -SEMAEM - 1
      <4>1. sem[s].adj[p] \in Undos
        BY <1>d, <1>m
      <4> QED BY <3>3, <4>1, ChatNumbers DEF Undos
    <3>5. sem["consumer"].adj[p] <= SEMAEM /\ sem["producer"].adj[p] <= SEMAEM
          /\ sem["consumer"].adj[p] \in Int /\ sem["producer"].adj[p] \in Int
      <4>1. sem["consumer"].adj[p] \in Undos /\ sem["producer"].adj[p] \in Undos
        BY <1>d, TwoPrograms
      <4> QED BY <4>1, ChatNumbers DEF Undos
    <3>6. CASE distinctKeys
      <4>1. Owes(p) = sem["consumer"].adj[p] + sem["producer"].adj[p]
        BY <3>6 DEF Owes
      <4>2. s = "consumer" \/ s = "producer"
        BY <1>m DEF Names
      <4> QED BY <4>1, <4>2, <3>4, <3>5, ChatNumbers
    <3>7. CASE ~distinctKeys
      <4>1. Owes(p) = sem["consumer"].adj[p]
        BY <3>7 DEF Owes
      <4> QED BY <4>1, <3>7, <3>4, <1>m, ChatNumbers
    <3> QED BY <3>6, <3>7, <1>t
  <2> QED BY <2>2, <2>3
<1>2. CASE ~Fails(p, s, op)
  <2>1. /\ \A t \in Names : t # s => sem'[t] = sem[t]
        /\ sem'[s].exists = sem[s].exists
        /\ sem'[s].val = sem[s].val + op
        /\ sem'[s].adj[p] = sem[s].adj[p] - op
        /\ \A q \in Programs : q # p => sem'[s].adj[q] = sem[s].adj[q]
    BY <1>2, <1>t, SemopEffect
  <2>2. \A t \in Names : sem'[t].exists = sem[t].exists
    BY <2>1
  <2>3. \A t \in Names, q \in Programs : t # s \/ q # p => sem'[t].adj[q] = sem[t].adj[q]
    BY <2>1
  <2>4. StartsClean'
    <3>1. \A q \in Programs : pc'[q] \in Starting => pc[q] \in Starting /\ q # p
      BY <1>p
    <3> QED BY <3>1, <2>3 DEF StartsClean
  <2>5. AreSet'
    <3>1. \A q \in Programs : pc'[q] # "consumer" => pc[q] # "consumer"
      BY <1>p DEF Starting
    <3>2. \A q \in Programs : Ready(q)' => Ready(q)
      BY <1>p DEF Ready, Starting
    <3>3. \A n \in Names : sem'[Sem(n)'].exists = sem[Sem(n)].exists
      BY <1>n, <2>2, TwoPrograms
    <3> QED BY <3>1, <3>2, <3>3, TwoPrograms DEF AreSet
  <2>6. Balanced'
    <3>1. ASSUME NEW t \in Names, sem'[t].exists
          PROVE  sem'[t].val + sem'[t].adj["server"] + sem'[t].adj["client"] = 1
      <4>1. sem[t].val + sem[t].adj["server"] + sem[t].adj["client"] = 1
        BY <3>1, <2>2 DEF Balanced
      <4>2. CASE t # s
        BY <4>1, <4>2, <2>1
      <4>3. CASE t = s /\ p = "server"
        <5>1. /\ sem'[t].val = sem[t].val + op /\ sem'[t].adj["server"] = sem[t].adj["server"] - op
              /\ sem'[t].adj["client"] = sem[t].adj["client"]
          BY <4>3, <2>1, TwoPrograms
        <5>2. sem[t].val \in Int /\ sem[t].adj["server"] \in Int /\ sem[t].adj["client"] \in Int
          BY <1>d, TwoPrograms
        <5> QED BY <4>1, <5>1, <5>2
      <4>4. CASE t = s /\ p = "client"
        <5>1. /\ sem'[t].val = sem[t].val + op /\ sem'[t].adj["client"] = sem[t].adj["client"] - op
              /\ sem'[t].adj["server"] = sem[t].adj["server"]
          BY <4>4, <2>1, TwoPrograms
        <5>2. sem[t].val \in Int /\ sem[t].adj["server"] \in Int /\ sem[t].adj["client"] \in Int
          BY <1>d, TwoPrograms
        <5> QED BY <4>1, <5>1, <5>2
      <4> QED BY <4>2, <4>3, <4>4, TwoPrograms
    <3> QED BY <3>1 DEF Balanced
  <2>7. OneWay'
    <3>1. CASE distinctKeys
      <4>1. s = name
        BY <3>1, <1>m
      <4>2. \A t \in Names, q \in Programs :
              \/ sem'[t].adj[q] = sem[t].adj[q]
              \/ t = name /\ q = p /\ sem'[t].adj[q] = sem[t].adj[q] - op
        BY <4>1, <2>1, <2>3
      <4>3. sem["producer"].adj["server"] <= 0 /\ sem["consumer"].adj["client"] <= 0
            /\ sem["producer"].adj["server"] \in Int /\ sem["consumer"].adj["client"] \in Int
        BY <3>1, <1>d, TwoPrograms DEF OneWay
      <4>o. /\ p = "server" /\ name = "producer" => op = 1
            /\ p = "client" /\ name = "consumer" => op = 1
        OBVIOUS
      <4>4. sem'["producer"].adj["server"] <= 0
        <5>1. \/ sem'["producer"].adj["server"] = sem["producer"].adj["server"]
              \/ sem'["producer"].adj["server"] = sem["producer"].adj["server"] - 1
          BY <4>2, <4>o, TwoPrograms
        <5> QED BY <5>1, <4>3
      <4>5. sem'["consumer"].adj["client"] <= 0
        <5>1. \/ sem'["consumer"].adj["client"] = sem["consumer"].adj["client"]
              \/ sem'["consumer"].adj["client"] = sem["consumer"].adj["client"] - 1
          BY <4>2, <4>o, TwoPrograms
        <5> QED BY <5>1, <4>3
      <4> QED BY <4>4, <4>5 DEF OneWay
    <3>2. CASE ~distinctKeys
      BY <3>2 DEF OneWay
    <3> QED BY <3>1, <3>2
  <2>8. \A q \in Programs : q # p => Owes(q)' = Owes(q)
    <3>1. \A q \in Programs : q # p => sem'["consumer"].adj[q] = sem["consumer"].adj[q]
                                       /\ sem'["producer"].adj[q] = sem["producer"].adj[q]
      BY <2>3, TwoPrograms
    <3> QED BY <3>1 DEF Owes
  <2>9. Owes(p)' = Owes(p) - op
    <3>0. sem["consumer"].adj[p] \in Int /\ sem["producer"].adj[p] \in Int
      BY <1>d, TwoPrograms
    <3>1. CASE distinctKeys
      <4>1. Owes(p) = sem["consumer"].adj[p] + sem["producer"].adj[p]
            /\ Owes(p)' = sem'["consumer"].adj[p] + sem'["producer"].adj[p]
        BY <3>1 DEF Owes
      <4>2. CASE s = "consumer"
        <5>1. sem'["consumer"].adj[p] = sem["consumer"].adj[p] - op
              /\ sem'["producer"].adj[p] = sem["producer"].adj[p]
          BY <4>2, <2>1, TwoPrograms
        <5> QED BY <4>1, <5>1, <3>0
      <4>3. CASE s = "producer"
        <5>1. sem'["producer"].adj[p] = sem["producer"].adj[p] - op
              /\ sem'["consumer"].adj[p] = sem["consumer"].adj[p]
          BY <4>3, <2>1, TwoPrograms
        <5> QED BY <4>1, <5>1, <3>0
      <4> QED BY <4>2, <4>3, <1>m DEF Names
    <3>2. CASE ~distinctKeys
      BY <3>2, <2>1, <1>m DEF Owes
    <3> QED BY <3>1, <3>2, <1>t
  <2> QED BY <2>4, <2>5, <2>6, <2>7, <2>8, <2>9, <1>d
<1> QED BY <1>1, <1>2

(* BalanceInv is inductive.                                                 *)
LEMMA BalanceInductive ==
  ChatTypeInv /\ BalanceInv /\ [Next]_vars => BalanceInv'
<1> SUFFICES ASSUME ChatTypeInv, BalanceInv, [Next]_vars, Active'
             PROVE  StartsClean' /\ AreSet' /\ Balanced' /\ OneWay' /\ OweLittle'
  BY DEF BalanceInv
<1> DEFINE Parts == StartsClean /\ AreSet /\ Balanced /\ OneWay /\ OweLittle
<1>a. Active
  BY ActiveBefore
<1>i. StartsClean /\ AreSet /\ Balanced /\ OneWay /\ OweLittle
  BY <1>a DEF BalanceInv
<1>t. pc \in [Programs -> Places21] /\ sem \in [Names -> SemType] /\ distinctKeys \in BOOLEAN
      /\ pc["server"] \notin {"printf", "test", "rmid producer", "rmid consumer"}
  BY DEF ChatTypeInv, TypeOK
<1>d. \A q \in Programs : Owes(q) \in Int
  BY <1>t, Debts
<1>e. \A q \in Programs : Owes(q)' \in Int
  <2>1. sem' \in [Names -> SemType]
    BY ChatTypeInductive DEF ChatTypeInv, TypeOK, SemType
  <2>2. \A q \in Programs : sem'["consumer"].adj[q] \in Int /\ sem'["producer"].adj[q] \in Int
    BY <2>1, SemFields, TwoPrograms
  <2> QED BY <2>2 DEF Owes
<1>h. Held \in {0, 1} /\ Held' \in {0, 1}
  BY DEF Held
(* A step that leaves the semaphores alone.                                 *)
<1>k. ASSUME NEW p \in Programs, NEW from, NEW to, Goto(p, from, to), sem' = sem,
             distinctKeys' = distinctKeys, from \notin {"consumer", "producer"},
             to \in Starting => from \in Starting,
             p = "server" => (from \in {"sprintf", "copying", "V"}
                                <=> to \in {"sprintf", "copying", "V"}),
             p = "client" => (from = "P" <=> to = "P")
      PROVE  Parts'
  <2>1. StartsClean' /\ AreSet' /\ Balanced' /\ OneWay'
        /\ \A q \in Programs : Owes(q)' = Owes(q)
    BY <1>k, <1>i, SemKept
  <2>2. pc[p] = from /\ pc'[p] = to /\ \A q \in Programs : q # p => pc'[q] = pc[q]
    BY <1>k, <1>t DEF Goto
  <2>3. Held' = Held /\ (pc'["client"] = "P" <=> pc["client"] = "P")
    BY <2>2, <1>k, TwoPrograms DEF Held
  <2>4. \A q \in Programs : Ready(q)' => Ready(q)
    BY <2>2, <1>k DEF Ready, Starting
  <2>5. Owes("server")' = Owes("server") /\ Owes("client")' = Owes("client")
    BY <2>1, TwoPrograms
  <2>6. OweLittle'
    BY <2>3, <2>4, <2>5, <1>k, <1>i, TwoPrograms DEF OweLittle
  <2> QED BY <2>1, <2>6
<1>1. ASSUME NEW p \in Programs, NEW name \in Names, NEW to, InitSem(p, name, to),
             (name = "consumer" /\ to = "producer") \/ (name = "producer" /\ to = "shmget")
      PROVE  Parts'
  <2>1. /\ Goto(p, name, to) /\ distinctKeys' = distinctKeys
        /\ sem' = [sem EXCEPT ![Sem(name)] =
                     [exists |-> TRUE, val |-> 1, adj |-> [q \in Programs |-> 0]]]
    BY <1>1 DEF InitSem
  <2>2. pc[p] = name /\ pc'[p] = to /\ \A q \in Programs : q # p => pc'[q] = pc[q]
    BY <2>1, <1>t DEF Goto
  <2>3. /\ sem'[Sem(name)] = [exists |-> TRUE, val |-> 1, adj |-> [q \in Programs |-> 0]]
        /\ \A t \in Names : t # Sem(name) => sem'[t] = sem[t]
    BY <2>1, <1>t, TwoPrograms
  <2>4. /\ sem'[Sem(name)].exists /\ sem'[Sem(name)].val = 1
        /\ \A q \in Programs : sem'[Sem(name)].adj[q] = 0
    BY <2>3
  <2>5. \A n \in Names : Sem(n)' = Sem(n)
    BY <2>1 DEF Sem
  <2>6. StartsClean'
    <3>1. \A q \in Programs : pc'[q] \in Starting => pc[q] \in Starting
      BY <2>2, <1>1 DEF Starting
    <3>2. ASSUME NEW q \in Programs, NEW t \in Names, pc'[q] \in Starting
          PROVE  sem'[t].adj[q] = 0
      <4>1. sem[t].adj[q] = 0
        BY <3>1, <3>2, <1>i DEF StartsClean
      <4> QED BY <4>1, <2>3, <2>4
    <3> QED BY <3>2 DEF StartsClean
  <2>7. AreSet'
    <3>1. \A t \in Names : sem[t].exists => sem'[t].exists
      BY <2>3, <2>4
    <3>2. ASSUME NEW q \in Programs, pc'[q] # "consumer" PROVE sem'[Sem("consumer")].exists
      BY <3>1, <3>2, <2>2, <2>4, <1>1, <1>i, TwoPrograms DEF AreSet
    <3>3. ASSUME NEW q \in Programs, Ready(q)' PROVE sem'[Sem("producer")].exists
      BY <3>1, <3>3, <2>2, <2>4, <1>1, <1>i, TwoPrograms DEF AreSet, Ready
    <3> QED BY <3>2, <3>3, <2>5, TwoPrograms DEF AreSet
  <2>8. Balanced'
    <3>1. ASSUME NEW t \in Names, sem'[t].exists
          PROVE  sem'[t].val + sem'[t].adj["server"] + sem'[t].adj["client"] = 1
      <4>1. CASE t = Sem(name)
        BY <4>1, <2>4, TwoPrograms
      <4>2. CASE t # Sem(name)
        BY <4>2, <3>1, <2>3, <1>i DEF Balanced
      <4> QED BY <4>1, <4>2
    <3> QED BY <3>1 DEF Balanced
  <2>9. OneWay'
    <3>1. ASSUME distinctKeys, NEW q \in Programs, NEW t \in Names, sem[t].adj[q] <= 0
          PROVE  sem'[t].adj[q] <= 0
      BY <3>1, <2>3, <2>4
    <3> QED BY <3>1, <2>1, <1>i, TwoPrograms DEF OneWay
  <2>10. OweLittle'
    <3> SUFFICES ASSUME Ready("server")', Ready("client")'
                 PROVE  /\ Owes("server")' <= (IF distinctKeys THEN 1 ELSE 0) + Held'
                        /\ Owes("client")' <= (IF pc'["client"] = "P" THEN 0 ELSE 1)
      BY <2>1 DEF OweLittle
    <3>1. name = "producer" /\ to = "shmget"
      BY <2>2, <1>1, TwoPrograms DEF Ready
    <3>2. CASE ~distinctKeys
      <4>1. Sem(name) = "consumer"
        BY <3>2 DEF Sem
      <4>2. Owes("server")' = 0 /\ Owes("client")' = 0
        BY <3>2, <4>1, <2>1, <2>4, TwoPrograms DEF Owes
      <4> QED BY <3>2, <4>2, <1>h
    <3>3. CASE distinctKeys
      <4>1. Sem(name) = "producer" /\ sem'["consumer"] = sem["consumer"]
        BY <3>1, <3>3, <2>3, TwoPrograms DEF Sem
      <4>2. \A q \in Programs : sem["consumer"].adj[q] \in Int
        BY <1>t, Debts, TwoPrograms
      <4>3. \A q \in Programs : Owes(q)' = sem["consumer"].adj[q]
        <5>1. \A q \in Programs : Owes(q)' = sem'["consumer"].adj[q] + sem'["producer"].adj[q]
          BY <3>3, <2>1 DEF Owes
        <5>2. \A q \in Programs : sem'["producer"].adj[q] = 0
          BY <4>1, <2>4
        <5> QED BY <5>1, <5>2, <4>1, <4>2
      <4>4. sem["consumer"].adj["client"] <= 0
        BY <3>3, <1>i DEF OneWay
      <4>5. sem["consumer"].adj["server"] <= 1
        <5>1. CASE p = "server"
          BY <5>1, <2>2, <3>1, <1>i, TwoPrograms DEF StartsClean, Starting
        <5>2. CASE p = "client"
          <6>1. sem["consumer"].adj["client"] = 0
            BY <5>2, <2>2, <3>1, <1>i, TwoPrograms DEF StartsClean, Starting
          <6>2. Sem("consumer") = "consumer"
            BY DEF Sem
          <6>3. sem["consumer"].exists
            BY <5>2, <2>2, <3>1, <6>2, <1>i, TwoPrograms DEF AreSet
          <6>4. sem["consumer"].val + sem["consumer"].adj["server"]
                  + sem["consumer"].adj["client"] = 1
            BY <6>3, <1>i, TwoPrograms DEF Balanced
          <6>5. sem["consumer"].val \in Nat
            BY <1>t, Debts, TwoPrograms
          <6>6. sem["consumer"].adj["server"] \in Int
            BY <4>2, TwoPrograms
          <6> QED BY <6>1, <6>4, <6>5, <6>6
        <5> QED BY <5>1, <5>2, TwoPrograms
      <4>6. Owes("server")' <= 1 /\ Owes("client")' <= 0 /\ Owes("server")' \in Int
            /\ Owes("client")' \in Int
        BY <4>2, <4>3, <4>4, <4>5, TwoPrograms
      <4> QED BY <3>3, <4>6, <1>h
    <3> QED BY <3>2, <3>3, <1>t
  <2> QED BY <2>6, <2>7, <2>8, <2>9, <2>10
<1>2. ASSUME NEW p \in Programs, ShmGet(p) PROVE Parts'
  BY <1>2, <1>k DEF ShmGet, Starting
<1>3. CASE ShmAttach("server", "fgets") \/ ShmAttach("client", "V")
  <2>1. PICK p \in Programs, to \in {"fgets", "V", "exit"} :
          /\ Goto(p, "shmat", to) /\ sem' = sem /\ distinctKeys' = distinctKeys
          /\ p = "server" => to # "V"
    BY <1>3, TwoPrograms DEF ShmAttach
  <2> QED BY <2>1, <1>k DEF Starting
<1>4. CASE FgetsLine \/ SprintfBegin \/ SprintfEnd \/ RemoveSegment \/ PrintLine
  <2>1. CASE FgetsLine
    BY <2>1, <1>k, TwoPrograms DEF FgetsLine, Starting
  <2>2. CASE SprintfBegin \/ SprintfEnd
    BY <2>2, <1>k, TwoPrograms DEF SprintfBegin, SprintfEnd, Starting
  <2>3. CASE RemoveSegment \/ PrintLine
    BY <2>3, <1>k, TwoPrograms DEF RemoveSegment, PrintLine, Starting
  <2> QED BY <1>4, <2>1, <2>2, <2>3
<1>5. CASE TestEnd
  <2>1. PICK to \in {"rmid producer", "V"} :
          Goto("client", "test", to) /\ sem' = sem /\ distinctKeys' = distinctKeys
    BY <1>5 DEF TestEnd
  <2> QED BY <2>1, <1>k, TwoPrograms DEF Starting
(* A step with a semop, with what it may do to the debt of the program.     *)
<1>6. ASSUME NEW p \in Programs, NEW name \in Names, NEW op \in {-1, 1}, NEW from, NEW to,
             Goto(p, from, to), Semop(p, name, op), distinctKeys' = distinctKeys,
             from \notin Starting, to \notin Starting,
             (p = "server" /\ name = "producer") \/ (p = "client" /\ name = "consumer") => op = 1
      PROVE  /\ StartsClean' /\ AreSet' /\ Balanced' /\ OneWay'
             /\ \A q \in Programs : q # p => Owes(q)' = Owes(q)
             /\ op = 1 => Owes(p)' <= -1 \/ Owes(p)' = Owes(p) - 1
             /\ op = -1 => Owes(p)' = Owes(p) \/ Owes(p)' = Owes(p) + 1
             /\ pc[p] = from /\ pc'[p] = to /\ \A q \in Programs : q # p => pc'[q] = pc[q]
             /\ \A q \in Programs : Ready(q)' => Ready(q)
  <2>1. pc[p] = from /\ pc'[p] = to /\ \A q \in Programs : q # p => pc'[q] = pc[q]
    BY <1>6, <1>t DEF Goto
  <2>2. \A q \in Programs : Ready(q)' => Ready(q)
    BY <1>6, <2>1 DEF Ready, Starting
  <2> QED BY <2>1, <2>2, <1>6, <1>i, SemopParts
<1>7. CASE ServerP \/ ServerV
  <2>1. PICK name \in Names, op \in {-1, 1}, from \in {"P", "V"},
                 to \in {"sprintf", "remove", "fgets"} :
          /\ Goto("server", from, to) /\ Semop("server", name, op) /\ distinctKeys' = distinctKeys
          /\ name = "consumer" \/ op = 1
          /\ \/ op = -1 /\ from = "P" /\ to = "sprintf"
             \/ op = 1 /\ from = "V" /\ to \in {"remove", "fgets"}
    BY <1>7, TwoPrograms DEF ServerP, ServerV, semaphore_P, semaphore_V
  <2>2. /\ StartsClean' /\ AreSet' /\ Balanced' /\ OneWay'
        /\ Owes("client")' = Owes("client") /\ pc'["client"] = pc["client"]
        /\ op = 1 => Owes("server")' <= -1 \/ Owes("server")' = Owes("server") - 1
        /\ op = -1 => Owes("server")' = Owes("server") \/ Owes("server")' = Owes("server") + 1
        /\ pc["server"] = from /\ pc'["server"] = to
        /\ \A q \in Programs : Ready(q)' => Ready(q)
    <3>1. from \notin Starting /\ to \notin Starting
      BY DEF Starting
    <3> QED BY <2>1, <3>1, <1>6, TwoPrograms
  <2>3. OweLittle'
    <3> SUFFICES ASSUME Ready("server")', Ready("client")'
                 PROVE  /\ Owes("server")' <= (IF distinctKeys THEN 1 ELSE 0) + Held'
                        /\ Owes("client")' <= (IF pc'["client"] = "P" THEN 0 ELSE 1)
      BY <2>1 DEF OweLittle
    <3>1. /\ Owes("server") <= (IF distinctKeys THEN 1 ELSE 0) + Held
          /\ Owes("client") <= (IF pc["client"] = "P" THEN 0 ELSE 1)
      BY <2>2, <1>i, TwoPrograms DEF OweLittle
    <3>2. CASE op = -1
      <4>1. Held = 0 /\ Held' = 1
        BY <3>2, <2>1, <2>2 DEF Held
      <4> QED BY <3>1, <3>2, <4>1, <2>2, <1>d, TwoPrograms
    <3>3. CASE op = 1
      <4>1. Held = 1 /\ Held' = 0
        BY <3>3, <2>1, <2>2 DEF Held
      <4>2. Owes("server") \in Int /\ Owes("server")' \in Int
        BY <1>d, <1>e, TwoPrograms
      <4>3. Owes("server")' <= -1 \/ Owes("server")' = Owes("server") - 1
        BY <3>3, <2>2
      <4>4. Owes("server")' <= (IF distinctKeys THEN 1 ELSE 0) + Held'
        BY <3>1, <4>1, <4>2, <4>3
      <4> QED BY <3>1, <4>4, <2>2
    <3> QED BY <3>2, <3>3
  <2> QED BY <2>2, <2>3
<1>8. CASE ClientV \/ ClientP
  <2>1. PICK name \in Names, op \in {-1, 1}, from \in {"P", "V"}, to \in {"printf", "P"} :
          /\ Goto("client", from, to) /\ Semop("client", name, op) /\ distinctKeys' = distinctKeys
          /\ name = "producer" \/ op = 1
          /\ \/ op = -1 /\ from = "P" /\ to = "printf"
             \/ op = 1 /\ from = "V" /\ to = "P"
    BY <1>8, TwoPrograms DEF ClientP, ClientV, semaphore_P, semaphore_V
  <2>2. /\ StartsClean' /\ AreSet' /\ Balanced' /\ OneWay'
        /\ Owes("server")' = Owes("server") /\ pc'["server"] = pc["server"]
        /\ op = 1 => Owes("client")' <= -1 \/ Owes("client")' = Owes("client") - 1
        /\ op = -1 => Owes("client")' = Owes("client") \/ Owes("client")' = Owes("client") + 1
        /\ pc["client"] = from /\ pc'["client"] = to
        /\ \A q \in Programs : Ready(q)' => Ready(q)
    <3>1. from \notin Starting /\ to \notin Starting
      BY DEF Starting
    <3> QED BY <2>1, <3>1, <1>6, TwoPrograms
  <2>3. OweLittle'
    <3> SUFFICES ASSUME Ready("server")', Ready("client")'
                 PROVE  /\ Owes("server")' <= (IF distinctKeys THEN 1 ELSE 0) + Held'
                        /\ Owes("client")' <= (IF pc'["client"] = "P" THEN 0 ELSE 1)
      BY <2>1 DEF OweLittle
    <3>1. /\ Owes("server") <= (IF distinctKeys THEN 1 ELSE 0) + Held
          /\ Owes("client") <= (IF pc["client"] = "P" THEN 0 ELSE 1)
      BY <2>2, <1>i, TwoPrograms DEF OweLittle
    <3>2. Held' = Held
      BY <2>2 DEF Held
    <3>3. CASE op = -1
      <4>1. Owes("client") <= 0 /\ pc'["client"] # "P"
        BY <3>1, <3>3, <2>1, <2>2
      <4> QED BY <3>1, <3>2, <3>3, <4>1, <2>2, <1>d, TwoPrograms
    <3>4. CASE op = 1
      <4>1. Owes("client") <= 1 /\ pc'["client"] = "P"
        BY <3>1, <3>4, <2>1, <2>2
      <4>2. Owes("client") \in Int /\ Owes("client")' \in Int
        BY <1>d, <1>e, TwoPrograms
      <4>3. Owes("client")' <= -1 \/ Owes("client")' = Owes("client") - 1
        BY <3>4, <2>2
      <4>4. Owes("client")' <= 0
        BY <4>1, <4>2, <4>3
      <4> QED BY <3>1, <3>2, <4>1, <4>4, <2>2
    <3> QED BY <3>3, <3>4
  <2> QED BY <2>2, <2>3
(* These steps end or follow the time in which both are active.             *)
<1>9. CASE Exit("server") \/ Exit("client")
           \/ RemoveSem("producer", "rmid producer", "rmid consumer")
           \/ RemoveSem("consumer", "rmid consumer", "exit")
  BY <1>9, <1>a DEF Exit, RemoveSem, Goto, Active
<1>10. CASE UNCHANGED vars
  <2>1. pc' = pc /\ sem' = sem /\ distinctKeys' = distinctKeys
    BY <1>10 DEF vars
  <2> QED BY <2>1, <1>i
       DEF StartsClean, AreSet, Balanced, OneWay, OweLittle, Ready, Owes, Held, Sem
<1> QED
  <2>1. ASSUME NEW p \in Programs, Start(p) PROVE Parts'
    BY <2>1, <1>1, TwoPrograms DEF Start
  <2>2. CASE ServerStep
    BY <2>2, <1>1, <1>2, <1>3, <1>4, <1>7, <1>9, TwoPrograms DEF ServerStep
  <2>3. CASE ClientStep
    BY <2>3, <1>1, <1>2, <1>3, <1>4, <1>5, <1>8, <1>9, TwoPrograms DEF ClientStep
  <2> QED BY <2>1, <2>2, <2>3, <1>10 DEF Next

(* While both wait they would together owe what both semaphores lack: two   *)
(* units, or one where there is one semaphore, and that is more than they   *)
(* can owe.                                                                 *)
LEMMA OneGoesOn ==
  ASSUME ChatTypeInv, BalanceInv
  PROVE  NeverBothWait
<1> SUFFICES ASSUME ServerBlocked, ClientBlocked PROVE FALSE
  BY DEF NeverBothWait
<1>1. pc["server"] = "P" /\ pc["client"] = "P" /\ Waits(Sem("consumer"), -1)
      /\ Waits(Sem("producer"), -1)
  BY DEF ServerBlocked, ClientBlocked, Blocked
<1>2. Active /\ Ready("server") /\ Ready("client") /\ Held = 0
  BY <1>1 DEF Active, Ready, Held
<1>3. Balanced /\ OweLittle
  BY <1>2 DEF BalanceInv
<1>4. sem \in [Names -> SemType] /\ distinctKeys \in BOOLEAN
  BY DEF ChatTypeInv, TypeOK
<1>5. /\ \A t \in Names : sem[t].val \in Nat
      /\ \A t \in Names, p \in Programs : sem[t].adj[p] \in Int
  BY <1>4, Debts
<1>6. ASSUME NEW t \in Names, Waits(t, -1)
      PROVE  sem[t].adj["server"] + sem[t].adj["client"] = 1
  <2>1. sem[t].exists /\ sem[t].val - 1 < 0
    BY <1>6 DEF Waits
  <2>2. sem[t].val = 0
    BY <2>1, <1>5
  <2>3. sem[t].val + sem[t].adj["server"] + sem[t].adj["client"] = 1
    BY <2>1, <1>3 DEF Balanced
  <2>4. sem[t].adj["server"] \in Int /\ sem[t].adj["client"] \in Int
    BY <1>5, TwoPrograms
  <2> QED BY <2>2, <2>3, <2>4
<1>7. Owes("server") <= (IF distinctKeys THEN 1 ELSE 0) /\ Owes("client") <= 0
  BY <1>1, <1>2, <1>3 DEF OweLittle
<1>8. /\ sem["consumer"].adj["server"] \in Int /\ sem["consumer"].adj["client"] \in Int
      /\ sem["producer"].adj["server"] \in Int /\ sem["producer"].adj["client"] \in Int
  BY <1>5, TwoPrograms
<1>9. sem["consumer"].adj["server"] + sem["consumer"].adj["client"] = 1
  BY <1>1, <1>6, TwoPrograms DEF Sem
<1>10. CASE distinctKeys
  <2>1. sem["producer"].adj["server"] + sem["producer"].adj["client"] = 1
    BY <1>1, <1>6, <1>10, TwoPrograms DEF Sem
  <2>2. /\ sem["consumer"].adj["server"] + sem["producer"].adj["server"] <= 1
        /\ sem["consumer"].adj["client"] + sem["producer"].adj["client"] <= 0
    BY <1>7, <1>10 DEF Owes
  <2> QED BY <2>1, <2>2, <1>8, <1>9
<1>11. CASE ~distinctKeys
  <2>1. sem["consumer"].adj["server"] <= 0 /\ sem["consumer"].adj["client"] <= 0
    BY <1>7, <1>11 DEF Owes
  <2> QED BY <2>1, <1>8, <1>9
<1> QED BY <1>10, <1>11, <1>4

(* The server and the client never wait for each other, however their       *)
(* starts interleave and whichever semop fails.                             *)
THEOREM OneWaits == Spec => []NeverBothWait
<1>1. Init => BalanceInv
  <2> SUFFICES ASSUME Init PROVE BalanceInv
    OBVIOUS
  <2>1. \A p \in Programs : pc[p] = "consumer"
    BY DEF Init
  <2>2. \A t \in Names : ~sem[t].exists /\ \A p \in Programs : sem[t].adj[p] = 0
    BY DEF Init
  <2>3. StartsClean /\ Balanced
    BY <2>2 DEF StartsClean, Balanced
  <2>4. AreSet /\ OweLittle
    BY <2>1, TwoPrograms DEF AreSet, OweLittle, Ready
  <2>5. OneWay
    BY <2>2, TwoPrograms DEF OneWay
  <2> QED BY <2>3, <2>4, <2>5 DEF BalanceInv
<1>2. ChatTypeInv /\ BalanceInv => NeverBothWait
  BY OneGoesOn
<1> QED BY <1>1, <1>2, InitChatTypeInv, ChatTypeInductive, BalanceInductive, PTL DEF Spec

(* Neither has complained, there are two semaphores, and the server runs.   *)
Counting == distinctKeys /\ ~complained /\ pc["server"] \notin {"exit", "done"}

(* How often the server has been through its P and its V, and the client    *)
(* through its V and its P, told from the lines and the places.             *)
ServerPs == readbuf.n - (IF pc["server"] = "P" THEN 1 ELSE 0)
ServerVs == readbuf.n - (IF pc["server"] \in {"P", "sprintf", "copying", "V"} THEN 1 ELSE 0)
ClientVs == shown + (IF pc["client"] \in {"P", "printf"} THEN 1 ELSE 0)
ClientPs == shown + (IF pc["client"] = "printf" THEN 1 ELSE 0)

Leaving == {"rmid producer", "rmid consumer", "exit", "done"}

(* Who has a segment has the last one, and it is still found. *)
SameSegment == \A p \in Programs : Has(p) = 1 => found /\ shmid[p] = segments

(* Before the loop nothing is read or shown; in its middle a line is. *)
BeforeLoop ==
  /\ pc["server"] \in Starting => readbuf.n = 0
  /\ pc["server"] \in {"P", "sprintf", "copying", "V"} => readbuf.n >= 1
  /\ pc["client"] \in Starting => shown = 0

(* A semaphore holds the 1 of its last SETVAL and what was given since, but *)
(* for the few P and V that a second SETVAL forgot.                         *)
ConsumerKept == sem["consumer"].val + ServerPs - ClientVs
ProducerKept == sem["producer"].val - ServerVs + ClientPs

(* When the client leaves, the server can go on until it needs the semaphore*)
(* that is removed.                                                         *)
Frozen ==
  pc["client"] \in Leaving =>
    /\ pc["server"] \notin Starting
    /\ shown - 2 <= readbuf.n /\ ServerPs <= shown + 2
    /\ IF pc["client"] \in {"exit", "done"} THEN ~sem["consumer"].exists
                                            ELSE ConsumerKept <= 2

ConsumerCounts ==
  pc["client"] \notin Leaving /\ (pc["server"] # "consumer" \/ pc["client"] # "consumer") =>
    \/ ConsumerKept = 1
    \/ pc["server"] # "consumer" /\ pc["client"] # "consumer" /\ ConsumerKept \in -1 .. 2

ProducerCounts ==
  pc["client"] \notin Leaving /\ (Ready("server") \/ Ready("client")) =>
    \/ ProducerKept = 1
    \/ Ready("server") /\ Ready("client") /\ ProducerKept \in -1 .. 2

KeepInv == Counting => SameSegment /\ BeforeLoop /\ Frozen /\ ConsumerCounts /\ ProducerCounts

(* A complaint stays, and so does the end of the server.                    *)
LEMMA CountingBefore ==
  ASSUME ChatTypeInv, [Next]_vars, Counting'
  PROVE  Counting /\ distinctKeys' = distinctKeys /\ ~complained'
<1>t. pc \in [Programs -> Places21]
  BY DEF ChatTypeInv
<1>1. distinctKeys' = distinctKeys /\ (complained => complained')
  <2>0. ASSUME NEW p, NEW name, NEW op, Semop(p, name, op) PROVE complained => complained'
    BY <2>0 DEF Semop
  <2>u. ASSUME UNCHANGED <<distinctKeys, complained>>
        PROVE  distinctKeys' = distinctKeys /\ (complained => complained')
    BY <2>u
  <2>1. CASE \E p \in Programs : Start(p)
    BY <2>1 DEF Start, InitSem
  <2>2. CASE ServerStep
    <3>1. CASE ServerP \/ ServerV
      BY <3>1, <2>0 DEF ServerP, ServerV, semaphore_P, semaphore_V
    <3>2. CASE InitSem("server", "producer", "shmget") \/ ShmGet("server")
               \/ ShmAttach("server", "fgets") \/ Exit("server")
      BY <3>2, <2>u DEF InitSem, ShmGet, ShmAttach, Exit
    <3>3. CASE FgetsLine \/ SprintfBegin \/ SprintfEnd \/ RemoveSegment
      BY <3>3, <2>u DEF FgetsLine, SprintfBegin, SprintfEnd, RemoveSegment
    <3> QED BY <2>2, <3>1, <3>2, <3>3 DEF ServerStep
  <2>3. CASE ClientStep
    <3>1. CASE ClientP \/ ClientV
      BY <3>1, <2>0 DEF ClientP, ClientV, semaphore_P, semaphore_V
    <3>2. CASE InitSem("client", "producer", "shmget") \/ ShmGet("client")
               \/ ShmAttach("client", "V") \/ Exit("client")
      BY <3>2, <2>u DEF InitSem, ShmGet, ShmAttach, Exit
    <3>3. CASE PrintLine \/ TestEnd
      BY <3>3, <2>u DEF PrintLine, TestEnd
    <3>4. CASE RemoveSem("producer", "rmid producer", "rmid consumer")
               \/ RemoveSem("consumer", "rmid consumer", "exit")
      BY <3>4, <2>u DEF RemoveSem
    <3> QED BY <2>3, <3>1, <3>2, <3>3, <3>4 DEF ClientStep
  <2>4. CASE UNCHANGED vars
    BY <2>4 DEF vars
  <2> QED BY <2>1, <2>2, <2>3, <2>4 DEF Next
<1>2. ASSUME NEW p \in Programs, NEW from, NEW to, Goto(p, from, to),
             p = "server" => from \notin {"exit", "done"} \/ to \in {"exit", "done"}
      PROVE  pc["server"] \notin {"exit", "done"}
  BY <1>2, <1>t, TwoPrograms DEF Goto, Counting
<1>3. pc["server"] \notin {"exit", "done"}
  <2>1. CASE \E p \in Programs : Start(p)
    BY <2>1, <1>2 DEF Start, InitSem
  <2>2. CASE ServerStep
    <3>1. CASE InitSem("server", "producer", "shmget") \/ ShmGet("server")
               \/ ShmAttach("server", "fgets") \/ Exit("server")
      BY <3>1, <1>2, TwoPrograms DEF InitSem, ShmGet, ShmAttach, Exit
    <3>2. CASE FgetsLine \/ ServerP \/ SprintfBegin \/ SprintfEnd \/ ServerV \/ RemoveSegment
      BY <3>2, <1>2, TwoPrograms
         DEF FgetsLine, ServerP, SprintfBegin, SprintfEnd, ServerV, RemoveSegment
    <3> QED BY <2>2, <3>1, <3>2 DEF ServerStep
  <2>3. CASE ClientStep
    BY <2>3, <1>2, TwoPrograms
       DEF ClientStep, InitSem, ShmGet, ShmAttach, Exit, ClientV, ClientP, PrintLine, TestEnd,
           RemoveSem
  <2>4. CASE UNCHANGED vars
    BY <2>4 DEF vars, Counting
  <2> QED BY <2>1, <2>2, <2>3, <2>4 DEF Next
<1> QED BY <1>1, <1>3 DEF Counting

(* The counts are numbers, and near to each other.                          *)
LEMMA Counts ==
  ASSUME ChatTypeInv, BeforeLoop
  PROVE  /\ readbuf.n \in Nat /\ readbuf.n <= MaxLines /\ shown \in Nat /\ shown <= MaxShown
         /\ sem["consumer"].val \in Nat /\ sem["producer"].val \in Nat
         /\ ServerPs \in Nat /\ ServerVs \in Nat /\ ClientVs \in Nat /\ ClientPs \in Nat
         /\ ServerVs <= ServerPs /\ ServerPs <= readbuf.n /\ readbuf.n <= ServerPs + 1
         /\ readbuf.n <= ServerVs + 1
         /\ shown <= ClientPs /\ ClientPs <= ClientVs /\ ClientVs <= shown + 1
         /\ ClientVs <= ClientPs + 1
<1>1. readbuf \in LineType /\ shown \in 0 .. MaxShown /\ sem \in [Names -> SemType]
  BY DEF ChatTypeInv, TypeOK
<1>2. readbuf.n \in 0 .. MaxLines
  BY <1>1 DEF LineType
<1>3. readbuf.n \in Nat /\ readbuf.n <= MaxLines /\ shown \in Nat /\ shown <= MaxShown
  BY <1>1, <1>2, ChatNumbers
<1>4. sem["consumer"].val \in Nat /\ sem["producer"].val \in Nat
  BY <1>1, Debts, TwoPrograms
<1>5. pc["server"] \in {"P", "sprintf", "copying", "V"} => readbuf.n >= 1
  BY DEF BeforeLoop
<1>6. /\ ServerPs \in Nat /\ ServerVs \in Nat /\ ServerVs <= ServerPs /\ ServerPs <= readbuf.n
      /\ readbuf.n <= ServerPs + 1 /\ readbuf.n <= ServerVs + 1
  BY <1>3, <1>5 DEF ServerPs, ServerVs
<1>7. /\ ClientVs \in Nat /\ ClientPs \in Nat /\ shown <= ClientPs
      /\ ClientPs <= ClientVs /\ ClientVs <= shown + 1
      /\ ClientVs <= ClientPs + 1
  BY <1>3 DEF ClientVs, ClientPs
<1> QED BY <1>3, <1>4, <1>6, <1>7

(* What the counts say of the two programs.                                 *)
LEMMA NearEachOther ==
  ASSUME ChatTypeInv, BeforeLoop, ConsumerCounts, ProducerCounts, pc["client"] \notin Leaving,
         Ready("server"), Ready("client")
  PROVE  readbuf.n - shown \in -2 .. 4
<1>1. ConsumerKept \in -1 .. 2 /\ ProducerKept \in -1 .. 2
  BY DEF ConsumerCounts, ProducerCounts, Ready
<1> HIDE DEF ConsumerKept, ProducerKept
<1>2. /\ ConsumerKept = sem["consumer"].val + ServerPs - ClientVs
      /\ ProducerKept = sem["producer"].val - ServerVs + ClientPs
  BY DEF ConsumerKept, ProducerKept
<1>3. /\ readbuf.n \in Nat /\ shown \in Nat
      /\ sem["consumer"].val \in Nat /\ sem["producer"].val \in Nat
      /\ ServerPs \in Nat /\ ServerVs \in Nat /\ ClientVs \in Nat /\ ClientPs \in Nat
      /\ ServerVs <= readbuf.n /\ readbuf.n <= ServerPs + 1 /\ shown <= ClientPs
      /\ ClientVs <= shown + 1
  BY Counts
<1>4. ServerPs <= shown + 3
  BY <1>1, <1>2, <1>3
<1>5. ClientPs <= readbuf.n + 2
  BY <1>1, <1>2, <1>3
<1> QED BY <1>3, <1>4, <1>5

(* The client leaves the loop: what it leaves behind bounds what the server *)
(* can still do.                                                            *)
LEMMA ClientLeaves ==
  ASSUME ChatTypeInv, BeforeLoop, ConsumerCounts, ProducerCounts,
         pc["client"] = "test", pc'["client"] \notin {"P", "printf", "exit", "done"},
         pc'["server"] = pc["server"], pc["server"] \notin Starting,
         UNCHANGED <<sem, readbuf, shown>>
  PROVE  Frozen'
<1>1. Ready("server") /\ Ready("client") /\ pc["client"] \notin Leaving
  BY DEF Ready, Starting, Leaving
<1>2. readbuf.n - shown \in -2 .. 4
  BY <1>1, NearEachOther
<1>3. ConsumerKept \in -1 .. 2
  BY <1>1 DEF ConsumerCounts, Ready
<1>4. /\ readbuf.n \in Nat /\ shown \in Nat /\ sem["consumer"].val \in Nat /\ ServerPs \in Nat
  BY Counts
<1>5. ServerPs' = ServerPs
  BY DEF ServerPs
<1>6. ClientVs = shown /\ ClientVs' = shown
  BY <1>4 DEF ClientVs
<1>7. ConsumerKept' = ConsumerKept
  BY <1>5, <1>6 DEF ConsumerKept
<1>8. ConsumerKept = sem["consumer"].val + ServerPs - shown
  BY <1>6 DEF ConsumerKept
<1>9. ServerPs' <= shown' + 2 /\ ConsumerKept' <= 2
  <2> HIDE DEF ConsumerKept
  <2> QED BY <1>3, <1>4, <1>5, <1>7, <1>8
<1>10. shown' - 2 <= readbuf'.n
  BY <1>2, <1>4
<1> QED BY <1>9, <1>10 DEF Frozen

(* While the server runs, the segment a program has is there to attach to.  *)
LEMMA Attaches ==
  ASSUME Counting, SameSegment, NEW p \in Programs, pc[p] = "shmat"
  PROVE  Lives(shmid[p])
<1>1. Has(p) = 1
  BY DEF Has
<1> QED BY <1>1 DEF SameSegment, Lives

(* KeepInv is inductive; the bound on `shown' is not reached.               *)
LEMMA KeepInductive ==
  ASSUME MaxShown >= MaxLines + 2, ChatTypeInv, EndInv, KeepInv, [Next]_vars
  PROVE  KeepInv'
<1> SUFFICES ASSUME Counting'
             PROVE  SameSegment' /\ BeforeLoop' /\ Frozen' /\ ConsumerCounts' /\ ProducerCounts'
  BY DEF KeepInv
<1> DEFINE Goal == SameSegment /\ BeforeLoop /\ Frozen /\ ConsumerCounts /\ ProducerCounts
<1>a. Counting /\ distinctKeys' = distinctKeys /\ ~complained' /\ distinctKeys
  BY CountingBefore DEF Counting
<1>i. SameSegment /\ BeforeLoop /\ Frozen /\ ConsumerCounts /\ ProducerCounts
  BY <1>a DEF KeepInv
<1>t. pc \in [Programs -> Places21] /\ sem \in [Names -> SemType]
      /\ shmid \in [Programs -> 0 .. segments] /\ segments \in 0 .. 2
      /\ pc["server"] \notin {"printf", "test", "rmid producer", "rmid consumer"}
  BY DEF ChatTypeInv, TypeOK
<1>e. /\ pc["server"] \notin {"exit", "done"} /\ pc'["server"] \notin {"exit", "done"}
  BY <1>a DEF Counting
<1>n. /\ readbuf.n \in Nat /\ readbuf.n <= MaxLines /\ shown \in Nat
      /\ sem["consumer"].val \in Nat /\ sem["producer"].val \in Nat
      /\ ServerPs \in Nat /\ ServerVs \in Nat /\ ClientVs \in Nat /\ ClientPs \in Nat
      /\ ServerVs <= ServerPs /\ ServerPs <= readbuf.n /\ shown <= ClientPs /\ ClientPs <= ClientVs
      /\ ClientVs <= ClientPs + 1
  BY <1>i, Counts
<1>b. /\ pc["server"] \in Starting => readbuf.n = 0
      /\ pc["server"] \in {"P", "sprintf", "copying", "V"} => readbuf.n >= 1
      /\ pc["client"] \in Starting => shown = 0
  BY <1>i DEF BeforeLoop
<1>q. \A name \in Names : Sem(name) = name
  BY <1>a DEF Sem
<1>z. \A p \in Programs : \A from, to : Goto(p, from, to) =>
        /\ pc[p] = from /\ pc'[p] = to /\ \A q \in Programs : q # p => pc'[q] = pc[q]
  BY <1>t DEF Goto
<1>v. "V" \notin Leaving /\ "P" \notin Leaving /\ "printf" \notin Leaving /\ "test" \notin Leaving
  BY DEF Leaving
(* A step that does not concern the segment.                                *)
<1>m. ASSUME NEW p \in Programs, NEW from, NEW to, Goto(p, from, to),
             UNCHANGED <<found, shmid, segments>>,
             from \in {"consumer", "producer", "shmget"}
               <=> to \in {"consumer", "producer", "shmget"}
      PROVE  SameSegment'
  <2>1. \A q \in Programs : Has(q)' = Has(q)
    BY <1>m, <1>z DEF Has
  <2> QED BY <2>1, <1>m, <1>i DEF SameSegment
(* A step that keeps what the semaphores hold besides the counts.           *)
<1>k. ASSUME NEW p \in Programs, NEW from, NEW to, Goto(p, from, to),
             from \notin {"consumer", "producer"}, to \notin {"consumer", "producer"},
             p = "client" => from \notin Leaving /\ to \notin Leaving,
             ConsumerKept' = ConsumerKept, ProducerKept' = ProducerKept,
             p = "server" =>
               /\ shown' = shown /\ readbuf'.n >= readbuf.n /\ readbuf'.n \in Nat
               /\ to \in Starting => from \in Starting
               /\ \/ ServerPs' = ServerPs /\ sem'["consumer"] = sem["consumer"]
                  \/ /\ sem["consumer"].exists /\ sem'["consumer"].val \in Nat
                     /\ ServerPs' \in Nat
      PROVE  Frozen' /\ ConsumerCounts' /\ ProducerCounts'
  <2>1. pc[p] = from /\ pc'[p] = to /\ \A q \in Programs : q # p => pc'[q] = pc[q]
    BY <1>k, <1>z
  <2>2. \A q \in Programs : (pc'[q] = "consumer" <=> pc[q] = "consumer") /\ (Ready(q)' <=> Ready(q))
    BY <2>1, <1>k DEF Ready
  <2>3. pc'["client"] \in Leaving <=> pc["client"] \in Leaving
    BY <2>1, <1>k, TwoPrograms
  <2>4. Frozen'
    <3> SUFFICES ASSUME pc'["client"] \in Leaving PROVE Frozen'
      BY DEF Frozen
    <3>1. /\ p = "server" /\ pc'["client"] = pc["client"] /\ pc["client"] \in Leaving
          /\ pc["server"] \notin Starting /\ pc'["server"] \notin Starting
      BY <2>1, <2>3, <1>k, <1>i, TwoPrograms DEF Frozen
    <3>2. shown' - 2 <= readbuf'.n
      BY <3>1, <1>k, <1>i, <1>n DEF Frozen
    <3>3. CASE ServerPs' = ServerPs /\ sem'["consumer"] = sem["consumer"]
      BY <3>1, <3>2, <3>3, <1>k, <1>i DEF Frozen
    <3>4. CASE /\ sem["consumer"].exists /\ sem'["consumer"].val \in Nat /\ ServerPs' \in Nat
      <4>1. pc["client"] \notin {"exit", "done"} /\ ConsumerKept' <= 2
        BY <3>1, <3>4, <1>k, <1>i DEF Frozen
      <4>2. ClientVs' = shown'
        BY <3>1, <1>k, <1>n, <1>v DEF ClientVs
      <4>3. ConsumerKept' = sem'["consumer"].val + ServerPs' - shown'
        BY <4>2 DEF ConsumerKept
      <4>4. ServerPs' <= shown' + 2
        BY <4>1, <4>3, <3>1, <3>4, <1>k, <1>n
      <4> QED BY <3>1, <3>2, <4>1, <4>4 DEF Frozen
    <3> QED BY <3>1, <3>3, <3>4, <1>k
  <2>5. ConsumerCounts'
    BY <2>2, <2>3, <1>k, <1>i, TwoPrograms DEF ConsumerCounts
  <2>6. ProducerCounts'
    BY <2>2, <2>3, <1>k, <1>i, TwoPrograms DEF ProducerCounts
  <2> QED BY <2>4, <2>5, <2>6
(* Before and in the middle of the loop.                                    *)
<1>g. ASSUME NEW p \in Programs, NEW from, NEW to, Goto(p, from, to),
             p = "server" => /\ to \in Starting => readbuf'.n = 0
                             /\ to \in {"P", "sprintf", "copying", "V"} => readbuf'.n >= 1
                             /\ shown' = shown,
             p = "client" => (to \in Starting => shown' = 0) /\ readbuf' = readbuf
      PROVE  BeforeLoop'
  <2>1. pc[p] = from /\ pc'[p] = to /\ \A q \in Programs : q # p => pc'[q] = pc[q]
    BY <1>g, <1>z
  <2>2. CASE p = "server"
    BY <2>1, <2>2, <1>g, <1>b, TwoPrograms DEF BeforeLoop
  <2>3. CASE p = "client"
    BY <2>1, <2>3, <1>g, <1>b, TwoPrograms DEF BeforeLoop
  <2> QED BY <2>2, <2>3, TwoPrograms
(* The counts that a program at its start has.                              *)
<1>c. /\ pc["server"] \in Starting => ServerPs = 0 /\ ServerVs = 0
      /\ pc["client"] \in Starting => ClientVs = 0 /\ ClientPs = 0
  <2>1. pc["server"] \in Starting => ServerPs = readbuf.n /\ ServerVs = readbuf.n
    BY <1>n DEF ServerPs, ServerVs, Starting
  <2>2. pc["client"] \in Starting => ClientVs = shown /\ ClientPs = shown
    BY <1>n DEF ClientVs, ClientPs, Starting
  <2> QED BY <2>1, <2>2, <1>b
<1>1. ASSUME NEW p \in Programs, NEW name \in Names, NEW to, InitSem(p, name, to),
             (name = "consumer" /\ to = "producer") \/ (name = "producer" /\ to = "shmget")
      PROVE  Goal'
  <2>1. Goto(p, name, to) /\ UNCHANGED <<found, shmid, segments, readbuf, shown>>
    BY <1>1 DEF InitSem, shm
  <2>2. pc[p] = name /\ pc'[p] = to /\ \A q \in Programs : q # p => pc'[q] = pc[q]
    BY <2>1, <1>z
  <2>3. name \in Starting /\ to \in Starting /\ to \notin Leaving
    BY <1>1 DEF Starting, Leaving
  <2>4. SameSegment'
    BY <2>1, <1>1, <1>m
  <2>5. BeforeLoop'
    <3>1. to \notin {"P", "sprintf", "copying", "V"} /\ readbuf' = readbuf /\ shown' = shown
      BY <1>1, <2>1
    <3>2. (p = "server" => readbuf'.n = 0) /\ (p = "client" => shown' = 0)
      BY <3>1, <2>2, <2>3, <1>b
    <3> QED BY <2>1, <3>1, <3>2, <1>g
  <2>6. pc["client"] \notin Leaving /\ pc'["client"] \notin Leaving
    <3>1. CASE p = "server"
      BY <3>1, <2>2, <2>3, <1>i, TwoPrograms DEF Frozen
    <3>2. CASE p = "client"
      BY <3>2, <2>2, <1>1 DEF Leaving
    <3> QED BY <3>1, <3>2, TwoPrograms
  <2>7. /\ ServerPs' = ServerPs /\ ServerVs' = ServerVs
        /\ ClientVs' = ClientVs /\ ClientPs' = ClientPs
    <3>1. \A there \in {"P", "sprintf", "copying", "V", "printf"}, q \in Programs :
            pc'[q] = there <=> pc[q] = there
      BY <2>2, <1>1
    <3> QED BY <3>1, <2>1, TwoPrograms DEF ServerPs, ServerVs, ClientVs, ClientPs
  <2>8. sem'[name].val = 1 /\ \A t \in Names : t # name => sem'[t] = sem[t]
    <3>1. sem' = [sem EXCEPT ![name] = [exists |-> TRUE, val |-> 1, adj |-> [q \in Programs |-> 0]]]
      BY <1>1, <1>q DEF InitSem
    <3> QED BY <3>1, <1>t
  <2>9. /\ p = "server" => ServerPs = 0 /\ ServerVs = 0
        /\ p = "client" => ClientVs = 0 /\ ClientPs = 0
    BY <2>2, <2>3, <1>c
  <2>10. ~Ready("client") => ClientPs = 0 /\ ClientVs = 0
    BY <1>c DEF Ready, Starting
  <2>11. ~Ready("server") => ServerPs = 0 /\ ServerVs = 0
    BY <1>c DEF Ready, Starting
  <2>12. ConsumerKept = sem["consumer"].val + ServerPs - ClientVs
         /\ ProducerKept = sem["producer"].val - ServerVs + ClientPs
         /\ ConsumerKept' = sem'["consumer"].val + ServerPs - ClientVs
         /\ ProducerKept' = sem'["producer"].val - ServerVs + ClientPs
    BY <2>7 DEF ConsumerKept, ProducerKept
  <2> HIDE DEF ConsumerKept, ProducerKept
  <2>13. CASE name = "consumer" /\ to = "producer"
    <3>1. sem'["consumer"].val = 1 /\ sem'["producer"] = sem["producer"]
      BY <2>13, <2>8, TwoPrograms
    <3>2. \A q \in Programs : Ready(q)' <=> Ready(q)
      BY <2>2, <2>13 DEF Ready
    <3>3. ProducerCounts'
      BY <3>1, <3>2, <2>6, <2>12, <1>i, TwoPrograms DEF ProducerCounts
    <3>4. CASE p = "server"
      <4>1. ~Ready("server") /\ ServerPs = 0 /\ ServerVs = 0 /\ pc'["server"] # "consumer"
            /\ pc'["client"] = pc["client"]
        BY <3>4, <2>2, <2>9, <2>13, TwoPrograms DEF Ready
      <4>2. ClientVs <= 2
        <5>1. CASE Ready("client")
          <6>1. ProducerKept = 1
            BY <4>1, <5>1, <2>6, <1>i DEF ProducerCounts
          <6>2. ClientPs <= 1
            BY <6>1, <4>1, <2>12, <1>n
          <6> QED BY <6>2, <1>n
        <5>2. CASE ~Ready("client")
          BY <5>2, <2>10
        <5> QED BY <5>1, <5>2
      <4>3. ConsumerKept' = 1 - ClientVs
        BY <3>1, <4>1, <2>12, <1>n
      <4>4. pc["client"] = "consumer" => ClientVs = 0
        BY <2>10 DEF Ready
      <4>5. ConsumerKept' \in -1 .. 2 /\ (pc["client"] = "consumer" => ConsumerKept' = 1)
        BY <4>2, <4>3, <4>4, <1>n
      <4>6. ConsumerCounts'
        BY <4>1, <4>5 DEF ConsumerCounts
      <4> QED BY <2>4, <2>5, <2>6, <3>3, <4>6 DEF Frozen
    <3>5. CASE p = "client"
      <4>1. pc["client"] = "consumer" /\ ClientVs = 0 /\ pc'["client"] # "consumer"
            /\ pc'["server"] = pc["server"]
        BY <3>5, <2>2, <2>9, <2>13, TwoPrograms
      <4>2. ServerPs <= 1 /\ (pc["server"] = "consumer" => ServerPs = 0)
        <5>1. CASE pc["server"] = "consumer"
          BY <5>1, <2>11 DEF Ready
        <5>2. CASE pc["server"] # "consumer"
          <6>1. ConsumerKept = 1
            BY <4>1, <5>2, <2>6, <1>i DEF ConsumerCounts
          <6> QED BY <5>2, <6>1, <4>1, <2>12, <1>n
        <5> QED BY <5>1, <5>2
      <4>3. ConsumerKept' = 1 + ServerPs
        BY <3>1, <4>1, <2>12, <1>n
      <4>4. ConsumerKept' \in -1 .. 2 /\ (pc["server"] = "consumer" => ConsumerKept' = 1)
        BY <4>2, <4>3, <1>n
      <4>5. ConsumerCounts'
        BY <4>1, <4>4 DEF ConsumerCounts
      <4> QED BY <2>4, <2>5, <2>6, <3>3, <4>5 DEF Frozen
    <3> QED BY <3>4, <3>5, TwoPrograms
  <2>14. CASE name = "producer" /\ to = "shmget"
    <3>1. sem'["producer"].val = 1 /\ sem'["consumer"] = sem["consumer"]
      BY <2>14, <2>8, TwoPrograms
    <3>2. \A q \in Programs : pc'[q] = "consumer" <=> pc[q] = "consumer"
      BY <2>2, <2>14
    <3>3. ConsumerCounts'
      BY <3>1, <3>2, <2>6, <2>12, <1>i, TwoPrograms DEF ConsumerCounts
    <3>4. CASE p = "server"
      <4>1. ~Ready("server") /\ ServerVs = 0 /\ Ready("server")'
            /\ (Ready("client")' <=> Ready("client"))
        BY <3>4, <2>2, <2>9, <2>14, TwoPrograms DEF Ready
      <4>2. ClientPs <= 1 /\ (~Ready("client") => ClientPs = 0)
        <5>1. CASE Ready("client")
          <6>1. ProducerKept = 1
            BY <4>1, <5>1, <2>6, <1>i DEF ProducerCounts
          <6> QED BY <5>1, <6>1, <4>1, <2>12, <1>n
        <5>2. CASE ~Ready("client")
          BY <5>2, <2>10
        <5> QED BY <5>1, <5>2
      <4>3. ProducerKept' = 1 + ClientPs
        BY <3>1, <4>1, <2>12, <1>n
      <4>4. ProducerKept' \in -1 .. 2 /\ (~Ready("client") => ProducerKept' = 1)
        BY <4>2, <4>3, <1>n
      <4>5. ProducerCounts'
        BY <4>1, <4>4 DEF ProducerCounts
      <4> QED BY <2>4, <2>5, <2>6, <3>3, <4>5 DEF Frozen
    <3>5. CASE p = "client"
      <4>1. pc["client"] # "consumer" /\ ClientPs = 0 /\ ClientVs = 0 /\ Ready("client")'
            /\ (Ready("server")' <=> Ready("server"))
        BY <3>5, <2>2, <2>9, <2>14, TwoPrograms DEF Ready
      <4>2. ServerVs <= 2 /\ (~Ready("server") => ServerVs = 0)
        <5>1. CASE Ready("server")
          <6>1. ConsumerKept \in -1 .. 2
            BY <4>1, <5>1, <2>6, <1>i DEF ConsumerCounts, Ready
          <6>2. ServerPs <= 2
            BY <6>1, <4>1, <2>12, <1>n
          <6> QED BY <5>1, <6>2, <1>n
        <5>2. CASE ~Ready("server")
          BY <5>2, <2>11
        <5> QED BY <5>1, <5>2
      <4>3. ProducerKept' = 1 - ServerVs
        BY <3>1, <4>1, <2>12, <1>n
      <4>4. ProducerKept' \in -1 .. 2 /\ (~Ready("server") => ProducerKept' = 1)
        BY <4>2, <4>3, <1>n
      <4>5. ProducerCounts'
        BY <4>1, <4>4 DEF ProducerCounts
      <4> QED BY <2>4, <2>5, <2>6, <3>3, <4>5 DEF Frozen
    <3> QED BY <3>4, <3>5, TwoPrograms
  <2> QED BY <2>13, <2>14, <1>1
(* A step that leaves the semaphores and the segment alone.                 *)
<1>u. ASSUME NEW p \in Programs, NEW from, NEW to, Goto(p, from, to),
             UNCHANGED <<sem, readbuf, shown>>,
             from \notin {"consumer", "producer"}, to \notin {"consumer", "producer"},
             p = "client" => from \notin Leaving /\ to \notin Leaving,
             from # "P" /\ to # "P" /\ from # "printf" /\ to # "printf",
             p = "server" => (from \in {"sprintf", "copying", "V"}
                                <=> to \in {"sprintf", "copying", "V"}),
             to \in Starting => from \in Starting
      PROVE  BeforeLoop' /\ Frozen' /\ ConsumerCounts' /\ ProducerCounts'
  <2>1. pc[p] = from /\ pc'[p] = to /\ \A q \in Programs : q # p => pc'[q] = pc[q]
    BY <1>u, <1>z
  <2>2. /\ pc'["server"] = "P" <=> pc["server"] = "P"
        /\ pc'["server"] \in {"P", "sprintf", "copying", "V"}
             <=> pc["server"] \in {"P", "sprintf", "copying", "V"}
        /\ pc'["client"] = "P" <=> pc["client"] = "P"
        /\ pc'["client"] = "printf" <=> pc["client"] = "printf"
    BY <2>1, <1>u, TwoPrograms
  <2>3. ServerPs' = ServerPs /\ ServerVs' = ServerVs /\ ClientVs' = ClientVs /\ ClientPs' = ClientPs
    BY <2>2, <1>u DEF ServerPs, ServerVs, ClientVs, ClientPs
  <2>4. ConsumerKept' = ConsumerKept /\ ProducerKept' = ProducerKept
    BY <2>3, <1>u DEF ConsumerKept, ProducerKept
  <2>5. BeforeLoop'
    <3>1. pc'["server"] \in Starting => pc["server"] \in Starting
      BY <2>1, <1>u, TwoPrograms
    <3>2. pc'["client"] \in Starting => pc["client"] \in Starting
      BY <2>1, <1>u, TwoPrograms
    <3> QED BY <3>1, <3>2, <2>2, <1>u, <1>b DEF BeforeLoop
  <2>6. Frozen' /\ ConsumerCounts' /\ ProducerCounts'
    BY <2>3, <2>4, <1>u, <1>n, <1>k
  <2> QED BY <2>5, <2>6
<1>2. ASSUME NEW p \in Programs, ShmGet(p) PROVE Goal'
  <2>1. /\ Goto(p, "shmget", "shmat") /\ UNCHANGED <<sem, readbuf, shown>> /\ found' = TRUE
        /\ segments' = IF found THEN segments ELSE segments + 1
        /\ shmid' = [shmid EXCEPT ![p] = segments']
    BY <1>2 DEF ShmGet
  <2>2. pc[p] = "shmget" /\ pc'[p] = "shmat" /\ \A q \in Programs : q # p => pc'[q] = pc[q]
    BY <2>1, <1>z
  <2>3. \A q \in Programs : q # p => Has(q)' = Has(q)
    BY <2>2 DEF Has
  <2>4. SameSegment'
    <3>1. ASSUME NEW q \in Programs, Has(q)' = 1 PROVE found' /\ shmid'[q] = segments'
      <4>1. CASE q = p
        BY <4>1, <2>1, <1>t
      <4>2. CASE q # p
        <5>1. found /\ shmid[q] = segments
          BY <4>2, <3>1, <2>3, <1>i DEF SameSegment
        <5> QED BY <4>2, <5>1, <2>1, <1>t
      <4> QED BY <4>1, <4>2
    <3> QED BY <3>1 DEF SameSegment
  <2>5. BeforeLoop' /\ Frozen' /\ ConsumerCounts' /\ ProducerCounts'
    BY <2>1, <1>u DEF Starting, Leaving
  <2> QED BY <2>4, <2>5
<1>3. ASSUME NEW p \in Programs, NEW to \in {"fgets", "V"}, ShmAttach(p, to),
             p = "server" => to = "fgets"
      PROVE  Goal'
  <2>1. pc[p] = "shmat"
    BY <1>3, <1>z DEF ShmAttach
  <2>2. Lives(shmid[p])
    BY <2>1, <1>a, <1>i, Attaches
  <2>3. Goto(p, "shmat", to) /\ UNCHANGED <<found, shmid, segments, sem, readbuf, shown>>
    BY <1>3, <2>2 DEF ShmAttach, shm
  <2>4. SameSegment'
    BY <2>3, <1>3, <1>m
  <2>5. BeforeLoop' /\ Frozen' /\ ConsumerCounts' /\ ProducerCounts'
    BY <2>3, <1>3, <1>u DEF Starting, Leaving
  <2> QED BY <2>4, <2>5
<1>4. CASE FgetsLine
  <2>1. /\ Goto("server", "fgets", "P") /\ UNCHANGED <<found, shmid, segments, sem, shown>>
        /\ readbuf'.n = readbuf.n + 1
    BY <1>4 DEF FgetsLine, shm, Line
  <2>2. pc["server"] = "fgets" /\ pc'["server"] = "P" /\ pc'["client"] = pc["client"]
    BY <2>1, <1>z, TwoPrograms
  <2>3. ServerPs' = ServerPs /\ ServerVs' = ServerVs /\ ClientVs' = ClientVs /\ ClientPs' = ClientPs
    BY <2>1, <2>2, <1>n DEF ServerPs, ServerVs, ClientVs, ClientPs
  <2>4. ConsumerKept' = ConsumerKept /\ ProducerKept' = ProducerKept
    BY <2>1, <2>3 DEF ConsumerKept, ProducerKept
  <2>5. readbuf'.n >= 1
    BY <2>1, <1>n
  <2>6. BeforeLoop'
    BY <2>1, <2>5, <1>g, TwoPrograms DEF Starting
  <2>7. SameSegment'
    BY <2>1, <1>m, TwoPrograms
  <2>8. readbuf'.n \in Nat /\ readbuf'.n >= readbuf.n
    BY <2>1, <1>n
  <2> QED BY <2>1, <2>2, <2>3, <2>4, <2>6, <2>7, <2>8, <1>k, TwoPrograms DEF Starting
<1>5. CASE SprintfBegin \/ SprintfEnd
  <2>1. PICK from \in {"sprintf", "copying"}, to \in {"copying", "V"} :
          Goto("server", from, to) /\ UNCHANGED <<found, shmid, segments, sem, readbuf, shown>>
    BY <1>5 DEF SprintfBegin, SprintfEnd
  <2>2. SameSegment'
    BY <2>1, <1>m, TwoPrograms
  <2> QED BY <2>1, <2>2, <1>u, TwoPrograms DEF Starting
<1>6. CASE RemoveSegment
  BY <1>6, <1>e, <1>z, TwoPrograms DEF RemoveSegment
(* A semop works, as nobody complains of it.                                *)
<1>o. ASSUME NEW p \in Programs, NEW name \in Names, NEW op \in {-1, 1}, Semop(p, name, op)
      PROVE  /\ sem[name].exists /\ sem'[name].val = sem[name].val + op
             /\ \A t \in Names : t # name => sem'[t] = sem[t]
  <2>1. ~Fails(p, Sem(name), op)
    BY <1>o, <1>a DEF Semop
  <2>2. Sem(name) = name /\ sem \in [Names -> SemType]
    BY <1>q, <1>t
  <2>4. sem[name].exists
    BY <2>1, <2>2 DEF Fails
  <2>3. /\ \A t \in Names : t # Sem(name) => sem'[t] = sem[t]
        /\ sem'[Sem(name)].val = sem[Sem(name)].val + op
    BY <2>1, <2>2, <1>o, SemopEffect
  <2> QED BY <2>2, <2>3, <2>4
<1>7. CASE ServerP
  <2>1. /\ Goto("server", "P", "sprintf") /\ UNCHANGED <<found, shmid, segments, readbuf, shown>>
        /\ Semop("server", "consumer", -1)
    BY <1>7 DEF ServerP, semaphore_P, shm
  <2>2. pc["server"] = "P" /\ pc'["server"] = "sprintf" /\ pc'["client"] = pc["client"]
    BY <2>1, <1>z, TwoPrograms
  <2>3. /\ sem["consumer"].exists /\ sem'["consumer"].val = sem["consumer"].val - 1
        /\ sem'["producer"] = sem["producer"]
    BY <2>1, <1>o, <1>n, TwoPrograms
  <2>4. /\ ServerPs' = ServerPs + 1 /\ ServerVs' = ServerVs
        /\ ClientVs' = ClientVs /\ ClientPs' = ClientPs
    BY <2>1, <2>2, <1>n DEF ServerPs, ServerVs, ClientVs, ClientPs
  <2>5. ConsumerKept' = ConsumerKept
    BY <2>3, <2>4, <1>n DEF ConsumerKept
  <2>6. ProducerKept' = ProducerKept
    BY <2>3, <2>4 DEF ProducerKept
  <2>7. BeforeLoop'
    BY <2>1, <2>2, <1>b, <1>g, TwoPrograms DEF Starting
  <2>8. SameSegment'
    BY <2>1, <1>m, TwoPrograms
  <2>9. sem'["consumer"].val \in Nat /\ ServerPs' \in Nat
    <3>1. sem' \in [Names -> SemType]
      BY <2>1, <1>t, SemopEffect, TwoPrograms
    <3> QED BY <3>1, <2>4, <1>n, Debts, SemFields, TwoPrograms
  <2> QED BY <2>1, <2>3, <2>5, <2>6, <2>7, <2>8, <2>9, <1>n, <1>k, TwoPrograms DEF Starting
<1>8. CASE ServerV
  <2>1. PICK to \in {"remove", "fgets"} :
          /\ Goto("server", "V", to) /\ UNCHANGED <<found, shmid, segments, readbuf, shown>>
          /\ Semop("server", "producer", 1)
    BY <1>8 DEF ServerV, semaphore_V, shm
  <2>2. pc["server"] = "V" /\ pc'["server"] = to /\ pc'["client"] = pc["client"]
    BY <2>1, <1>z, TwoPrograms
  <2>3. sem'["producer"].val = sem["producer"].val + 1 /\ sem'["consumer"] = sem["consumer"]
    BY <2>1, <1>o, <1>n, TwoPrograms
  <2>4. /\ ServerPs' = ServerPs /\ ServerVs' = ServerVs + 1
        /\ ClientVs' = ClientVs /\ ClientPs' = ClientPs
    BY <2>1, <2>2, <1>n DEF ServerPs, ServerVs, ClientVs, ClientPs
  <2>5. ConsumerKept' = ConsumerKept
    BY <2>3, <2>4 DEF ConsumerKept
  <2>6. ProducerKept' = ProducerKept
    BY <2>3, <2>4, <1>n DEF ProducerKept
  <2>7. BeforeLoop'
    BY <2>1, <2>2, <1>b, <1>g, TwoPrograms DEF Starting
  <2>8. SameSegment'
    BY <2>1, <1>m, TwoPrograms
  <2> QED BY <2>1, <2>3, <2>4, <2>5, <2>6, <2>7, <2>8, <1>n, <1>k, TwoPrograms DEF Starting
<1>9. CASE ClientV
  <2>1. /\ Goto("client", "V", "P") /\ UNCHANGED <<found, shmid, segments, readbuf, shown>>
        /\ Semop("client", "consumer", 1)
    BY <1>9 DEF ClientV, semaphore_V, shm
  <2>2. pc["client"] = "V" /\ pc'["client"] = "P" /\ pc'["server"] = pc["server"]
    BY <2>1, <1>z, TwoPrograms
  <2>3. sem'["consumer"].val = sem["consumer"].val + 1 /\ sem'["producer"] = sem["producer"]
    BY <2>1, <1>o, <1>n, TwoPrograms
  <2>4. /\ ServerPs' = ServerPs /\ ServerVs' = ServerVs
        /\ ClientVs' = ClientVs + 1 /\ ClientPs' = ClientPs
    BY <2>1, <2>2, <1>n DEF ServerPs, ServerVs, ClientVs, ClientPs
  <2>5. ConsumerKept' = ConsumerKept
    BY <2>3, <2>4, <1>n DEF ConsumerKept
  <2>6. ProducerKept' = ProducerKept
    BY <2>3, <2>4 DEF ProducerKept
  <2>7. BeforeLoop'
    BY <2>1, <1>g, TwoPrograms DEF Starting
  <2>8. SameSegment'
    BY <2>1, <1>m, TwoPrograms
  <2> QED BY <2>1, <2>5, <2>6, <2>7, <2>8, <1>k, <1>v, TwoPrograms
<1>10. CASE ClientP
  <2>1. /\ Goto("client", "P", "printf") /\ UNCHANGED <<found, shmid, segments, readbuf, shown>>
        /\ Semop("client", "producer", -1)
    BY <1>10 DEF ClientP, semaphore_P, shm
  <2>2. pc["client"] = "P" /\ pc'["client"] = "printf" /\ pc'["server"] = pc["server"]
    BY <2>1, <1>z, TwoPrograms
  <2>3. sem'["producer"].val = sem["producer"].val - 1 /\ sem'["consumer"] = sem["consumer"]
    BY <2>1, <1>o, <1>n, TwoPrograms
  <2>4. /\ ServerPs' = ServerPs /\ ServerVs' = ServerVs
        /\ ClientVs' = ClientVs /\ ClientPs' = ClientPs + 1
    BY <2>1, <2>2, <1>n DEF ServerPs, ServerVs, ClientVs, ClientPs
  <2>5. ConsumerKept' = ConsumerKept
    BY <2>3, <2>4 DEF ConsumerKept
  <2>6. ProducerKept' = ProducerKept
    BY <2>3, <2>4, <1>n DEF ProducerKept
  <2>7. BeforeLoop'
    BY <2>1, <1>g, TwoPrograms DEF Starting
  <2>8. SameSegment'
    BY <2>1, <1>m, TwoPrograms
  <2> QED BY <2>1, <2>5, <2>6, <2>7, <2>8, <1>k, <1>v, TwoPrograms
<1>11. CASE PrintLine
  <2>1. /\ Goto("client", "printf", "test") /\ UNCHANGED <<found, shmid, segments, readbuf, sem>>
        /\ shown' = IF shown < MaxShown THEN shown + 1 ELSE shown
    BY <1>11 DEF PrintLine, shm
  <2>2. pc["client"] = "printf" /\ pc'["client"] = "test" /\ pc'["server"] = pc["server"]
    BY <2>1, <1>z, TwoPrograms
  <2>3. shown + 1 <= MaxLines + 2
    <3>1. ClientPs = shown + 1
      BY <2>2 DEF ClientPs
    <3>2. Ready("client") /\ pc["client"] \notin Leaving
      BY <2>2 DEF Ready, Leaving
    <3>3. ProducerKept <= 2 /\ ProducerKept \in Int
      BY <3>2, <1>i DEF ProducerCounts
    <3>4. ProducerKept = sem["producer"].val - ServerVs + ClientPs
      BY DEF ProducerKept
    <3> QED BY <3>1, <3>3, <3>4, <1>n, ChatNumbers
  <2>4. shown < MaxShown
    BY <2>3, <1>n, ChatNumbers
  <2>5. shown' = shown + 1
    BY <2>1, <2>4
  <2>6. ServerPs' = ServerPs /\ ServerVs' = ServerVs /\ ClientVs' = ClientVs /\ ClientPs' = ClientPs
    BY <2>1, <2>2, <2>5, <1>n DEF ServerPs, ServerVs, ClientVs, ClientPs
  <2>7. ConsumerKept' = ConsumerKept /\ ProducerKept' = ProducerKept
    BY <2>1, <2>6 DEF ConsumerKept, ProducerKept
  <2>8. BeforeLoop'
    BY <2>1, <1>g, TwoPrograms DEF Starting
  <2>9. SameSegment'
    BY <2>1, <1>m, TwoPrograms
  <2> QED BY <2>1, <2>7, <2>8, <2>9, <1>k, <1>v, TwoPrograms
<1>12. CASE TestEnd
  <2>1. PICK to \in {"rmid producer", "V"} :
          /\ Goto("client", "test", to)
          /\ UNCHANGED <<found, shmid, segments, sem, readbuf, shown>>
    BY <1>12 DEF TestEnd, shm
  <2>2. SameSegment'
    BY <2>1, <1>m, TwoPrograms
  <2>3. CASE to = "V"
    BY <2>1, <2>2, <2>3, <1>u, <1>v, TwoPrograms DEF Starting
  <2>4. CASE to = "rmid producer"
    <3>1. pc["client"] = "test" /\ pc'["client"] = "rmid producer" /\ pc'["server"] = pc["server"]
      BY <2>1, <2>4, <1>z, TwoPrograms
    <3>2. pc["server"] \notin Starting
      <4>1. PICK end \in MaySeeEnd(data[shmid["client"]]) :
               Goto("client", "test", IF end THEN "rmid producer" ELSE "V")
        BY <1>12 DEF TestEnd
      <4>2. ASSUME ~end PROVE FALSE
        <5>1. pc'["client"] = "V"
          BY <4>1, <4>2, <1>z, TwoPrograms
        <5> QED BY <5>1, <3>1
      <4>3. shmid["client"] \in 1 .. 2
        BY <3>1, OwnSegment, TwoPrograms DEF Has
      <4>4. data[shmid["client"]].end \/ data[shmid["client"]].torn
        BY <4>1, <4>2 DEF MaySeeEnd
      <4>5. pc["server"] \in LastRead \/ pc["server"] = "copying"
        BY <4>3, <4>4 DEF EndInv, TornWhileCopying
      <4> QED BY <4>5 DEF LastRead, Starting
    <3>8. Frozen'
      <4>1. UNCHANGED <<sem, readbuf, shown>>
        BY <2>1
      <4>2. pc["client"] = "test" /\ pc'["client"] \notin {"P", "printf", "exit", "done"}
        BY <3>1
      <4> QED BY <3>1, <3>2, <4>1, <4>2, <1>i, ClientLeaves
    <3>6. ConsumerCounts' /\ ProducerCounts'
      BY <3>1 DEF ConsumerCounts, ProducerCounts, Leaving
    <3>7. BeforeLoop'
      BY <2>1, <2>4, <1>g, TwoPrograms DEF Starting
    <3> QED BY <2>2, <3>6, <3>7, <3>8
  <2> QED BY <2>3, <2>4
<1>13. CASE Exit("client") \/ RemoveSem("producer", "rmid producer", "rmid consumer")
            \/ RemoveSem("consumer", "rmid consumer", "exit")
  <2>1. PICK from \in Leaving, to \in Leaving :
          /\ Goto("client", from, to) /\ UNCHANGED <<found, shmid, segments, readbuf, shown>>
    BY <1>13 DEF Exit, RemoveSem, Leaving, shm
  <2>2. pc["client"] \in Leaving /\ pc'["client"] \in Leaving
    BY <2>1, <1>z, TwoPrograms
  <2>3. SameSegment'
    BY <2>1, <1>m, TwoPrograms DEF Leaving
  <2>4. BeforeLoop'
    BY <2>1, <1>g, TwoPrograms DEF Starting, Leaving
  <2>5. Frozen'
    <3>1. /\ pc'["server"] = pc["server"] /\ pc["server"] \notin Starting
          /\ ServerPs' = ServerPs /\ ClientVs' = ClientVs
          /\ shown - 2 <= readbuf.n /\ ServerPs <= shown + 2
      BY <2>1, <2>2, <1>i, <1>z, TwoPrograms DEF Frozen, ServerPs, ClientVs, Leaving
    <3>2. CASE RemoveSem("producer", "rmid producer", "rmid consumer")
      <4>1. /\ pc["client"] = "rmid producer" /\ pc'["client"] = "rmid consumer"
            /\ sem' = [sem EXCEPT !["producer"].exists = FALSE]
        BY <3>2, <1>q, <1>z, TwoPrograms DEF RemoveSem
      <4>2. ConsumerKept' = ConsumerKept
        BY <3>1, <4>1, <1>t DEF ConsumerKept, Names
      <4> QED BY <2>1, <2>2, <3>1, <4>1, <4>2, <1>i DEF Frozen
    <3>3. CASE RemoveSem("consumer", "rmid consumer", "exit")
      <4>1. /\ pc'["client"] = "exit" /\ sem' = [sem EXCEPT !["consumer"].exists = FALSE]
        BY <3>3, <1>q, <1>z, TwoPrograms DEF RemoveSem
      <4>2. ~sem'["consumer"].exists
        BY <4>1, <1>t DEF Names, SemType
      <4> QED BY <2>1, <3>1, <4>1, <4>2 DEF Frozen
    <3>4. CASE Exit("client")
      <4>1. /\ pc["client"] = "exit" /\ pc'["client"] = "done"
            /\ sem' = [t \in Names |-> [sem[t] EXCEPT !.val = Undone("client", t),
                                                     !.adj["client"] = 0]]
        BY <3>4, <1>z, TwoPrograms DEF Exit
      <4>2. sem'["consumer"].exists = sem["consumer"].exists
        BY <4>1, <1>t DEF Names, SemType
      <4> QED BY <2>1, <2>2, <3>1, <4>1, <4>2, <1>i DEF Frozen
    <3> QED BY <1>13, <3>2, <3>3, <3>4
  <2>6. ConsumerCounts' /\ ProducerCounts'
    BY <2>2 DEF ConsumerCounts, ProducerCounts
  <2> QED BY <2>3, <2>4, <2>5, <2>6
<1>14. CASE Exit("server")
  BY <1>14, <1>e, <1>z, TwoPrograms DEF Exit
<1>15. CASE UNCHANGED vars
  BY <1>15, <1>i
     DEF vars, SameSegment, BeforeLoop, Frozen, ConsumerCounts, ProducerCounts, ConsumerKept,
         ProducerKept, ServerPs, ServerVs, ClientVs, ClientPs, Ready, Has
<1> QED
  <2>1. ASSUME NEW p \in Programs, Start(p) PROVE Goal'
    BY <2>1, <1>1, TwoPrograms DEF Start
  <2>2. CASE ServerStep
    BY <2>2, <1>1, <1>2, <1>3, <1>4, <1>5, <1>6, <1>7, <1>8, <1>14, TwoPrograms DEF ServerStep
  <2>3. CASE ClientStep
    BY <2>3, <1>1, <1>2, <1>3, <1>9, <1>10, <1>11, <1>12, <1>13, TwoPrograms DEF ClientStep
  <2> QED BY <2>1, <2>2, <2>3, <1>15 DEF Next

(* While both run on two semaphores and no semop fails, neither gets away   *)
(* from the other, however their starts interleave.  The bound on the lines *)
(* the model counts is then never reached.                                  *)
THEOREM NeitherGetsAway ==
  ASSUME MaxShown >= MaxLines + 2
  PROVE  Spec => []KeepsUp
<1>1. Init => EndInv /\ KeepInv
  <2> SUFFICES ASSUME Init PROVE EndInv /\ KeepInv
    OBVIOUS
  <2>1. pc["client"] = "consumer" /\ pc["server"] = "consumer"
        /\ \A g \in 1 .. 2 : data[g] = EmptyLine
    BY TwoPrograms DEF Init
  <2>2. ~EmptyLine.end /\ ~EmptyLine.torn /\ EmptyLine.n = 0 /\ readbuf = EmptyLine
    BY DEF EmptyLine, Line, Init
  <2>3. EndInv
    BY <2>1, <2>2 DEF EndInv, RemovedAtTheEnd, TornWhileCopying
  <2>4. SameSegment
    BY DEF SameSegment, Has, Init
  <2>5. BeforeLoop /\ Frozen
    BY <2>1, <2>2 DEF BeforeLoop, Frozen, Leaving, Init
  <2>6. ConsumerCounts /\ ProducerCounts
    BY <2>1 DEF ConsumerCounts, ProducerCounts, Ready
  <2> QED BY <2>3, <2>4, <2>5, <2>6 DEF KeepInv
<1>2. ChatTypeInv /\ KeepInv => KeepsUp
  <2> SUFFICES ASSUME ChatTypeInv, KeepInv, distinctKeys /\ ~complained,
                      InLoop("client") /\ InLoop("server"), pc["server"] \notin {"exit", "done"}
               PROVE  readbuf.n - shown \in -2 .. 4
    BY DEF KeepsUp
  <2>1. BeforeLoop /\ Frozen /\ ConsumerCounts /\ ProducerCounts
    BY DEF KeepInv, Counting
  <2>2. Ready("server") /\ Ready("client")
    BY DEF InLoop, Starting, Ready
  <2>3. CASE pc["client"] \in Leaving
    <3>1. shown - 2 <= readbuf.n /\ ServerPs <= shown + 2
      BY <2>1, <2>3 DEF Frozen
    <3> QED BY <2>1, <3>1, Counts
  <2>4. CASE pc["client"] \notin Leaving
    BY <2>1, <2>2, <2>4, NearEachOther
  <2> QED BY <2>3, <2>4
<1>3. ChatTypeInv /\ EndInv /\ KeepInv /\ [Next]_vars => KeepInv'
  BY KeepInductive
<1> QED BY <1>1, <1>2, <1>3, InitChatTypeInv, ChatTypeInductive, EndInductive, PTL DEF Spec
-------------------------------------------------------------------------------
(* 19ex_shm_serve.c and 20ex_shm_client.c.                                  *)

(* The place of the '\0' holds a zero from the start: the star goes to the  *)
(* first place, which is another one.                                       *)
HandshakeTypeInv == HandshakeTypeOK /\ text[LETTERS] = Terminator

(* The letters, as numbers, and their places.                               *)
LEMMA Letters ==
  /\ LETTERS \in Nat /\ LETTERS >= 1 /\ 0 \in Places /\ LETTERS \in Places /\ LETTERS # 0
  /\ Star \in 0 .. Star /\ Star \in 1 .. Star /\ Terminator \in 0 .. Star
  /\ \A n \in Places : n # LETTERS => n + 1 \in Places /\ n + 1 \in 0 .. Star
  BY HandshakeAssumption DEF Places, Star, Terminator

(* HandshakeTypeInv is inductive.                                           *)
LEMMA HandshakeInductive ==
  HandshakeTypeInv /\ [HandshakeNext]_handshakeVars => HandshakeTypeInv'
<1> SUFFICES ASSUME HandshakeTypeInv, [HandshakeNext]_handshakeVars PROVE HandshakeTypeInv'
  OBVIOUS
<1> DEFINE Where == {"shmget", "shmat", "write", "poll", "print", "exit", "done", "failed"}
<1>t. /\ inUse \in BOOLEAN /\ text \in [Places -> 0 .. Star] /\ place \in [Users -> Places]
      /\ at \in [Users -> Where] /\ printed \in [Clients -> Seq(1 .. Star)]
      /\ text[LETTERS] = Terminator
  BY DEF HandshakeTypeInv, HandshakeTypeOK
<1>s. ASSUME inUse' \in BOOLEAN, text' \in [Places -> 0 .. Star], place' \in [Users -> Places],
             at' \in [Users -> Where], printed' \in [Clients -> Seq(1 .. Star)],
             text'[LETTERS] = Terminator
      PROVE  HandshakeTypeInv'
  BY <1>s DEF HandshakeTypeInv, HandshakeTypeOK
<1>u. Server \in Users /\ Clients \subseteq Users
  BY DEF Users
<1>m. ASSUME NEW u \in Users, NEW from, NEW to \in Where, Move(u, from, to)
      PROVE  at' \in [Users -> Where]
  BY <1>m, <1>t DEF Move
<1>1. CASE CreateSegment
  <2>1. at' \in [Users -> Where]
    BY <1>1, <1>m, <1>u DEF CreateSegment
  <2> QED BY <1>1, <2>1, <1>t, <1>s DEF CreateSegment
<1>2. CASE WriteNext
  <2>1. at' \in [Users -> Where]
    <3>1. (IF place[Server] = LETTERS THEN "poll" ELSE "write") \in Where
      OBVIOUS
    <3> QED BY <1>2, <3>1, <1>m, <1>u DEF WriteNext
  <2>2. Target \in Places
    BY <1>t, <1>u DEF Target
  <2>3. Target # LETTERS => Target + 1 \in Places /\ Target + 1 \in 0 .. Star
    BY <2>2, Letters
  <2>4. text' = [text EXCEPT ![Target] = IF Target = LETTERS THEN Terminator ELSE Target + 1]
    BY <1>2 DEF WriteNext
  <2>5. (IF Target = LETTERS THEN Terminator ELSE Target + 1) \in 0 .. Star
    BY <2>3, Letters
  <2>6. text' \in [Places -> 0 .. Star]
    BY <2>4, <2>5, <1>t
  <2>7. text'[LETTERS] = Terminator
    BY <2>2, <2>4, <1>t, Letters
  <2>8. place' \in [Users -> Places]
    BY <1>2, <2>2, <2>3, <1>t, <1>u DEF WriteNext, Target
  <2> QED BY <1>2, <2>1, <2>6, <2>7, <2>8, <1>t, <1>s DEF WriteNext
<1>3. CASE SeeStar
  <2>1. at' \in [Users -> Where]
    BY <1>3, <1>m, <1>u DEF SeeStar
  <2> QED BY <1>3, <2>1, <1>t, <1>s DEF SeeStar
<1>8. CASE ServerExit
  <2>1. at' \in [Users -> Where]
    BY <1>8, <1>m, <1>u DEF ServerExit
  <2> QED BY <1>8, <2>1, <1>t, <1>s DEF ServerExit
<1>4. ASSUME NEW c \in Clients, GetSegment(c) PROVE HandshakeTypeInv'
  <2>1. at' \in [Users -> Where]
    <3>1. (IF inUse THEN "shmat" ELSE "failed") \in Where
      OBVIOUS
    <3> QED BY <1>4, <3>1, <1>m, <1>u DEF GetSegment
  <2> QED BY <1>4, <2>1, <1>t, <1>s DEF GetSegment
<1>9. ASSUME NEW c \in Clients, Attach(c) PROVE HandshakeTypeInv'
  <2>1. at' \in [Users -> Where]
    <3>1. (IF SegmentLives THEN "print" ELSE "failed") \in Where
      OBVIOUS
    <3> QED BY <1>9, <3>1, <1>m, <1>u DEF Attach
  <2> QED BY <1>9, <2>1, <1>t, <1>s DEF Attach
<1>5. ASSUME NEW c \in Clients, PrintNext(c) PROVE HandshakeTypeInv'
  <2>1. /\ text[place[c]] # Terminator /\ UNCHANGED <<at, inUse, text>>
        /\ printed' = [printed EXCEPT ![c] = Append(printed[c], text[place[c]])]
        /\ place' = [place EXCEPT ![c] = place[c] + 1]
    BY <1>5 DEF PrintNext, AllPrinted
  <2>2. place[c] \in Places /\ place[c] # LETTERS
    BY <2>1, <1>t, <1>u
  <2>3. place[c] + 1 \in Places
    BY <2>2, Letters
  <2>4. text[place[c]] \in 1 .. Star
    <3>1. text[place[c]] \in 0 .. Star /\ text[place[c]] # 0
      BY <2>1, <2>2, <1>t DEF Terminator
    <3> QED BY <3>1, Letters DEF Star
  <2>5. Append(printed[c], text[place[c]]) \in Seq(1 .. Star)
    BY <2>4, <1>t
  <2>6. printed' \in [Clients -> Seq(1 .. Star)]
    BY <2>1, <2>5, <1>t
  <2>7. place' \in [Users -> Places]
    BY <2>1, <2>3, <1>t
  <2> QED BY <2>1, <2>6, <2>7, <1>t, <1>s
<1>6. ASSUME NEW c \in Clients, PutStar(c) PROVE HandshakeTypeInv'
  <2>1. at' \in [Users -> Where]
    BY <1>6, <1>m, <1>u DEF PutStar
  <2>2. text' = [text EXCEPT ![0] = Star]
    BY <1>6 DEF PutStar
  <2>3. text' \in [Places -> 0 .. Star] /\ text'[LETTERS] = Terminator
    BY <2>2, <1>t, Letters
  <2> QED BY <1>6, <2>1, <2>3, <1>t, <1>s DEF PutStar
<1>7. CASE UNCHANGED handshakeVars
  BY <1>7, <1>t, <1>s DEF handshakeVars
<1> QED BY <1>1, <1>2, <1>3, <1>4, <1>5, <1>6, <1>7, <1>8, <1>9
     DEF HandshakeNext, ServerWorks, ClientWorks

(* No client of the handshake leaves the text, also while the server still  *)
(* writes it.                                                               *)
THEOREM HandshakeTypes == HandshakeSpec => []HandshakeTypeOK
<1>1. HandshakeInit => HandshakeTypeInv
  <2> SUFFICES ASSUME HandshakeInit PROVE HandshakeTypeInv
    OBVIOUS
  <2>1. inUse \in BOOLEAN /\ text \in [Places -> 0 .. Star] /\ text[LETTERS] = Terminator
    BY Letters DEF HandshakeInit
  <2>2. place \in [Users -> Places] /\ printed \in [Clients -> Seq(1 .. Star)]
    BY Letters DEF HandshakeInit
  <2>3. at \in [Users -> {"shmget", "shmat", "write", "poll", "print", "exit", "done", "failed"}]
    BY DEF HandshakeInit
  <2> QED BY <2>1, <2>2, <2>3 DEF HandshakeTypeInv, HandshakeTypeOK
<1>2. HandshakeTypeInv => HandshakeTypeOK
  BY DEF HandshakeTypeInv
<1> QED BY <1>1, <1>2, HandshakeInductive, PTL DEF HandshakeSpec
-------------------------------------------------------------------------------
(* 17ex_semaphore.c.                                                        *)

Sems == 0 .. Cardinality(Runs)
Stages == {"semget", "set", "P", "print", "V", "finished", "ended"}
Begun == {r \in Runs : run[r] # "semget"}

(* The numbers of the program.                                              *)
LEMMA WordsNumbers ==
  /\ Cardinality(Runs) \in Nat /\ WORDS \in Nat /\ 0 < WORDS
  /\ \A A \in SUBSET Runs : /\ IsFiniteSet(A) /\ Cardinality(A) \in Nat
                            /\ Cardinality(A) <= Cardinality(Runs)
                            /\ \A r \in Runs \ A : Cardinality(A \cup {r}) = Cardinality(A) + 1
<1>1. IsFiniteSet(Runs) /\ Cardinality(Runs) \in Nat
  BY WordsAssumption, FS_CardinalityType
<1>2. ASSUME NEW A \in SUBSET Runs
      PROVE  /\ IsFiniteSet(A) /\ Cardinality(A) \in Nat /\ Cardinality(A) <= Cardinality(Runs)
             /\ \A r \in Runs \ A : Cardinality(A \cup {r}) = Cardinality(A) + 1
  <2>1. IsFiniteSet(A) /\ Cardinality(A) <= Cardinality(Runs)
    BY <1>1, FS_Subset
  <2>2. Cardinality(A) \in Nat
    BY <2>1, FS_CardinalityType
  <2>3. \A r \in Runs \ A : Cardinality(A \cup {r}) = Cardinality(A) + 1
    BY <2>1, FS_AddElement
  <2> QED BY <2>1, <2>2, <2>3
<1> QED BY <1>1, <1>2, WordsAssumption

(* A run begins once, so that no more semaphores are made than runs begun;  *)
(* a run that still has a word to print has printed less than all.          *)
WordsTypeInv ==
  /\ WordsTypeOK
  /\ made <= Cardinality(Begun)
  /\ \A r \in Runs : run[r] \in {"semget", "set", "P", "print"} => i[r] < WORDS

(* The arithmetic of the semaphores' values.                                *)
LEMMA SemNumbers ==
  ASSUME NEW v \in Nat, NEW a \in Int
  PROVE  /\ v + 1 \in Nat /\ (v > 0 => v - 1 \in Nat) /\ a + 1 \in Int /\ a - 1 \in Int
         /\ (IF v + a < 0 THEN 0 ELSE v + a) \in Nat
  OBVIOUS

(* The end of a run gives back what its undo says.                          *)
LEMMA EndsTypes ==
  ASSUME semval \in [Sems -> Nat], semadj \in [Runs -> Int], NEW r \in Runs,
         sem_id[r] \in Sems, Ends(r)
  PROVE  semval' \in [Sems -> Nat] /\ semadj' \in [Runs -> Int]
<1>1. semval[sem_id[r]] \in Nat /\ semadj[r] \in Int
  OBVIOUS
<1>2. (IF semval[sem_id[r]] + semadj[r] < 0 THEN 0 ELSE semval[sem_id[r]] + semadj[r]) \in Nat
  BY <1>1, SemNumbers
<1> QED BY <1>2 DEF Ends, Undo

(* WordsTypeInv is inductive.                                               *)
LEMMA WordsTypeInductive ==
  WordsTypeInv /\ [WordsNext]_wordVars => WordsTypeInv'
<1> SUFFICES ASSUME WordsTypeInv, [WordsNext]_wordVars PROVE WordsTypeInv'
  OBVIOUS
<1>t. /\ semId \in 0 .. made /\ made \in Sems /\ semval \in [Sems -> Nat]
      /\ semadj \in [Runs -> Int] /\ sem_id \in [Runs -> 0 .. made]
      /\ i \in [Runs -> 0 .. WORDS] /\ setInside \in BOOLEAN /\ run \in [Runs -> Stages]
      /\ made <= Cardinality(Begun)
  BY DEF WordsTypeInv, WordsTypeOK, Sems, Stages
<1>i. \A r \in Runs : run[r] \in {"semget", "set", "P", "print"} => i[r] < WORDS
  BY DEF WordsTypeInv
<1>s. ASSUME semId' \in 0 .. made', made' \in Sems, semval' \in [Sems -> Nat],
             semadj' \in [Runs -> Int], sem_id' \in [Runs -> 0 .. made'],
             i' \in [Runs -> 0 .. WORDS], setInside' \in BOOLEAN, run' \in [Runs -> Stages],
             made' <= Cardinality(Begun'),
             \A r \in Runs : run'[r] \in {"semget", "set", "P", "print"} => i'[r] < WORDS
      PROVE  WordsTypeInv'
  BY <1>s DEF WordsTypeInv, WordsTypeOK, Sems, Stages
<1>m. \A s \in 0 .. made : s \in Sems
  BY <1>t, WordsNumbers DEF Sems
(* A run that has begun and moves on to another place.                      *)
<1>g. ASSUME NEW r \in Runs, run[r] # "semget", NEW to \in Stages \ {"semget"},
             run' = [run EXCEPT ![r] = to]
      PROVE  run' \in [Runs -> Stages] /\ Begun' = Begun
  BY <1>g, <1>t DEF Begun
<1>1. ASSUME NEW r \in Runs, Semget(r) PROVE WordsTypeInv'
  <2>1. Begun' = Begun \cup {r} /\ r \notin Begun /\ run' \in [Runs -> Stages]
    BY <1>1, <1>t DEF Semget, Moves, Begun, Stages
  <2>2. Begun \in SUBSET Runs /\ Begun \cup {r} \in SUBSET Runs
    BY DEF Begun
  <2>3. Cardinality(Begun \cup {r}) = Cardinality(Begun) + 1 /\ Cardinality(Begun) \in Nat
        /\ Cardinality(Begun \cup {r}) <= Cardinality(Runs)
    BY <2>1, <2>2, WordsNumbers
  <2>4. made + 1 \in Sems /\ made + 1 <= Cardinality(Begun') /\ made <= Cardinality(Begun')
    <3>1. /\ made \in Nat /\ made <= Cardinality(Begun) /\ Cardinality(Runs) \in Nat
          /\ Cardinality(Begun) \in Nat /\ Cardinality(Begun) + 1 <= Cardinality(Runs)
          /\ Cardinality(Begun') = Cardinality(Begun) + 1
      BY <2>1, <2>3, <1>t, WordsNumbers DEF Sems
    <3> HIDE DEF Begun
    <3>2. made + 1 <= Cardinality(Begun') /\ made <= Cardinality(Begun')
      BY <3>1
    <3>3. made + 1 \in 0 .. Cardinality(Runs)
      BY <3>1
    <3> QED BY <3>2, <3>3 DEF Sems
  <2>5. made' \in {made, made + 1} /\ semId' \in 0 .. made' /\ made' \in Nat
        /\ \A s \in 0 .. made : s \in 0 .. made'
    BY <1>1, <1>t DEF Semget, Sems
  <2>6. sem_id' \in [Runs -> 0 .. made']
    BY <1>1, <2>5, <1>t DEF Semget
  <2>7. \A q \in Runs : run'[q] \in {"semget", "set", "P", "print"} => i[q] < WORDS
    BY <1>1, <1>i, <1>t DEF Semget, Moves
  <2> QED BY <1>1, <2>1, <2>4, <2>5, <2>6, <2>7, <1>t, <1>s DEF Semget
<1>2. ASSUME NEW r \in Runs, SetVal(r) PROVE WordsTypeInv'
  <2>1. run' \in [Runs -> Stages] /\ Begun' = Begun
    BY <1>2, <1>g DEF SetVal, Moves, Stages
  <2>2. semval' \in [Sems -> Nat] /\ semadj' \in [Runs -> Int]
    BY <1>2, <1>t, <1>m DEF SetVal
  <2>4. setInside' \in BOOLEAN
    BY <1>2, <1>t DEF SetVal
  <2>3. \A q \in Runs : run'[q] \in {"semget", "set", "P", "print"} => i[q] < WORDS
    BY <1>2, <1>i, <1>t DEF SetVal, Moves
  <2> QED BY <1>2, <2>1, <2>2, <2>3, <2>4, <1>t, <1>s DEF SetVal
<1>3. ASSUME NEW r \in Runs, P(r) PROVE WordsTypeInv'
  <2>1. run' \in [Runs -> Stages] /\ Begun' = Begun
    BY <1>3, <1>g DEF P, Moves, Stages
  <2>2. semval[semId] - 1 \in Nat /\ semadj[r] + 1 \in Int
    BY <1>3, <1>t, <1>m, SemNumbers DEF P
  <2>3. \A q \in Runs : run'[q] \in {"semget", "set", "P", "print"} => i[q] < WORDS
    BY <1>3, <1>i, <1>t DEF P, Moves
  <2> QED BY <1>3, <2>1, <2>2, <2>3, <1>t, <1>m, <1>s DEF P
<1>4. ASSUME NEW r \in Runs, PrintWord(r) PROVE WordsTypeInv'
  <2>1. run' \in [Runs -> Stages] /\ Begun' = Begun
    BY <1>4, <1>g DEF PrintWord, Moves, Stages
  <2>2. i[r] + 1 \in 0 .. WORDS
    <3>1. i[r] \in 0 .. WORDS /\ i[r] < WORDS
      BY <1>4, <1>t, <1>i DEF PrintWord, Moves
    <3> QED BY <3>1, WordsNumbers
  <2>3. \A q \in Runs : run'[q] \in {"semget", "set", "P", "print"} => q # r /\ i[q] < WORDS
    BY <1>4, <1>i, <1>t DEF PrintWord, Moves
  <2> QED BY <1>4, <2>1, <2>2, <2>3, <1>t, <1>s DEF PrintWord
<1>5. ASSUME NEW r \in Runs, V(r) PROVE WordsTypeInv'
  <2>1. run' \in [Runs -> Stages] /\ Begun' = Begun
    BY <1>5, <1>g DEF V, Moves, Stages
  <2>2. semval[semId] + 1 \in Nat /\ semadj[r] - 1 \in Int
    BY <1>5, <1>t, <1>m, SemNumbers DEF V
  <2>3. \A q \in Runs : run'[q] \in {"semget", "set", "P", "print"} => i[q] < WORDS
    BY <1>5, <1>i, <1>t DEF V, Moves
  <2> QED BY <1>5, <2>1, <2>2, <2>3, <1>t, <1>m, <1>s DEF V, TakenBack
<1>6. ASSUME NEW r \in Runs, SemopFails(r) \/ Finish17(r) \/ Killed(r) PROVE WordsTypeInv'
  <2>1. run[r] # "semget" /\ run' = [run EXCEPT ![r] = "ended"] /\ Ends(r)
    BY <1>6 DEF SemopFails, Finish17, Killed, Moves
  <2>2. run' \in [Runs -> Stages] /\ Begun' = Begun
    BY <2>1, <1>g DEF Stages
  <2>3. semval' \in [Sems -> Nat] /\ semadj' \in [Runs -> Int]
    BY <2>1, <1>t, <1>m, EndsTypes
  <2>4. \A q \in Runs : run'[q] \in {"semget", "set", "P", "print"} => i[q] < WORDS
    BY <2>1, <1>i, <1>t
  <2>5. UNCHANGED <<made, sem_id, i, setInside>> /\ semId' \in {semId, 0}
    BY <1>6 DEF SemopFails, Finish17, Killed
  <2>6. semId' \in 0 .. made'
    BY <2>5, <1>t DEF Sems
  <2> QED BY <2>2, <2>3, <2>4, <2>5, <2>6, <1>t, <1>s
<1>7. CASE UNCHANGED wordVars
  BY <1>7 DEF wordVars, WordsTypeInv, WordsTypeOK, Begun
<1> QED BY <1>1, <1>2, <1>3, <1>4, <1>5, <1>6, <1>7 DEF WordsNext, Runs17

(* No word has been printed, and no semaphore made.                         *)
LEMMA InitWordsTypes == WordsInit => WordsTypeInv
<1> SUFFICES ASSUME WordsInit PROVE WordsTypeInv
  OBVIOUS
<1>1. 0 \in 0 .. 0 /\ 0 \in Sems /\ 0 \in 0 .. WORDS
  BY WordsNumbers DEF Sems
<1>2. 0 <= Cardinality(Begun)
  BY WordsNumbers DEF Begun
<1>3. WordsTypeOK
  <2>1. semId \in 0 .. made /\ made \in 0 .. Cardinality(Runs) /\ setInside \in BOOLEAN
    BY <1>1 DEF WordsInit, Sems
  <2>2. semval \in [0 .. Cardinality(Runs) -> Nat] /\ semadj \in [Runs -> Int]
    BY DEF WordsInit
  <2>3. sem_id \in [Runs -> 0 .. made] /\ i \in [Runs -> 0 .. WORDS]
    BY <1>1 DEF WordsInit
  <2> QED BY <2>1, <2>2, <2>3 DEF WordsInit, WordsTypeOK
<1> QED BY <1>2, <1>3, WordsNumbers DEF WordsInit, WordsTypeInv

(* Every variable of the printers keeps its type.                           *)
THEOREM WordsTypes == WordsSpec => []WordsTypeOK
<1>1. WordsTypeInv => WordsTypeOK
  BY DEF WordsTypeInv
<1> QED BY <1>1, InitWordsTypes, WordsTypeInductive, PTL DEF WordsSpec

(* The undo of a run gives back one unit at most, and only when the run is  *)
(* inside.                                                                  *)
UndoInv == \A r \in Runs : semadj[r] <= (IF r \in Inside THEN 1 ELSE 0)

(* A run that has begun has a semaphore; one that is not made yet, or none, *)
(* lets nobody pass.                                                        *)
FreshInv ==
  /\ \A r \in Runs : run[r] # "semget" => sem_id[r] # 0
  /\ \A s \in Sems : s = 0 \/ s > made => semval[s] = 0

(* Unless a semaphore was set with a run inside, the semaphore under the    *)
(* key is 0 while a run is inside, of this semaphore or of a removed one,   *)
(* and at most 1 otherwise; and no second run is inside.                    *)
InsideInv ==
  ~setInside => /\ \A q, r \in Inside : q = r
                /\ semval[semId] <= 1
                /\ Inside # {} => semval[semId] = 0

(* The invariants are inductive, given the types.                           *)
LEMMA WordsInductive ==
  WordsTypeInv /\ UndoInv /\ FreshInv /\ InsideInv /\ [WordsNext]_wordVars
    => UndoInv' /\ FreshInv' /\ InsideInv'
<1> SUFFICES ASSUME WordsTypeInv, UndoInv, FreshInv, InsideInv, [WordsNext]_wordVars
             PROVE  UndoInv' /\ FreshInv' /\ InsideInv'
  OBVIOUS
<1>t. /\ semId \in 0 .. made /\ made \in Sems /\ semval \in [Sems -> Nat]
      /\ semadj \in [Runs -> Int] /\ sem_id \in [Runs -> 0 .. made]
      /\ setInside \in BOOLEAN /\ run \in [Runs -> Stages]
  BY DEF WordsTypeInv, WordsTypeOK, Sems, Stages
<1>m. \A s \in 0 .. made : s \in Sems /\ s \in Nat /\ ~(s > made)
  BY <1>t, WordsNumbers DEF Sems
<1>v. /\ \A s \in Sems : semval[s] \in Nat
      /\ \A r \in Runs : semadj[r] \in Int /\ sem_id[r] \in 0 .. made
  BY <1>t
(* A step that leaves the insides and the semaphores alone.                 *)
<1>k. ASSUME \A r \in Runs : run[r] # "semget" => run'[r] # "semget",
             \A r \in Runs : run'[r] \in {"print", "V"} <=> run[r] \in {"print", "V"},
             \A r \in Runs : run'[r] # "semget" => sem_id[r] # 0,
             UNCHANGED <<semId, made, semval, semadj, sem_id, setInside>>
      PROVE  UndoInv' /\ FreshInv' /\ InsideInv'
  <2>1. Inside' = Inside
    BY <1>k DEF Inside
  <2>2. UndoInv'
    BY <1>k, <2>1 DEF UndoInv
  <2>3. FreshInv'
    BY <1>k DEF FreshInv, Sems
  <2>4. InsideInv'
    BY <1>k, <2>1 DEF InsideInv
  <2> QED BY <2>2, <2>3, <2>4
<1>1. ASSUME NEW r \in Runs, Semget(r) PROVE UndoInv' /\ FreshInv' /\ InsideInv'
  <2>1. /\ run[r] = "semget" /\ UNCHANGED <<semval, semadj, setInside>>
        /\ \A q \in Runs : q # r => run'[q] = run[q] /\ sem_id'[q] = sem_id[q]
        /\ run'[r] \in {"set", "P"} /\ sem_id'[r] = semId'
    BY <1>1, <1>t DEF Semget, Moves
  <2>2. Inside' = Inside
    BY <2>1 DEF Inside
  <2>3. UndoInv'
    BY <2>1, <2>2 DEF UndoInv
  <2>4. semId' \in 1 .. made' /\ made' \in {made, made + 1} /\ made \in Nat
        /\ (semId # 0 => semId' = semId)
        /\ (semId = 0 => semId' = made + 1)
    BY <1>1, <1>t DEF Semget, Sems
  <2>5. FreshInv'
    <3>1. \A s \in Sems : s > made' => s > made
      BY <2>4 DEF Sems
    <3>2. semId' # 0
      BY <2>4
    <3> QED BY <2>1, <3>1, <3>2 DEF FreshInv, Sems
  <2>6. InsideInv'
    <3>1. CASE semId # 0
      BY <3>1, <2>1, <2>2, <2>4 DEF InsideInv
    <3>2. CASE semId = 0
      <4>1. semId' > made /\ semId' \in Sems
        <5>1. semId' = made + 1 /\ semId' > made
          BY <3>2, <2>4
        <5>2. WordsTypeInv'
          BY WordsTypeInductive
        <5>3. semId' \in 0 .. made' /\ made' \in 0 .. Cardinality(Runs)
          BY <5>2 DEF WordsTypeInv, WordsTypeOK
        <5> QED BY <5>1, <5>3, WordsNumbers DEF Sems
      <4>2. semval'[semId'] = 0
        BY <4>1, <2>1 DEF FreshInv
      <4> QED BY <4>2, <2>1, <2>2 DEF InsideInv
    <3> QED BY <3>1, <3>2
  <2> QED BY <2>3, <2>5, <2>6
<1>2. ASSUME NEW r \in Runs, SetVal(r) PROVE UndoInv' /\ FreshInv' /\ InsideInv'
  <2>1. /\ run[r] = "set" /\ run' = [run EXCEPT ![r] = "P"]
        /\ UNCHANGED <<semId, made, sem_id>>
    BY <1>2 DEF SetVal, Moves
  <2>2. CASE ~Exists(r)
    <3>1. UNCHANGED <<semval, semadj, setInside>>
      BY <1>2, <2>2 DEF SetVal
    <3>2. \A q \in Runs : run[q] # "semget" => sem_id[q] # 0
      BY DEF FreshInv
    <3> QED BY <2>1, <3>1, <3>2, <1>t, <1>k
  <2>3. CASE Exists(r)
    <3>1. /\ semval' = [semval EXCEPT ![semId] = 1]
          /\ semadj' = [q \in Runs |-> IF Exists(q) THEN 0 ELSE semadj[q]]
          /\ setInside' = (setInside \/ Inside # {})
      BY <1>2, <2>3 DEF SetVal
    <3>2. Inside' = Inside
      BY <2>1, <1>t DEF Inside
    <3>3. semId # 0 /\ semId \in Sems /\ ~(semId > made)
      BY <2>1, <2>3, <1>t, <1>m DEF FreshInv, Exists
    <3>4. UndoInv'
      BY <3>1, <3>2 DEF UndoInv
    <3>5. FreshInv'
      BY <2>1, <3>1, <3>3, <1>t DEF FreshInv, Sems
    <3>6. ~setInside' => Inside' = {}
      BY <3>1, <3>2
    <3>7. semval'[semId'] = 1
      BY <2>1, <3>1, <3>3, <1>t
    <3>8. InsideInv'
      BY <3>6, <3>7 DEF InsideInv
    <3> QED BY <3>4, <3>5, <3>8
  <2> QED BY <2>2, <2>3
<1>3. ASSUME NEW r \in Runs, P(r) PROVE UndoInv' /\ FreshInv' /\ InsideInv'
  <2>1. /\ run[r] = "P" /\ run' = [run EXCEPT ![r] = "print"]
        /\ semval[semId] > 0 /\ semval' = [semval EXCEPT ![semId] = @ - 1]
        /\ semadj' = [semadj EXCEPT ![r] = @ + 1]
        /\ UNCHANGED <<semId, made, sem_id, setInside>>
    BY <1>3 DEF P, Moves
  <2>2. Inside' = Inside \cup {r} /\ r \notin Inside
    BY <2>1, <1>t DEF Inside
  <2>3. semadj[r] <= 0
    BY <2>2 DEF UndoInv
  <2>4. UndoInv'
    <3>1. semadj'[r] <= 1 /\ \A q \in Runs : q # r => semadj'[q] = semadj[q]
      BY <2>1, <2>3, <1>t, <1>v
    <3> QED BY <2>2, <3>1 DEF UndoInv
  <2>5. semId \in Sems /\ semId # 0 /\ ~(semId > made)
    BY <2>1, <1>t, <1>m, <1>v DEF FreshInv
  <2>6. FreshInv'
    BY <2>1, <2>5, <1>t DEF FreshInv, Sems
  <2>7. ASSUME ~setInside PROVE semval'[semId] = 0 /\ Inside = {}
    <3>1. semval[semId] = 1 /\ Inside = {}
      BY <2>1, <2>5, <2>7, <1>v DEF InsideInv
    <3> QED BY <2>1, <2>5, <3>1, <1>t
  <2>8. InsideInv'
    BY <2>1, <2>2, <2>7 DEF InsideInv
  <2> QED BY <2>4, <2>6, <2>8
<1>4. ASSUME NEW r \in Runs, PrintWord(r) PROVE UndoInv' /\ FreshInv' /\ InsideInv'
  <2>1. \A q \in Runs : run[q] # "semget" => sem_id[q] # 0
    BY DEF FreshInv
  <2> QED BY <1>4, <2>1, <1>k, <1>t DEF PrintWord, Moves
<1>5. ASSUME NEW r \in Runs, V(r) PROVE UndoInv' /\ FreshInv' /\ InsideInv'
  <2>1. /\ run[r] = "V" /\ \E to \in {"P", "finished"} : run' = [run EXCEPT ![r] = to]
        /\ semval' = [semval EXCEPT ![semId] = @ + 1]
        /\ semadj' = [semadj EXCEPT ![r] = @ - 1]
        /\ UNCHANGED <<semId, made, sem_id, setInside>> /\ sem_id[r] = semId
    BY <1>5 DEF V, Moves, TakenBack, Exists
  <2>2. Inside' = Inside \ {r} /\ r \in Inside
    BY <2>1, <1>t DEF Inside
  <2>3. semadj[r] <= 1
    BY <2>2 DEF UndoInv
  <2>4. UndoInv'
    <3>1. semadj'[r] <= 0 /\ \A q \in Runs : q # r => semadj'[q] = semadj[q]
      BY <2>1, <2>3, <1>t, <1>v
    <3> QED BY <2>2, <3>1 DEF UndoInv
  <2>5. semId \in Sems /\ semId # 0 /\ ~(semId > made)
    BY <2>1, <1>t, <1>m DEF FreshInv
  <2>6. FreshInv'
    BY <2>1, <2>5, <1>t DEF FreshInv, Sems
  <2>7. ASSUME ~setInside PROVE semval'[semId] = 1 /\ Inside' = {}
    <3>1. semval[semId] = 0 /\ Inside' = {}
      BY <2>2, <2>7 DEF InsideInv
    <3> QED BY <2>1, <2>5, <3>1, <1>t
  <2>8. InsideInv'
    BY <2>1, <2>7 DEF InsideInv
  <2> QED BY <2>4, <2>6, <2>8
<1>6. ASSUME NEW r \in Runs, SemopFails(r) \/ Finish17(r) \/ Killed(r)
      PROVE  UndoInv' /\ FreshInv' /\ InsideInv'
  <2>1. /\ run[r] # "semget" /\ run' = [run EXCEPT ![r] = "ended"] /\ Ends(r)
        /\ UNCHANGED <<made, sem_id, setInside>>
        /\ semId' = semId \/ semId' = 0
    BY <1>6 DEF SemopFails, Finish17, Killed, Moves
  <2> DEFINE s == sem_id[r]
             left == IF semval[s] + semadj[r] < 0 THEN 0 ELSE semval[s] + semadj[r]
  <2>2. s # 0 /\ s \in Sems /\ ~(s > made) /\ s \in Nat
    BY <2>1, <1>v, <1>m DEF FreshInv
  <2>3. semval' = [semval EXCEPT ![s] = left] /\ semadj' = [semadj EXCEPT ![r] = 0]
    BY <2>1 DEF Ends, Undo
  <2>4. Inside' = Inside \ {r}
    BY <2>1, <1>t DEF Inside
  <2>5. UndoInv'
    <3>1. semadj'[r] = 0 /\ \A q \in Runs : q # r => semadj'[q] = semadj[q]
      BY <2>3, <1>t
    <3>2. \A q \in Runs : q # r => (q \in Inside' <=> q \in Inside)
      BY <2>4
    <3> QED BY <3>1, <3>2 DEF UndoInv
  <2>6. FreshInv'
    <3> HIDE DEF left, s
    <3>1. \A t \in Sems : t # s => semval'[t] = semval[t]
      BY <2>3, <1>t
    <3>2. \A q \in Runs : run'[q] # "semget" => run[q] # "semget"
      BY <2>1, <1>t
    <3> QED BY <2>1, <2>2, <3>1, <3>2 DEF FreshInv, Sems
  <2>7. InsideInv'
    <3> SUFFICES ASSUME ~setInside PROVE /\ \A p, q \in Inside' : p = q
                                         /\ semval'[semId'] <= 1
                                         /\ Inside' # {} => semval'[semId'] = 0
      BY <2>1 DEF InsideInv
    <3>1. \A p, q \in Inside : p = q
      BY DEF InsideInv
    <3>2. CASE semId' = 0
      <4>1. 0 \in Sems
        BY WordsNumbers DEF Sems
      <4>2. semval'[semId'] = 0
        BY <3>2, <4>1, <2>6 DEF FreshInv, Sems
      <4> QED BY <4>2, <3>1, <2>4
    <3>3. CASE semId' = semId /\ s # semId
      <4>1. semId \in Sems
        BY <1>t, <1>m
      <4>2. semval'[semId'] = semval[semId]
        BY <3>3, <4>1, <2>3, <1>t
      <4> QED BY <4>2, <3>1, <2>4 DEF InsideInv
    <3>4. CASE semId' = semId /\ s = semId
      <4>1. semval'[semId'] = left
        BY <3>4, <2>2, <2>3, <1>t
      <4>2. semval[s] \in Nat /\ semadj[r] \in Int /\ semval[s] <= 1
        BY <2>2, <3>4, <1>v DEF InsideInv
      <4>3. CASE r \in Inside
        <5>1. semval[s] = 0 /\ Inside' = {}
          BY <4>3, <3>4, <3>1, <2>4 DEF InsideInv
        <5>2. semadj[r] <= 1
          BY <4>3 DEF UndoInv
        <5>3. left <= 1
          BY <5>1, <5>2, <4>2
        <5> QED BY <4>1, <5>1, <5>3
      <4>4. CASE r \notin Inside
        <5>1. semadj[r] <= 0
          BY <4>4 DEF UndoInv
        <5>2. left <= 1 /\ (semval[s] = 0 => left = 0)
          BY <5>1, <4>2
        <5>3. Inside' = Inside /\ (Inside # {} => semval[s] = 0)
          BY <4>4, <3>4, <2>4 DEF InsideInv
        <5> QED BY <4>1, <5>2, <5>3, <3>1
      <4> QED BY <4>3, <4>4
    <3> QED BY <2>1, <3>2, <3>3, <3>4
  <2> QED BY <2>5, <2>6, <2>7
<1>7. CASE UNCHANGED wordVars
  <2>1. \A q \in Runs : run[q] # "semget" => sem_id[q] # 0
    BY DEF FreshInv
  <2> QED BY <1>7, <1>k, <2>1 DEF wordVars
<1> QED BY <1>1, <1>2, <1>3, <1>4, <1>5, <1>6, <1>7 DEF WordsNext, Runs17

(* For any number of runs, creators and words, whoever starts, is killed or *)
(* removes the semaphore: words are mixed only after a creator set the      *)
(* semaphore with another run inside.                                       *)
THEOREM NoWordMixed == WordsSpec => []WordsWhole
<1>1. WordsInit => UndoInv /\ FreshInv /\ InsideInv
  BY WordsNumbers DEF WordsInit, UndoInv, FreshInv, InsideInv, Inside, Sems
<1>2. InsideInv => WordsWhole
  <2> SUFFICES ASSUME InsideInv, ~setInside PROVE Cardinality(Inside) <= 1
    BY DEF WordsWhole
  <2>1. CASE Inside = {}
    BY <2>1, FS_EmptySet
  <2>2. CASE Inside # {}
    <3>1. PICK r \in Inside : TRUE
      BY <2>2
    <3>2. Inside = {r}
      BY <3>1 DEF InsideInv
    <3> QED BY <3>2, FS_Singleton
  <2> QED BY <2>1, <2>2
<1> QED BY <1>1, <1>2, InitWordsTypes, WordsTypeInductive, WordsInductive, PTL DEF WordsSpec
-------------------------------------------------------------------------------
(* 14ex_msg_get.c and 15ex_msg_send.c.                                      *)

People == Senders \cup Receivers
QueueStages == {"msgget", "fgets", "msgsnd", "msgrcv", "msgctl", "ended"}

(* The messages behind the first one.                                       *)
Behind(q) == [k \in 1 .. Len(q) - 1 |-> q[k + 1]]

(* What they are.                                                           *)
LEMMA BehindElements ==
  ASSUME NEW q \in Seq(MessageType), q # << >>
  PROVE  /\ Behind(q) \in Seq(MessageType) /\ Len(Behind(q)) = Len(q) - 1 /\ Len(q) \in Nat
         /\ Len(q) >= 1 /\ q[1] \in MessageType
         /\ \A k \in 1 .. Len(q) - 1 : Behind(q)[k] = q[k + 1] /\ k + 1 \in 1 .. Len(q)
<1>1. Len(q) \in Nat /\ Len(q) >= 1 /\ \A k \in 1 .. Len(q) : q[k] \in MessageType
  OBVIOUS
<1>2. \A k \in 1 .. Len(q) - 1 : k + 1 \in 1 .. Len(q)
  BY <1>1
<1>3. \A k \in 1 .. Len(q) - 1 : q[k + 1] \in MessageType
  BY <1>1, <1>2
<1>4. Len(q) - 1 \in Nat
  BY <1>1
<1>5. Behind(q) \in Seq(MessageType) /\ Len(Behind(q)) = Len(q) - 1
  BY <1>3, <1>4 DEF Behind
<1>6. q[1] \in MessageType
  BY <1>1
<1> QED BY <1>1, <1>2, <1>5, <1>6 DEF Behind

(* What a receiver takes, and what it leaves.                               *)
LEMMA Takes ==
  ASSUME NEW r, Msgrcv(r), queue \in Seq(MessageType)
  PROVE  queue # << >> /\ queue' = Behind(queue) /\ got' = Append(got, queue[1])
<1>1. \A k \in 1 .. Len(queue) - 1 : ~(k < 1)
  OBVIOUS
<1>2. queue' = [k \in 1 .. Len(queue) - 1 |-> queue[IF k < 1 THEN k ELSE k + 1]]
  BY DEF Msgrcv, Received
<1> QED BY <1>1, <1>2 DEF Msgrcv, Received, Behind

(* The numbers of the program.                                              *)
LEMMA QueueNumbers ==
  /\ QBYTES \in Nat /\ QBYTES > 0 /\ MaxTyped \in Nat
  /\ \A n \in 0 .. MaxTyped : n < MaxTyped => n + 1 \in 0 .. MaxTyped
  BY QueueAssumption

(* A line that is typed is a message of its sender, with its number, until  *)
(* it is in the queue; nobody is past msgget without a queue.               *)
QueueTypeInv ==
  /\ QueueTypeOK /\ queues \in Nat
  /\ \A s \in Senders : msgbuf[s].from = s
  /\ \A s \in Senders : stage[s] = "msgsnd" => msgbuf[s].n = typed[s] /\ typed[s] >= 1
  /\ \A s \in Senders : stage[s] = "msgget" => typed[s] = 0
  /\ \A p \in People : stage[p] # "msgget" => msgid[p] # 0

(* QueueTypeInv is inductive.                                               *)
LEMMA QueueTypeInductive ==
  QueueTypeInv /\ [QueueNext]_queueVars => QueueTypeInv'
<1> SUFFICES ASSUME QueueTypeInv, [QueueNext]_queueVars PROVE QueueTypeInv'
  OBVIOUS
<1>t. /\ queue \in Seq(MessageType) /\ Len(queue) <= QBYTES /\ queues \in Nat
      /\ msqid \in 0 .. queues /\ msgid \in [People -> 0 .. queues]
      /\ typed \in [Senders -> 0 .. MaxTyped] /\ msgbuf \in [Senders -> MessageType]
      /\ stage \in [People -> QueueStages] /\ got \in Seq(MessageType)
  BY DEF QueueTypeInv, QueueTypeOK, People, QueueStages
<1>i. /\ \A s \in Senders : msgbuf[s].from = s
      /\ \A s \in Senders : stage[s] = "msgsnd" => msgbuf[s].n = typed[s] /\ typed[s] >= 1
      /\ \A s \in Senders : stage[s] = "msgget" => typed[s] = 0
      /\ \A p \in People : stage[p] # "msgget" => msgid[p] # 0
  BY DEF QueueTypeInv
<1>s. ASSUME queue' \in Seq(MessageType), Len(queue') <= QBYTES, queues' \in Nat,
             msqid' \in 0 .. queues', msgid' \in [People -> 0 .. queues'],
             typed' \in [Senders -> 0 .. MaxTyped], msgbuf' \in [Senders -> MessageType],
             stage' \in [People -> QueueStages], got' \in Seq(MessageType),
             \A s \in Senders : msgbuf'[s].from = s,
             \A s \in Senders : stage'[s] = "msgsnd" => msgbuf'[s].n = typed'[s] /\ typed'[s] >= 1,
             \A s \in Senders : stage'[s] = "msgget" => typed'[s] = 0,
             \A p \in People : stage'[p] # "msgget" => msgid'[p] # 0
      PROVE  QueueTypeInv'
  BY <1>s DEF QueueTypeInv, QueueTypeOK, People, QueueStages
<1>p. \A s \in Senders : s \in People
  BY DEF People
(* A run that moves on from a system call.                                  *)
<1>g. ASSUME NEW p \in People, NEW to \in QueueStages \ {"msgget", "msgsnd"},
             stage[p] # "msgget", stage' = [stage EXCEPT ![p] = to]
      PROVE  /\ stage' \in [People -> QueueStages]
             /\ \A s \in Senders : stage'[s] = "msgsnd" => stage[s] = "msgsnd"
             /\ \A s \in Senders : stage'[s] = "msgget" => stage[s] = "msgget"
             /\ \A q \in People : stage'[q] # "msgget" => stage[q] # "msgget"
  BY <1>g, <1>t, <1>p
<1>1. ASSUME NEW p \in People, Msgget(p) PROVE QueueTypeInv'
  <2>1. queues' \in Nat /\ msqid' \in 1 .. queues' /\ \A n \in 0 .. queues : n \in 0 .. queues'
    BY <1>1, <1>t DEF Msgget
  <2>2. \A n \in 1 .. queues' : n \in 0 .. queues' /\ n # 0
    BY <2>1
  <2>3. msgid' = [msgid EXCEPT ![p] = msqid']
    BY <1>1 DEF Msgget
  <2>4. msgid' \in [People -> 0 .. queues'] /\ msgid'[p] # 0
        /\ \A q \in People : q # p => msgid'[q] = msgid[q]
    BY <2>1, <2>2, <2>3, <1>t
  <2>5. /\ \E to \in {"fgets", "msgrcv"} : stage' = [stage EXCEPT ![p] = to]
        /\ UNCHANGED <<queue, typed, msgbuf, got>>
    BY <1>1 DEF Msgget, To
  <2>6. /\ stage' \in [People -> QueueStages]
        /\ \A q \in People : q # p => stage'[q] = stage[q]
        /\ stage'[p] \notin {"msgsnd", "msgget"}
    BY <2>5, <1>t DEF QueueStages
  <2>7. \A q \in People : stage'[q] # "msgget" => msgid'[q] # 0
    BY <2>4, <2>6, <1>i
  <2>8. msqid' \in 0 .. queues'
    BY <2>1, <2>2
  <2> QED BY <2>1, <2>4, <2>5, <2>6, <2>7, <2>8, <1>i, <1>p, <1>t, <1>s
<1>2. ASSUME NEW s \in Senders, FgetsText(s) PROVE QueueTypeInv'
  <2>1. typed[s] \in 0 .. MaxTyped /\ typed[s] + 1 \in 0 .. MaxTyped /\ typed[s] + 1 >= 1
    <3>1. typed[s] \in 0 .. MaxTyped /\ typed[s] < MaxTyped
      BY <1>2, <1>t DEF FgetsText
    <3> QED BY <3>1, QueueNumbers
  <2>2. PICK end \in BOOLEAN : msgbuf' = [msgbuf EXCEPT ![s] = Message(s, typed[s] + 1, end)]
    BY <1>2 DEF FgetsText
  <2>3. Message(s, typed[s] + 1, end) \in MessageType
        /\ Message(s, typed[s] + 1, end).n = typed[s] + 1
        /\ Message(s, typed[s] + 1, end).from = s
    BY <2>1, <2>2 DEF Message, MessageType
  <2>4. /\ stage[s] = "fgets" /\ stage' = [stage EXCEPT ![s] = "msgsnd"]
        /\ typed' = [typed EXCEPT ![s] = @ + 1]
        /\ UNCHANGED <<queue, msqid, queues, msgid, got>>
    BY <1>2 DEF FgetsText, To
  <2>5. /\ stage' \in [People -> QueueStages] /\ stage'[s] = "msgsnd"
        /\ \A q \in People : q # s => stage'[q] = stage[q]
    BY <2>4, <1>t, <1>p DEF QueueStages
  <2>6. /\ typed' \in [Senders -> 0 .. MaxTyped] /\ typed'[s] = typed[s] + 1
        /\ \A q \in Senders : q # s => typed'[q] = typed[q]
    BY <2>1, <2>4, <1>t
  <2>7. /\ msgbuf' \in [Senders -> MessageType] /\ msgbuf'[s].n = typed[s] + 1
        /\ msgbuf'[s].from = s /\ \A q \in Senders : q # s => msgbuf'[q] = msgbuf[q]
    BY <2>2, <2>3, <1>t
  <2>8. \A q \in People : stage'[q] # "msgget" => msgid'[q] # 0
    BY <2>4, <2>5, <1>i, <1>p
  <2>9. \A q \in Senders : stage'[q] = "msgsnd" => msgbuf'[q].n = typed'[q] /\ typed'[q] >= 1
    BY <2>1, <2>5, <2>6, <2>7, <1>i, <1>p
  <2>10. \A q \in Senders : msgbuf'[q].from = q /\ (stage'[q] = "msgget" => typed'[q] = 0)
    BY <2>5, <2>6, <2>7, <1>i, <1>p
  <2> QED BY <2>4, <2>5, <2>6, <2>7, <2>8, <2>9, <2>10, <1>t, <1>s
<1>3. ASSUME NEW s \in Senders, Msgsnd(s) PROVE QueueTypeInv'
  <2>1. queue' \in Seq(MessageType) /\ Len(queue') <= QBYTES
    <3>1. queue' = Append(queue, msgbuf[s]) /\ Len(queue) < QBYTES /\ msgbuf[s] \in MessageType
      BY <1>3, <1>t DEF Msgsnd
    <3>2. Len(queue') = Len(queue) + 1 /\ Len(queue) \in Nat /\ queue' \in Seq(MessageType)
      BY <3>1, <1>t, OneMore
    <3> QED BY <3>1, <3>2, QueueNumbers
  <2>2. /\ \E to \in {"ended", "fgets"} : stage' = [stage EXCEPT ![s] = to]
        /\ stage[s] = "msgsnd" /\ UNCHANGED <<msqid, queues, msgid, typed, msgbuf, got>>
    BY <1>3 DEF Msgsnd, To
  <2> QED BY <2>1, <2>2, <1>g, <1>i, <1>p, <1>t, <1>s DEF QueueStages
<1>4. ASSUME NEW r \in Receivers, Msgrcv(r) PROVE QueueTypeInv'
  <2>1. queue # << >> /\ queue' = Behind(queue) /\ got' = Append(got, queue[1])
    BY <1>4, <1>t, Takes
  <2>2. queue' \in Seq(MessageType) /\ Len(queue') <= QBYTES /\ queue[1] \in MessageType
    <3>1. Len(queue') = Len(queue) - 1 /\ Len(queue) \in Nat /\ queue' \in Seq(MessageType)
          /\ queue[1] \in MessageType
      BY <2>1, <1>t, BehindElements
    <3> QED BY <3>1, <1>t, QueueNumbers
  <2>3. got' \in Seq(MessageType)
    BY <2>1, <2>2, <1>t, OneMore
  <2>4. /\ \E to \in {"msgctl", "msgrcv"} : stage' = [stage EXCEPT ![r] = to]
        /\ stage[r] = "msgrcv" /\ UNCHANGED <<msqid, queues, msgid, typed, msgbuf>>
    BY <1>4 DEF Msgrcv, To
  <2>5. r \in People
    BY DEF People
  <2> QED BY <2>2, <2>3, <2>4, <2>5, <1>g, <1>i, <1>t, <1>s DEF QueueStages
<1>5. ASSUME NEW r \in Receivers, Msgctl(r) PROVE QueueTypeInv'
  <2>1. queue' \in Seq(MessageType) /\ Len(queue') <= QBYTES /\ msqid' \in 0 .. queues
    <3>1. << >> \in Seq(MessageType) /\ Len(<< >>) <= QBYTES
      BY QueueNumbers
    <3>2. 0 \in 0 .. queues
      BY <1>t
    <3> QED BY <1>5, <3>1, <3>2, <1>t DEF Msgctl
  <2>2. /\ stage' = [stage EXCEPT ![r] = "ended"] /\ stage[r] = "msgctl"
        /\ UNCHANGED <<queues, msgid, typed, msgbuf, got>>
    BY <1>5 DEF Msgctl, To
  <2>3. r \in People
    BY DEF People
  <2> QED BY <2>1, <2>2, <2>3, <1>g, <1>i, <1>t, <1>s DEF QueueStages
<1>6. ASSUME NEW p \in People, QueueFails(p) PROVE QueueTypeInv'
  <2>1. /\ stage' = [stage EXCEPT ![p] = "ended"] /\ stage[p] # "msgget"
        /\ UNCHANGED <<queue, msqid, queues, msgid, typed, msgbuf, got>>
    BY <1>6 DEF QueueFails, To
  <2> QED BY <2>1, <1>g, <1>i, <1>t, <1>s DEF QueueStages
<1>7. CASE UNCHANGED queueVars
  BY <1>7, <1>s, <1>t, <1>i DEF queueVars
<1>8. \A r \in Receivers : r \in People
  BY DEF People
<1> QED BY <1>1, <1>2, <1>3, <1>4, <1>5, <1>6, <1>7, <1>8, <1>p
        DEF QueueNext, ReceiverWorks

(* Nothing is typed, sent or received.                                      *)
LEMMA InitQueueTypes == QueueInit => QueueTypeInv
<1> SUFFICES ASSUME QueueInit PROVE QueueTypeInv
  OBVIOUS
<1>1. << >> \in Seq(MessageType) /\ Len(<< >>) <= QBYTES /\ 0 \in 0 .. 0 /\ 0 \in 0 .. MaxTyped
  BY QueueNumbers
<1>2. \A s \in Senders : Message(s, 0, FALSE) \in MessageType /\ Message(s, 0, FALSE).from = s
  BY <1>1 DEF Message, MessageType
<1>3. msqid \in 0 .. queues /\ msgid \in [Senders \cup Receivers -> 0 .. queues] /\ queues \in Nat
  BY <1>1 DEF QueueInit
<1>4. QueueTypeOK
  BY <1>1, <1>2, <1>3 DEF QueueInit, QueueTypeOK
<1> QED BY <1>2, <1>3, <1>4 DEF QueueInit, QueueTypeInv, People

(* Every variable keeps its type; the queue keeps its bound.                *)
THEOREM QueueTypes == QueueSpec => []QueueTypeOK
<1>1. QueueTypeInv => QueueTypeOK
  BY DEF QueueTypeInv
<1> QED BY <1>1, InitQueueTypes, QueueTypeInductive, PTL DEF QueueSpec

(* The messages that were received, and those on their way behind them.     *)
OnTheWay == got \o queue

(* The first element of a sequence moves to the end of the one before it.   *)
LEMMA OneMoved ==
  ASSUME NEW S, NEW q \in Seq(S), NEW t \in Seq(S), NEW a \in Seq(S), NEW b \in Seq(S),
         Len(t) >= 1, Len(a) = Len(q) + 1, Len(b) = Len(t) - 1,
         \A k \in 1 .. Len(q) + 1 : a[k] = IF k = Len(q) + 1 THEN t[1] ELSE q[k],
         \A k \in 1 .. Len(t) - 1 : b[k] = t[k + 1]
  PROVE  a \o b = q \o t
<1>1. /\ a \o b \in Seq(S) /\ Len(a \o b) = Len(a) + Len(b)
      /\ \A k \in 1 .. Len(a) + Len(b) : (a \o b)[k] = IF k <= Len(a) THEN a[k] ELSE b[k - Len(a)]
  BY ConcatProperties
<1>2. /\ q \o t \in Seq(S) /\ Len(q \o t) = Len(q) + Len(t)
      /\ \A k \in 1 .. Len(q) + Len(t) : (q \o t)[k] = IF k <= Len(q) THEN q[k] ELSE t[k - Len(q)]
  BY ConcatProperties
<1>3. Len(q) \in Nat /\ Len(t) \in Nat
  OBVIOUS
<1>4. Len(a) + Len(b) = Len(q) + Len(t)
  BY <1>3
<1>5. ASSUME NEW k \in 1 .. Len(q) + Len(t) PROVE (a \o b)[k] = (q \o t)[k]
  <2>0. (a \o b)[k] = (IF k <= Len(q) + 1 THEN a[k] ELSE b[k - (Len(q) + 1)])
        /\ (q \o t)[k] = (IF k <= Len(q) THEN q[k] ELSE t[k - Len(q)])
    BY <1>1, <1>2, <1>4
  <2>1. CASE k <= Len(q)
    <3>1. k \in 1 .. Len(q) + 1 /\ k # Len(q) + 1 /\ k <= Len(q) + 1
      BY <2>1, <1>3
    <3> QED BY <2>0, <2>1, <3>1
  <2>2. CASE k = Len(q) + 1
    <3>1. k \in 1 .. Len(q) + 1 /\ ~(k <= Len(q)) /\ k - Len(q) = 1 /\ k <= Len(q) + 1
      BY <2>2, <1>3
    <3> QED BY <2>0, <2>2, <3>1
  <2>3. CASE k > Len(q) + 1
    <3>1. /\ k - (Len(q) + 1) \in 1 .. Len(t) - 1 /\ ~(k <= Len(q)) /\ ~(k <= Len(q) + 1)
          /\ (k - (Len(q) + 1)) + 1 = k - Len(q)
      BY <2>3, <1>3
    <3>2. b[k - (Len(q) + 1)] = t[k - Len(q)]
      BY <3>1
    <3> QED BY <2>0, <3>1, <3>2
  <2> QED BY <2>1, <2>2, <2>3, <1>3
<1>6. Len(a \o b) = Len(q \o t) /\ \A k \in 1 .. Len(a \o b) : (a \o b)[k] = (q \o t)[k]
  BY <1>1, <1>2, <1>4, <1>5
<1> QED BY <1>1, <1>2, <1>6, SeqEqual

(* The same two sequences however the border between them lies.             *)
LEMMA Joined ==
  ASSUME NEW q \in Seq(MessageType), NEW t \in Seq(MessageType)
  PROVE  /\ q \o t \in Seq(MessageType) /\ Len(q \o t) = Len(q) + Len(t)
         /\ Len(q) \in Nat /\ Len(t) \in Nat
         /\ \A k \in 1 .. Len(q) : (q \o t)[k] = q[k] /\ k \in 1 .. Len(q \o t)
         /\ q \o << >> = q
         /\ \A m \in MessageType : q \o Append(t, m) = Append(q \o t, m)
         /\ t # << >> => Append(q, t[1]) \o Behind(t) = q \o t
<1>1. /\ q \o t \in Seq(MessageType) /\ Len(q \o t) = Len(q) + Len(t)
      /\ Len(q) \in Nat /\ Len(t) \in Nat
      /\ \A k \in 1 .. Len(q) : (q \o t)[k] = q[k] /\ k \in 1 .. Len(q \o t)
  OBVIOUS
<1>2. q \o << >> = q
  OBVIOUS
<1>3. \A m \in MessageType : q \o Append(t, m) = Append(q \o t, m)
  OBVIOUS
<1>4. ASSUME t # << >> PROVE Append(q, t[1]) \o Behind(t) = q \o t
  <2>1. /\ Behind(t) \in Seq(MessageType) /\ Len(Behind(t)) = Len(t) - 1
        /\ \A k \in 1 .. Len(t) - 1 : Behind(t)[k] = t[k + 1]
        /\ t[1] \in MessageType /\ Len(t) >= 1
    BY <1>4, BehindElements
  <2>2. /\ Append(q, t[1]) \in Seq(MessageType) /\ Len(Append(q, t[1])) = Len(q) + 1
        /\ \A k \in 1 .. Len(q) + 1 : Append(q, t[1])[k] = IF k = Len(q) + 1 THEN t[1] ELSE q[k]
    BY <2>1, OneMore
  <2> QED BY <2>1, <2>2, OneMoved
<1> QED BY <1>1, <1>2, <1>3, <1>4

(* One more message at the end of a sequence.                               *)
LEMMA NumbersAppend ==
  ASSUME NEW q \in Seq(MessageType), NEW m \in MessageType
  PROVE  /\ \A s, k : k \in 0 .. Len(q) => NumbersTo(s, Append(q, m), k) = NumbersTo(s, q, k)
         /\ \A s : NumbersTo(s, Append(q, m), Len(q) + 1)
                     = NumbersTo(s, q, Len(q)) \cup (IF m.from = s THEN {m.n} ELSE {})
<1> DEFINE a == Append(q, m)
<1>1. Len(q) \in Nat /\ \A k \in 1 .. Len(q) + 1 : a[k] = IF k = Len(q) + 1 THEN m ELSE q[k]
  BY OneMore
<1>2. \A l \in 1 .. Len(q) : l \in 1 .. Len(q) + 1 /\ l # Len(q) + 1
  BY <1>1
<1> HIDE DEF a
<1>3. ASSUME NEW s, NEW k \in 0 .. Len(q) PROVE NumbersTo(s, a, k) = NumbersTo(s, q, k)
  <2>1. \A l \in 1 .. k : l \in 1 .. Len(q)
    BY <1>1
  <2>2. \A l \in 1 .. k : a[l] = q[l]
    BY <2>1, <1>1, <1>2
  <2> QED BY <2>2 DEF NumbersTo
<1>4. ASSUME NEW s
      PROVE  NumbersTo(s, a, Len(q) + 1)
               = NumbersTo(s, q, Len(q)) \cup (IF m.from = s THEN {m.n} ELSE {})
  <2>1. \A l : l \in 1 .. Len(q) + 1 <=> l \in 1 .. Len(q) \/ l = Len(q) + 1
    BY <1>1
  <2>2. \A l \in 1 .. Len(q) : a[l] = q[l]
    BY <1>1, <1>2
  <2>3. a[Len(q) + 1] = m
    BY <2>1, <1>1
  <2> QED BY <2>1, <2>2, <2>3 DEF NumbersTo
<1> QED BY <1>3, <1>4 DEF a

(* The next line of a sender, behind all its earlier ones, keeps the order. *)
LEMMA OrderedAppend ==
  ASSUME NEW q \in Seq(MessageType), NEW m \in MessageType, Ordered(q),
         m.n >= 1, NumbersTo(m.from, q, Len(q)) = 1 .. m.n - 1
  PROVE  Ordered(Append(q, m))
<1> DEFINE a == Append(q, m)
<1>1. /\ Len(a) = Len(q) + 1 /\ Len(q) \in Nat
      /\ \A k \in 1 .. Len(q) + 1 : a[k] = IF k = Len(q) + 1 THEN m ELSE q[k]
      /\ \A k \in 1 .. Len(q) + 1 : k # Len(q) + 1 => k \in 1 .. Len(q)
  BY OneMore
<1>2. \A s : \A k \in 0 .. Len(q) : NumbersTo(s, a, k) = NumbersTo(s, q, k)
  BY NumbersAppend
<1> HIDE DEF a
<1>3. ASSUME NEW k \in 1 .. Len(q) + 1
      PROVE  a[k].n >= 1 /\ NumbersTo(a[k].from, a, k - 1) = 1 .. a[k].n - 1
  <2>1. CASE k = Len(q) + 1
    <3>1. k - 1 = Len(q) /\ Len(q) \in 0 .. Len(q) /\ a[k] = m
      BY <2>1, <1>1
    <3> QED BY <3>1, <1>2
  <2>2. CASE k # Len(q) + 1
    <3>1. k \in 1 .. Len(q) /\ a[k] = q[k] /\ k - 1 \in 0 .. Len(q)
      BY <2>2, <1>1
    <3> QED BY <3>1, <1>2 DEF Ordered
  <2> QED BY <2>1, <2>2
<1>4. Ordered(a)
  BY <1>1, <1>3 DEF Ordered
<1> QED BY <1>4 DEF a

(* What was received stays in order when the rest is gone.                  *)
LEMMA OrderedPrefix ==
  ASSUME NEW q \in Seq(MessageType), NEW t \in Seq(MessageType), Ordered(q \o t)
  PROVE  Ordered(q) /\ \A s : NumbersTo(s, q, Len(q)) \subseteq NumbersTo(s, q \o t, Len(q \o t))
<1> DEFINE a == q \o t
<1>1. Len(q) \in Nat /\ \A k \in 1 .. Len(q) : a[k] = q[k] /\ k \in 1 .. Len(a)
  BY Joined
<1> HIDE DEF a
<1>2. ASSUME NEW k \in 1 .. Len(q)
      PROVE  q[k].n >= 1 /\ NumbersTo(q[k].from, q, k - 1) = 1 .. q[k].n - 1
  <2>1. \A l \in 1 .. k - 1 : l \in 1 .. Len(q)
    BY <1>1
  <2>2. NumbersTo(q[k].from, q, k - 1) = NumbersTo(q[k].from, a, k - 1)
    BY <2>1, <1>1 DEF NumbersTo
  <2>3. Ordered(a)
    BY DEF a
  <2> QED BY <2>2, <2>3, <1>1 DEF Ordered
<1>3. \A s : NumbersTo(s, q, Len(q)) \subseteq NumbersTo(s, a, Len(a))
  BY <1>1 DEF NumbersTo
<1> QED BY <1>2, <1>3 DEF Ordered, a

Sent(s) == typed[s] - (IF stage[s] = "msgsnd" THEN 1 ELSE 0)

(* All messages received and on their way are in order; and a sender that   *)
(* has not got its queue yet, or whose queue still exists, has exactly the  *)
(* lines among them that it sent.  (One whose queue was removed may miss    *)
(* some, but it sends no more.)                                             *)
QueueInv ==
  /\ Ordered(OnTheWay)
  /\ \A s \in Senders :
       stage[s] = "msgget" \/ (Found(s) /\ stage[s] \in {"fgets", "msgsnd"})
         => NumbersTo(s, OnTheWay, Len(OnTheWay)) = 1 .. Sent(s)

(* QueueInv is inductive, given the types.                                  *)
LEMMA QueueInductive ==
  QueueTypeInv /\ QueueInv /\ [QueueNext]_queueVars => QueueInv'
<1> SUFFICES ASSUME QueueTypeInv, QueueInv, [QueueNext]_queueVars PROVE QueueInv'
  OBVIOUS
<1>t. /\ queue \in Seq(MessageType) /\ got \in Seq(MessageType) /\ queues \in Nat
      /\ msqid \in 0 .. queues /\ msgid \in [People -> 0 .. queues]
      /\ typed \in [Senders -> 0 .. MaxTyped] /\ msgbuf \in [Senders -> MessageType]
      /\ stage \in [People -> QueueStages]
  BY DEF QueueTypeInv, QueueTypeOK, People, QueueStages
<1>i. /\ \A s \in Senders : msgbuf[s].from = s
      /\ \A s \in Senders : stage[s] = "msgsnd" => msgbuf[s].n = typed[s] /\ typed[s] >= 1
      /\ \A s \in Senders : stage[s] = "msgget" => typed[s] = 0
      /\ \A p \in People : stage[p] # "msgget" => msgid[p] # 0
  BY DEF QueueTypeInv
<1>p. \A s \in Senders : s \in People
  BY DEF People
(* A step that sends and types nothing, and moves a run to where it sends   *)
(* and types nothing any more.                                              *)
<1>k. ASSUME OnTheWay' = OnTheWay, NEW p \in People,
             \A q \in People : q # p => stage'[q] = stage[q],
             stage'[p] \notin {"msgget", "fgets", "msgsnd"},
             UNCHANGED <<msqid, msgid, typed>>
      PROVE  QueueInv'
  BY <1>k, <1>p DEF QueueInv, Found, Sent
<1>1. ASSUME NEW p \in People, Msgget(p) PROVE QueueInv'
  <2>1. /\ OnTheWay' = OnTheWay /\ typed' = typed /\ stage[p] = "msgget"
        /\ msgid' = [msgid EXCEPT ![p] = msqid']
        /\ \E to \in {"fgets", "msgrcv"} : stage' = [stage EXCEPT ![p] = to]
        /\ msqid' = IF msqid = 0 THEN queues + 1 ELSE msqid
    BY <1>1 DEF Msgget, To, OnTheWay
  <2>2. /\ stage'[p] \notin {"msgget", "msgsnd"}
        /\ \A q \in People : q # p => stage'[q] = stage[q] /\ msgid'[q] = msgid[q]
    BY <2>1, <1>t
  <2>3. ASSUME NEW s \in Senders,
               stage'[s] = "msgget" \/ (Found(s)' /\ stage'[s] \in {"fgets", "msgsnd"})
        PROVE  NumbersTo(s, OnTheWay, Len(OnTheWay)) = 1 .. Sent(s)'
    <3>1. CASE s = p
      <4>1. Sent(s)' = Sent(s)
        BY <3>1, <2>1, <2>2 DEF Sent
      <4> QED BY <3>1, <4>1, <2>1 DEF QueueInv
    <3>2. CASE s # p
      <4>1. Sent(s)' = Sent(s) /\ stage'[s] = stage[s] /\ msgid'[s] = msgid[s]
        BY <3>2, <2>1, <2>2, <1>p DEF Sent
      <4>2. ASSUME stage[s] # "msgget" PROVE msgid[s] = msqid
        <5>1. msgid[s] = msqid'
          BY <2>3, <4>1, <4>2 DEF Found
        <5>2. msgid[s] \in 0 .. queues
          BY <1>t, <1>p
        <5>3. msqid' # queues + 1
          BY <5>1, <5>2, <1>t
        <5> QED BY <5>1, <5>3, <2>1
      <4> QED BY <4>1, <4>2, <2>3 DEF QueueInv, Found
    <3> QED BY <3>1, <3>2
  <2> QED BY <2>1, <2>3 DEF QueueInv
<1>2. ASSUME NEW s \in Senders, FgetsText(s) PROVE QueueInv'
  <2>1. /\ OnTheWay' = OnTheWay /\ UNCHANGED <<msqid, msgid>>
        /\ stage[s] = "fgets" /\ stage' = [stage EXCEPT ![s] = "msgsnd"]
        /\ typed' = [typed EXCEPT ![s] = @ + 1]
    BY <1>2 DEF FgetsText, To, OnTheWay
  <2>2. stage'[s] = "msgsnd" /\ typed'[s] = typed[s] + 1 /\ typed[s] \in Nat
        /\ \A q \in Senders : q # s => stage'[q] = stage[q] /\ typed'[q] = typed[q]
    BY <2>1, <1>t, <1>p
  <2>3. Sent(s)' = Sent(s) /\ \A q \in Senders : q # s => Sent(q)' = Sent(q)
    BY <2>1, <2>2 DEF Sent
  <2> QED BY <2>1, <2>2, <2>3 DEF QueueInv, Found
<1>3. ASSUME NEW s \in Senders, Msgsnd(s) PROVE QueueInv'
  <2>1. /\ stage[s] = "msgsnd" /\ Found(s)
        /\ queue' = Append(queue, msgbuf[s])
        /\ \E to \in {"ended", "fgets"} : stage' = [stage EXCEPT ![s] = to]
        /\ UNCHANGED <<msqid, msgid, typed, got>>
    BY <1>3 DEF Msgsnd, To
  <2>m. /\ msgbuf[s] \in MessageType /\ msgbuf[s].from = s /\ msgbuf[s].n = typed[s]
        /\ typed[s] \in Nat /\ typed[s] >= 1
    BY <2>1, <1>t, <1>i
  <2>2. OnTheWay' = Append(OnTheWay, msgbuf[s]) /\ OnTheWay \in Seq(MessageType)
    BY <2>1, <2>m, <1>t, Joined DEF OnTheWay
  <2>3. NumbersTo(s, OnTheWay, Len(OnTheWay)) = 1 .. typed[s] - 1
    BY <2>1, <2>m DEF QueueInv, Sent
  <2>4. Ordered(OnTheWay')
    BY <2>1, <2>m, <2>2, <2>3, OrderedAppend DEF QueueInv
  <2>5. \A q \in Senders :
          NumbersTo(q, OnTheWay', Len(OnTheWay'))
            = NumbersTo(q, OnTheWay, Len(OnTheWay)) \cup (IF s = q THEN {typed[s]} ELSE {})
    <3>1. Len(OnTheWay') = Len(OnTheWay) + 1
      BY <2>1, <2>m, <2>2, OneMore
    <3> QED BY <2>1, <2>m, <2>2, <3>1, NumbersAppend
  <2>6. stage'[s] \notin {"msgsnd", "msgget"} /\ \A q \in Senders : q # s => stage'[q] = stage[q]
    BY <2>1, <2>m, <1>t, <1>p
  <2>7. NumbersTo(s, OnTheWay', Len(OnTheWay')) = 1 .. Sent(s)'
    <3>1. Sent(s)' = typed[s]
      BY <2>1, <2>m, <2>6 DEF Sent
    <3>2. 1 .. typed[s] = (1 .. typed[s] - 1) \cup {typed[s]}
      BY <2>m
    <3> QED BY <3>1, <3>2, <2>3, <2>5
  <2>8. \A q \in Senders : q # s => /\ Sent(q)' = Sent(q)
                                    /\ NumbersTo(q, OnTheWay', Len(OnTheWay'))
                                         = NumbersTo(q, OnTheWay, Len(OnTheWay))
    BY <2>1, <2>m, <2>5, <2>6 DEF Sent
  <2> QED BY <2>1, <2>m, <2>4, <2>6, <2>7, <2>8 DEF QueueInv, Found
<1>4. ASSUME NEW r \in Receivers, Msgrcv(r) PROVE QueueInv'
  <2>1. queue # << >> /\ queue' = Behind(queue) /\ got' = Append(got, queue[1])
    BY <1>4, <1>t, Takes
  <2>2. OnTheWay' = OnTheWay
    BY <2>1, <1>t, Joined DEF OnTheWay
  <2>3. /\ \E to \in {"msgctl", "msgrcv"} : stage' = [stage EXCEPT ![r] = to]
        /\ UNCHANGED <<msqid, msgid, typed>> /\ r \in People
    BY <1>4 DEF Msgrcv, To, People
  <2> QED BY <2>2, <2>3, <1>k, <1>t
<1>5. ASSUME NEW r \in Receivers, Msgctl(r) PROVE QueueInv'
  <2>1. /\ stage' = [stage EXCEPT ![r] = "ended"] /\ stage[r] = "msgctl" /\ r \in People
        /\ UNCHANGED <<msgid, typed, got>>
    BY <1>5 DEF Msgctl, To, People
  <2>2. CASE ~Found(r)
    <3>1. OnTheWay' = OnTheWay /\ msqid' = msqid
      BY <1>5, <2>1, <2>2 DEF Msgctl, OnTheWay
    <3> QED BY <2>1, <3>1, <1>k, <1>t
  <2>3. CASE Found(r)
    <3>1. msqid' = 0 /\ queue' = << >>
      BY <1>5, <2>3 DEF Msgctl
    <3>2. OnTheWay' = got
      BY <2>1, <3>1, <1>t, Joined DEF OnTheWay
    <3>3. Ordered(got) /\ \A s : NumbersTo(s, got, Len(got))
                                   \subseteq NumbersTo(s, OnTheWay, Len(OnTheWay))
      BY <1>t, OrderedPrefix DEF QueueInv, OnTheWay
    <3>4. ASSUME NEW s \in Senders,
                 stage'[s] = "msgget" \/ (Found(s)' /\ stage'[s] \in {"fgets", "msgsnd"})
          PROVE  NumbersTo(s, got, Len(got)) = 1 .. Sent(s)'
      <4>1. s # r /\ stage'[s] = stage[s] /\ msgid'[s] = msgid[s]
        BY <2>1, <3>4, <1>t, <1>p
      <4>2. stage[s] = "msgget"
        BY <3>1, <3>4, <4>1, <1>i, <1>p DEF Found
      <4>3. Sent(s) = 0 /\ Sent(s)' = 0
        BY <2>1, <4>1, <4>2, <1>i DEF Sent
      <4>4. NumbersTo(s, OnTheWay, Len(OnTheWay)) = {}
        BY <4>2, <4>3 DEF QueueInv
      <4>5. 1 .. 0 = {}
        OBVIOUS
      <4> QED BY <3>3, <4>3, <4>4, <4>5
    <3> QED BY <3>2, <3>3, <3>4 DEF QueueInv
  <2> QED BY <2>2, <2>3
<1>6. ASSUME NEW p \in People, QueueFails(p) PROVE QueueInv'
  <2>1. /\ stage' = [stage EXCEPT ![p] = "ended"]
        /\ OnTheWay' = OnTheWay /\ UNCHANGED <<msqid, msgid, typed>>
    BY <1>6 DEF QueueFails, To, OnTheWay
  <2> QED BY <2>1, <1>k, <1>t
<1>7. CASE UNCHANGED queueVars
  BY <1>7 DEF queueVars, QueueInv, OnTheWay, Found, Sent
<1>8. \A r \in Receivers : r \in People
  BY DEF People
<1> QED BY <1>1, <1>2, <1>3, <1>4, <1>5, <1>6, <1>7, <1>8, <1>p
        DEF QueueNext, ReceiverWorks

(* For any number of senders, receivers and lines, and every size of the    *)
(* queue.                                                                   *)
THEOREM LinesInOrder == QueueSpec => []MessagesInOrder
<1>1. QueueInit => QueueInv
  <2> SUFFICES ASSUME QueueInit PROVE QueueInv
    OBVIOUS
  <2>1. << >> \o << >> = << >> /\ Len(<< >>) = 0 /\ 1 .. 0 = {}
    OBVIOUS
  <2>2. OnTheWay = << >>
    BY <2>1 DEF QueueInit, OnTheWay
  <2>3. Ordered(OnTheWay) /\ \A s : NumbersTo(s, OnTheWay, Len(OnTheWay)) = {}
    BY <2>1, <2>2 DEF Ordered, NumbersTo
  <2>4. \A s \in Senders : typed[s] = 0 /\ stage[s] = "msgget"
    BY DEF QueueInit, People
  <2>5. \A s \in Senders : Sent(s) = 0
    <3>1. 0 - (IF "msgget" = "msgsnd" THEN 1 ELSE 0) = 0
      OBVIOUS
    <3> QED BY <2>4, <3>1 DEF Sent
  <2> QED BY <2>1, <2>3, <2>5 DEF QueueInv
<1>2. QueueTypeInv /\ QueueInv => MessagesInOrder
  <2> SUFFICES ASSUME QueueTypeInv, QueueInv PROVE Ordered(got)
    BY DEF MessagesInOrder
  <2>1. got \in Seq(MessageType) /\ queue \in Seq(MessageType)
    BY DEF QueueTypeInv, QueueTypeOK
  <2> QED BY <2>1, OrderedPrefix DEF QueueInv, OnTheWay
<1> QED BY <1>1, <1>2, InitQueueTypes, QueueTypeInductive, QueueInductive, PTL DEF QueueSpec
-------------------------------------------------------------------------------
(* 7ex_udp_server.c and 8ex_udp_client.c.                                   *)

EchoRequests == [from : EchoClients, text : EchoTexts]
EchoAnswers == [to : EchoClients, text : EchoTexts]

(* Every variable of the echo keeps its type.                               *)
THEOREM EchoTypes == EchoSpec => []EchoTypeOK
<1>1. EchoInit => EchoTypeOK
  <2>1. << >> \in Seq(EchoTexts) /\ 0 \in 0 .. MaxEchoes
    BY EchoAssumption
  <2> QED BY <2>1 DEF EchoInit, EchoTypeOK
<1>2. EchoTypeOK /\ [EchoNext]_echoVars => EchoTypeOK'
  <2> SUFFICES ASSUME EchoTypeOK, [EchoNext]_echoVars PROVE EchoTypeOK'
    OBVIOUS
  <2> USE DEF EchoTypeOK
  <2>1. CASE Sendto
    <3>1. answers' \subseteq [to : EchoClients, text : EchoTexts]
      BY <2>1 DEF Sendto
    <3> QED BY <2>1, <3>1 DEF Sendto
  <2>2. CASE Lose
    BY <2>2 DEF Lose
  <2>3. ASSUME NEW c \in EchoClients, Recvfrom(c) PROVE EchoTypeOK'
    <3>1. message' \in EchoTexts /\ addr' \subseteq EchoClients /\ requests' \subseteq requests
      BY <2>3 DEF Recvfrom, SenderOf
    <3> QED BY <2>3, <3>1 DEF Recvfrom
  <2>4. ASSUME NEW c \in EchoClients, SendLine(c) PROVE EchoTypeOK'
    <3>1. \A n \in 0 .. MaxEchoes : n < MaxEchoes => n + 1 \in 1 .. MaxEchoes
                                                     /\ n + 1 \in 0 .. MaxEchoes
      BY EchoAssumption
    <3>2. lines[c] + 1 \in 1 .. MaxEchoes /\ lines[c] + 1 \in 0 .. MaxEchoes
      BY <2>4, <3>1 DEF SendLine
    <3>3. [from |-> c, text |-> <<c, lines[c] + 1>>] \in [from : EchoClients, text : EchoTexts]
      BY <3>2 DEF EchoTexts
    <3> QED BY <2>4, <3>2, <3>3 DEF SendLine
  <2>5. ASSUME NEW c \in EchoClients, ReceiveEcho(c) PROVE EchoTypeOK'
    <3>1. echoes' \in [EchoClients -> Seq(EchoTexts)]
      BY <2>5, OneMore DEF ReceiveEcho
    <3> QED BY <2>5, <3>1 DEF ReceiveEcho
  <2>6. CASE UNCHANGED echoVars
    BY <2>6 DEF echoVars
  <2> QED BY <2>1, <2>2, <2>3, <2>4, <2>5, <2>6 DEF EchoNext
<1> QED BY <1>1, <1>2, PTL DEF EchoSpec

(* The line a client waits for.                                             *)
Awaited(c) == <<c, lines[c]>>

(* A datagram on its way belongs to a client that waits, and carries the    *)
(* line it waits for; and of one client there is one datagram at most,      *)
(* before the server, in its hands, or on the way back.                     *)
EchoInv ==
  /\ \A d \in requests : d.from \in waiting /\ d.text = Awaited(d.from)
  /\ \A d \in answers : d.to \in waiting /\ d.text = Awaited(d.to)
  /\ serving => \A c \in addr : c \in waiting /\ message = Awaited(c)
  /\ \A d \in requests, e \in answers : d.from # e.to
  /\ serving => (\A d \in requests : d.from \notin addr) /\ (\A e \in answers : e.to \notin addr)
  /\ \A c \in EchoClients : c \in waiting => lines[c] >= 1
  /\ EchoesInOrder

(* EchoInv is inductive, given the types.                                   *)
LEMMA EchoInductive ==
  EchoTypeOK /\ EchoInv /\ [EchoNext]_echoVars => EchoInv'
<1> SUFFICES ASSUME EchoTypeOK, EchoInv, [EchoNext]_echoVars PROVE EchoInv'
  OBVIOUS
<1>t. /\ requests \subseteq EchoRequests /\ answers \subseteq EchoAnswers
      /\ waiting \subseteq EchoClients /\ addr \subseteq EchoClients
      /\ lines \in [EchoClients -> 0 .. MaxEchoes]
      /\ echoes \in [EchoClients -> Seq(EchoTexts)]
      /\ DOMAIN lines = EchoClients /\ DOMAIN echoes = EchoClients
  BY DEF EchoTypeOK, EchoRequests, EchoAnswers
(* Two datagrams of one client would be the same one.                       *)
<1>r. \A d, e \in requests : d.from = e.from => d = e
  <2>1. \A d, e \in EchoRequests : d.from = e.from /\ d.text = e.text => d = e
    BY DEF EchoRequests
  <2> QED BY <2>1, <1>t DEF EchoInv
<1>a. \A d, e \in answers : d.to = e.to => d = e
  <2>1. \A d, e \in EchoAnswers : d.to = e.to /\ d.text = e.text => d = e
    BY DEF EchoAnswers
  <2> QED BY <2>1, <1>t DEF EchoInv
<1>1. CASE Sendto
  <2>1. /\ serving /\ ~serving'
        /\ UNCHANGED <<requests, lines, waiting, echoes>>
        /\ \A e \in answers' : e \in answers \/ (e.to \in addr /\ e.text = message)
    BY <1>1 DEF Sendto
  <2>2. EchoesInOrder'
    BY <2>1 DEF EchoInv, EchoesInOrder
  <2> QED BY <2>1, <2>2 DEF EchoInv, Awaited
<1>2. CASE Lose
  <2>1. /\ requests' \subseteq requests /\ answers' \subseteq answers
        /\ UNCHANGED <<message, addr, serving, lines, waiting, echoes>>
    BY <1>2 DEF Lose
  <2>2. EchoesInOrder'
    BY <2>1 DEF EchoInv, EchoesInOrder
  <2> QED BY <2>1, <2>2 DEF EchoInv, Awaited
<1>3. ASSUME NEW c \in EchoClients, Recvfrom(c) PROVE EchoInv'
  <2>1. PICK d \in requests : /\ d.from = c /\ requests' = requests \ {d}
                              /\ message' = d.text /\ addr' = {c}
    BY <1>3 DEF Recvfrom, SenderOf
  <2>2. UNCHANGED <<answers, lines, waiting, echoes>>
    BY <1>3 DEF Recvfrom
  <2>3. EchoesInOrder'
    BY <2>2 DEF EchoInv, EchoesInOrder
  <2>4. \A e \in requests' : e \in requests /\ e.from # c
    BY <2>1, <1>r
  <2> QED BY <2>1, <2>2, <2>3, <2>4 DEF EchoInv, Awaited
<1>4. ASSUME NEW c \in EchoClients, SendLine(c) PROVE EchoInv'
  <2>1. /\ c \notin waiting /\ waiting' = waiting \cup {c}
        /\ requests' = requests \cup {[from |-> c, text |-> <<c, lines[c] + 1>>]}
        /\ lines'[c] = lines[c] + 1 /\ lines[c] \in Nat
        /\ \A b \in EchoClients : b # c => lines'[b] = lines[b]
        /\ UNCHANGED <<answers, message, addr, serving, echoes>>
    BY <1>4, <1>t DEF SendLine
  <2>2. EchoesInOrder'
    BY <2>1 DEF EchoInv, EchoesInOrder
  <2>3. \A b \in EchoClients : b \in waiting' => lines'[b] >= 1
    BY <2>1 DEF EchoInv
  <2>4. \A b \in waiting : b # c /\ lines'[b] = lines[b] /\ b \in waiting'
    BY <2>1, <1>t
  <2>5. \A d \in requests' : \/ d \in requests
                             \/ d.from = c /\ d.text = <<c, lines'[c]>>
    BY <2>1
  <2> QED BY <2>1, <2>2, <2>3, <2>4, <2>5 DEF EchoInv, Awaited
<1>5. ASSUME NEW c \in EchoClients, ReceiveEcho(c) PROVE EchoInv'
  <2>1. PICK d \in answers : /\ d.to = c /\ answers' = answers \ {d}
                             /\ echoes' = [echoes EXCEPT ![c] = Append(@, d.text)]
    BY <1>5 DEF ReceiveEcho
  <2>2. /\ c \in waiting /\ waiting' = waiting \ {c}
        /\ UNCHANGED <<requests, message, addr, serving, lines>>
    BY <1>5 DEF ReceiveEcho
  <2>3. \A e \in answers' : e \in answers /\ e.to # c
    BY <2>1, <1>a
  <2>4. EchoesInOrder'
    <3>1. d.text = <<c, lines[c]>> /\ d.text \in EchoTexts /\ echoes[c] \in Seq(EchoTexts)
      BY <2>1, <1>t DEF EchoInv, Awaited, EchoAnswers
    <3>2. Len(echoes[c]) = lines[c] - 1 /\ lines[c] \in Nat
      BY <2>2, <1>t DEF EchoInv, EchoesInOrder
    <3>3. /\ Len(echoes'[c]) = lines[c]
          /\ \A k \in 1 .. lines[c] : k # lines[c] => k \in 1 .. Len(echoes[c])
          /\ \A k \in 1 .. lines[c] :
               echoes'[c][k] = IF k = lines[c] THEN <<c, k>> ELSE echoes[c][k]
      <4>1. echoes'[c] = Append(echoes[c], d.text)
        BY <2>1, <1>t
      <4>2. Len(echoes[c]) + 1 = lines[c]
        BY <3>2
      <4>3. /\ Len(echoes'[c]) = lines[c]
            /\ \A k \in 1 .. lines[c] :
                 echoes'[c][k] = IF k = lines[c] THEN d.text ELSE echoes[c][k]
            /\ \A k \in 1 .. lines[c] : k # lines[c] => k \in 1 .. Len(echoes[c])
        BY <3>1, <4>1, <4>2, OneMore
      <4> QED BY <4>3, <3>1
    <3>4. \A k \in 1 .. Len(echoes'[c]) : echoes'[c][k] = <<c, k>>
      BY <3>3 DEF EchoInv, EchoesInOrder
    <3>5. \A b \in EchoClients :
            b # c => echoes'[b] = echoes[b] /\ (b \in waiting' <=> b \in waiting)
      BY <2>1, <2>2, <1>t
    <3>6. Len(echoes'[c]) = lines'[c] - (IF c \in waiting' THEN 1 ELSE 0)
      BY <3>2, <3>3, <2>2
    <3> QED BY <3>4, <3>5, <3>6, <2>2 DEF EchoInv, EchoesInOrder
  <2>5. \A e \in requests : e.from # c
    BY <2>1 DEF EchoInv
  <2>6. serving => c \notin addr
    BY <2>1 DEF EchoInv
  <2> QED BY <2>2, <2>3, <2>4, <2>5, <2>6 DEF EchoInv, Awaited
<1>6. CASE UNCHANGED echoVars
  BY <1>6 DEF echoVars, EchoInv, EchoesInOrder, Awaited
<1> QED BY <1>1, <1>2, <1>3, <1>4, <1>5, <1>6 DEF EchoNext

(* For any number of clients and lines, with datagrams lost and overtaking  *)
(* each other, a client gets the echoes of its own lines in order.          *)
THEOREM EchoesOwn == EchoSpec => []EchoesInOrder
<1>1. EchoInit => EchoInv
  BY DEF EchoInit, EchoInv, EchoesInOrder
<1>2. EchoInv => EchoesInOrder
  BY DEF EchoInv
<1> QED BY <1>1, <1>2, EchoTypes, EchoInductive, PTL DEF EchoSpec
-------------------------------------------------------------------------------
(* pipe_server.c and pipe_client.c.                                         *)

(* Where the server has an end of the pipe open, or is opening it.          *)
AtPipe == {"probe", "probed", "opening", "fgets", "fclose"}

(* An open of the server succeeds only below the limit, so it may leak one  *)
(* more end when it finds nothing to read.                                  *)
PipeTypeInv == PipeTypeOK /\ (server \in AtPipe => leaked < OPEN_MAX)

(* What fgets takes out of the pipe, cut off at the size of its buffer.     *)
LEMMA TakenTypes ==
  ASSUME NEW s \in Seq(Texts), NEW t \in Seq(Texts)
  PROVE  /\ Len(s \o t) \in Nat
         /\ SubSeq(s \o t, 1, IF Len(s \o t) > READBUFF THEN READBUFF ELSE Len(s \o t))
              \in Seq(Texts)
<1>1. s \o t \in Seq(Texts) /\ Len(s \o t) \in Nat
  OBVIOUS
<1>2. \A n \in 0 .. Len(s \o t) : SubSeq(s \o t, 1, n) \in Seq(Texts)
  BY <1>1
<1>3. (IF Len(s \o t) > READBUFF THEN READBUFF ELSE Len(s \o t)) \in 0 .. Len(s \o t)
  BY <1>1, PipeAssumption
<1> QED BY <1>1, <1>2, <1>3

(* The pipe keeps its type however its ends are closed.                     *)
LEMMA KeptTypes ==
  ASSUME pipe \in Seq(Texts)
  PROVE  Kept \in Seq(Texts)
<1>1. << >> \in Seq(Texts)
  OBVIOUS
<1> QED BY <1>1 DEF Kept

(* Every variable of the pipe keeps its type.                               *)
LEMMA PipeTypeInductive ==
  PipeTypeInv /\ [PipeNext]_pipeVars => PipeTypeInv'
<1> SUFFICES ASSUME PipeTypeInv, [PipeNext]_pipeVars PROVE PipeTypeInv'
  OBVIOUS
<1>e. << >> \in Seq(Texts) /\ 0 \in 0 .. OPEN_MAX
  BY PipeAssumption
<1>t. /\ pipe \in Seq(Texts) /\ readbuff \in Seq(Texts) /\ leaked \in 0 .. OPEN_MAX
      /\ server = "fgets" => leaked < OPEN_MAX
  BY DEF PipeTypeInv, PipeTypeOK, AtPipe
<1>n. \A n \in 0 .. OPEN_MAX : n < OPEN_MAX => n + 1 \in 0 .. OPEN_MAX
  BY PipeAssumption
<1>k. \A k \in 1 .. Len(readbuff) : readbuff[k] \in Texts
  BY <1>t
<1> USE DEF PipeTypeInv, PipeTypeOK, AtPipe, results
<1>1. CASE Mknod
  BY <1>1 DEF Mknod, ServerMoves
<1>2. CASE OpenRead("first open", "probe") \/ OpenRead("open", "opening")
  BY <1>2 DEF OpenRead, ServerMoves
<1>3. CASE Opened("probe", "probed") \/ Opened("opening", "fgets")
  BY <1>3 DEF Opened, ServerMoves
<1>4. CASE FcloseRead("probed") \/ FcloseRead("fclose")
  <2>1. pipe' \in Seq(Texts)
    BY <1>4, KeptTypes DEF FcloseRead
  <2> QED BY <1>4, <2>1 DEF FcloseRead, ServerMoves
<1>5. CASE Fgets
  <2> HIDE DEF PipeTypeInv, PipeTypeOK
  <2>1. readbuff' = SubSeq(readbuff \o pipe, 1, IF Len(readbuff \o pipe) > READBUFF
                                                 THEN READBUFF ELSE Len(readbuff \o pipe))
    BY <1>5 DEF Fgets
  <2>2. readbuff' \in Seq(Texts)
    BY <2>1, <1>t, TakenTypes
  <2> QED BY <1>5, <2>2, <1>e DEF Fgets, PipeTypeInv, PipeTypeOK
<1>6. CASE FgetsNull
  <2>1. leaked + 1 \in 0 .. OPEN_MAX
    <3> HIDE DEF PipeTypeInv, PipeTypeOK
    <3>1. server = "fgets"
      BY <1>6 DEF FgetsNull, ServerMoves
    <3> QED BY <3>1, <1>t, <1>n
  <2> QED BY <1>6, <2>1 DEF FgetsNull, ServerMoves
<1>7. CASE PrintText
  <2>1. received' \subseteq Texts
    BY <1>7, <1>k DEF PrintText
  <2> QED BY <1>7, <2>1, <1>e DEF PrintText, ServerMoves
<1>8. CASE OpenFails
  <2>1. pipe' \in Seq(Texts)
    BY <1>8, KeptTypes DEF OpenFails
  <2> QED BY <1>8, <2>1, <1>e DEF OpenFails, ServerMoves
<1>9. ASSUME NEW c \in Texts, OpenWrite(c) \/ WriteText(c) \/ FcloseWrite(c) PROVE PipeTypeInv'
  <2>1. CASE OpenWrite(c)
    BY <2>1 DEF OpenWrite
  <2>2. CASE WriteText(c)
    <3>1. pipe' \in Seq(Texts)
      <4> HIDE DEF PipeTypeInv, PipeTypeOK
      <4>1. pipe' = pipe \/ pipe' = Append(pipe, c) \/ pipe' = Kept
        BY <2>2 DEF WriteText
      <4>2. Append(pipe, c) \in Seq(Texts)
        BY <1>t, OneMore
      <4>3. Kept \in Seq(Texts)
        BY <1>t, KeptTypes
      <4> QED BY <4>1, <4>2, <4>3, <1>t
    <3> QED BY <2>2, <3>1 DEF WriteText
  <2>3. CASE FcloseWrite(c)
    <3>1. pipe' \in Seq(Texts)
      BY <2>3, KeptTypes DEF FcloseWrite
    <3> QED BY <2>3, <3>1 DEF FcloseWrite
  <2> QED BY <1>9, <2>1, <2>2, <2>3
<1>10. CASE UNCHANGED pipeVars
  BY <1>10 DEF pipeVars
<1> QED BY <1>1, <1>2, <1>3, <1>4, <1>5, <1>6, <1>7, <1>8, <1>9, <1>10 DEF PipeNext, PipeServer

(* For every limit of open files and every size of the buffer.              *)
THEOREM PipeTypes == PipeSpec => []PipeTypeOK
<1>1. PipeInit => PipeTypeInv
  <2>1. << >> \in Seq(Texts) /\ 0 \in 0 .. OPEN_MAX
    BY PipeAssumption
  <2> QED BY <2>1 DEF PipeInit, PipeTypeInv, PipeTypeOK, AtPipe
<1>2. PipeTypeInv => PipeTypeOK
  BY DEF PipeTypeInv
<1> QED BY <1>1, <1>2, PipeTypeInductive, PTL DEF PipeSpec

(* A text in a sequence of them.                                            *)
In(c, s) == \E k \in 1 .. Len(s) : s[k] = c

(* A text that is put behind others is there, and so are the others.        *)
LEMMA InAppend ==
  ASSUME NEW s \in Seq(Texts), NEW x \in Texts
  PROVE  In(x, Append(s, x)) /\ \A c : In(c, s) => In(c, Append(s, x))
<1>1. Len(Append(s, x)) = Len(s) + 1 /\ Len(s) \in Nat
  BY OneMore
<1>2. /\ Len(s) + 1 \in 1 .. Len(s) + 1
      /\ \A k \in 1 .. Len(s) : k \in 1 .. Len(s) + 1 /\ k # Len(s) + 1
  BY <1>1
<1>3. \A k \in 1 .. Len(s) + 1 : Append(s, x)[k] = IF k = Len(s) + 1 THEN x ELSE s[k]
  BY OneMore
<1> QED BY <1>1, <1>2, <1>3 DEF In

(* A buffer that has room for all takes all that is in the pipe.            *)
LEMMA InTaken ==
  ASSUME NEW s \in Seq(Texts), NEW t \in Seq(Texts)
  PROVE  \A c : In(c, s) \/ In(c, t) => In(c, SubSeq(s \o t, 1, Len(s \o t)))
<1> DEFINE all == SubSeq(s \o t, 1, Len(s \o t))
<1>1. Len(all) = Len(s) + Len(t) /\ Len(s) \in Nat /\ Len(t) \in Nat
  OBVIOUS
<1>2. \A k \in 1 .. Len(s) : k \in 1 .. Len(all) /\ all[k] = s[k]
  OBVIOUS
<1>3. \A k \in 1 .. Len(t) : k + Len(s) \in 1 .. Len(all) /\ all[k + Len(s)] = t[k]
  OBVIOUS
<1> HIDE DEF all
<1>4. \A c : In(c, s) \/ In(c, t) => In(c, all)
  BY <1>2, <1>3 DEF In
<1> QED BY <1>4 DEF all

(* A client that came while the server waited for one finds the server      *)
(* there until its text is printed: the server is still opening the pipe,   *)
(* or it reads, and does not see an end of file before the client is done   *)
(* and nothing is left in the pipe - or has met a full buffer.              *)
PipeInv ==
  /\ Len(readbuff) = READBUFF => cut
  /\ \A c \in expected \ Silent :
       \/ cut \/ c \in received
       \/ /\ server \in {"opening", "fgets"}
          /\ client[c] = "open" \/ In(c, pipe) \/ In(c, readbuff)

(* PipeInv is inductive, given the types.                                   *)
LEMMA PipeInductive ==
  PipeTypeInv /\ PipeInv /\ [PipeNext]_pipeVars => PipeInv'
<1> SUFFICES ASSUME PipeTypeInv, PipeInv, [PipeNext]_pipeVars PROVE PipeInv'
  OBVIOUS
<1>t. /\ pipe \in Seq(Texts) /\ readbuff \in Seq(Texts) /\ expected \subseteq Texts
      /\ DOMAIN client = Texts /\ client = [c \in Texts |-> client[c]] /\ cut \in BOOLEAN
  BY DEF PipeTypeInv, PipeTypeOK
(* A step that takes no text out of the pipe or the buffer, and moves the   *)
(* server at most on to its reading.                                        *)
<1>k. ASSUME UNCHANGED results, expected' = expected,
             server \in {"opening", "fgets"} =>
               /\ server' \in {"opening", "fgets"} /\ \A c : In(c, pipe) => In(c, pipe')
               /\ \A c \in Texts \ Silent :
                    client[c] = "open" => client'[c] = "open" \/ In(c, pipe')
      PROVE  PipeInv'
  <2>1. UNCHANGED <<readbuff, received, cut>>
    BY <1>k DEF results
  <2> QED BY <1>k, <2>1, <1>t DEF PipeInv
<1>r. server \in {"opening", "fgets"} /\ UNCHANGED server => HasReader /\ (Kept = pipe)
  BY DEF HasReader, Reading, Kept
<1>1. CASE Mknod
  BY <1>1, <1>k DEF Mknod, ServerMoves
<1>2. CASE OpenRead("first open", "probe") \/ OpenRead("open", "opening")
  BY <1>2, <1>k DEF OpenRead, ServerMoves
<1>3. CASE Opened("probe", "probed") \/ Opened("opening", "fgets")
  BY <1>3, <1>k DEF Opened, ServerMoves
<1>4. CASE FcloseRead("probed") \/ FcloseRead("fclose")
  BY <1>4, <1>k DEF FcloseRead, ServerMoves
<1>5. CASE Fgets
  <2> DEFINE all == readbuff \o pipe
  <2>1. /\ cut' = (cut \/ Len(all) >= READBUFF)
        /\ readbuff' = SubSeq(all, 1, IF Len(all) > READBUFF THEN READBUFF ELSE Len(all))
        /\ UNCHANGED <<server, client, received, expected>>
    BY <1>5 DEF Fgets
  <2>2. Len(all) \in Nat /\ READBUFF \in Nat
    BY <1>t, PipeAssumption, TakenTypes
  <2>3. CASE Len(all) >= READBUFF
    BY <2>1, <2>3 DEF PipeInv
  <2>4. CASE Len(all) < READBUFF
    <3>1. readbuff' = SubSeq(all, 1, Len(all))
      BY <2>1, <2>2, <2>4
    <3>2. Len(readbuff') # READBUFF
      <4>1. Len(SubSeq(all, 1, Len(all))) = Len(all)
        BY <1>t
      <4> QED BY <3>1, <4>1, <2>2, <2>4
    <3>3. \A c : In(c, readbuff) \/ In(c, pipe) => In(c, readbuff')
      BY <3>1, <1>t, InTaken
    <3>4. cut' = cut
      <4>1. ~(Len(all) >= READBUFF)
        BY <2>2, <2>4
      <4> QED BY <2>1, <4>1, <1>t
    <3> QED BY <2>1, <3>2, <3>3, <3>4 DEF PipeInv
  <2> QED BY <2>2, <2>3, <2>4
<1>6. CASE FgetsNull
  <2>1. \A c : ~In(c, pipe) /\ ~In(c, readbuff)
    BY <1>6 DEF FgetsNull, EndOfFile, In
  <2>2. \A c \in Texts : client[c] # "open"
    BY <1>6 DEF FgetsNull, EndOfFile, Writers
  <2>3. UNCHANGED <<readbuff, received, cut, expected>>
    BY <1>6 DEF FgetsNull, results
  <2> QED BY <2>1, <2>2, <2>3, <1>t DEF PipeInv
<1>7. CASE PrintText
  <2>1. /\ received' = received \cup {readbuff[k] : k \in 1 .. Len(readbuff)}
        /\ readbuff' = << >> /\ UNCHANGED <<client, pipe, expected, cut>>
        /\ EndOfFile \/ Len(readbuff) = READBUFF
    BY <1>7 DEF PrintText
  <2>2. Len(readbuff') # READBUFF
    BY <2>1, PipeAssumption
  <2>3. CASE cut
    BY <2>1, <2>2, <2>3 DEF PipeInv
  <2>4. CASE ~cut
    <3>1. EndOfFile
      BY <2>1, <2>4 DEF PipeInv
    <3>2. \A c \in Texts : ~In(c, pipe) /\ client[c] # "open"
      BY <3>1 DEF EndOfFile, Writers, In
    <3>3. \A c : In(c, readbuff) => c \in received'
      BY <2>1 DEF In
    <3> QED BY <2>1, <2>2, <2>4, <3>2, <3>3, <1>t DEF PipeInv
  <2> QED BY <2>3, <2>4
<1>8. CASE OpenFails
  BY <1>8, <1>k DEF OpenFails, ServerMoves
<1>9. ASSUME NEW c \in Texts, OpenWrite(c) \/ WriteText(c) \/ FcloseWrite(c) PROVE PipeInv'
  <2>1. CASE OpenWrite(c)
    <3>1. /\ client[c] = "start"
          /\ client' = [client EXCEPT ![c] = IF HasReader THEN "open" ELSE "opening"]
          /\ UNCHANGED <<server, pipe, readbuff, received, cut>>
      BY <2>1 DEF OpenWrite, results
    <3>2. \A b \in Texts : client[b] = "open" => client'[b] = "open"
      BY <3>1, <1>t
    <3>3. CASE server = "opening"
      <4>1. client'[c] = "open" /\ expected' = expected \cup {c}
        BY <2>1, <3>1, <3>3, <1>t DEF OpenWrite, HasReader, Reading
      <4> QED BY <3>1, <3>2, <3>3, <4>1, <1>t DEF PipeInv
    <3>4. CASE server # "opening"
      <4>1. expected' = expected
        BY <2>1, <3>4 DEF OpenWrite
      <4> QED BY <3>1, <3>2, <4>1, <1>t DEF PipeInv
    <3> QED BY <3>3, <3>4
  <2>2. CASE WriteText(c)
    <3>1. UNCHANGED <<server, leaked, results, expected>>
      BY <2>2 DEF WriteText
    <3>2. \A b \in Texts : b # c => client'[b] = client[b]
      BY <2>2, <1>t DEF WriteText
    <3>3. CASE server \in {"opening", "fgets"}
      <4>1. HasReader
        BY <3>3 DEF HasReader, Reading
      <4>2. \/ c \in Silent /\ pipe' = pipe
            \/ c \notin Silent /\ pipe' = Append(pipe, c)
        <5> HIDE DEF HasReader
        <5> QED BY <2>2, <4>1 DEF WriteText
      <4>3. c \notin Silent => In(c, pipe')
        BY <4>2, <1>t, InAppend
      <4>4. \A b : In(b, pipe) => In(b, pipe')
        BY <4>2, <1>t, InAppend
      <4> QED BY <3>1, <3>2, <3>3, <4>3, <4>4, <1>k
    <3> QED BY <3>1, <3>3, <1>k
  <2>3. CASE FcloseWrite(c)
    <3>1. /\ UNCHANGED <<server, leaked, results, expected>>
          /\ client[c] = "fclose" /\ pipe' = Kept
      BY <2>3 DEF FcloseWrite
    <3>2. \A b \in Texts : b # c => client'[b] = client[b]
      BY <2>3, <1>t DEF FcloseWrite
    <3>3. \A b \in Texts : client[b] = "open" => client'[b] = "open"
      BY <3>1, <3>2
    <3> QED BY <3>1, <3>3, <1>r, <1>k
  <2> QED BY <1>9, <2>1, <2>2, <2>3
<1>10. CASE UNCHANGED pipeVars
  BY <1>10, <1>k DEF pipeVars, results
<1> QED BY <1>1, <1>2, <1>3, <1>4, <1>5, <1>6, <1>7, <1>8, <1>9, <1>10 DEF PipeNext, PipeServer

(* Whoever else comes, and however many ends the server forgot to close.    *)
THEOREM TextsArrive == PipeSpec => []ExpectedArrives
<1>1. PipeInit => PipeInv
  BY PipeAssumption DEF PipeInit, PipeInv
<1>2. PipeInit => PipeTypeInv
  <2>1. << >> \in Seq(Texts) /\ 0 \in 0 .. OPEN_MAX
    BY PipeAssumption
  <2> QED BY <2>1 DEF PipeInit, PipeTypeInv, PipeTypeOK, AtPipe
<1>3. PipeInv => ExpectedArrives
  BY DEF PipeInv, ExpectedArrives, In
<1> QED BY <1>1, <1>2, <1>3, PipeTypeInductive, PipeInductive, PTL DEF PipeSpec
-------------------------------------------------------------------------------
(* MCProcesses runs one of the programs and leaves the others alone, so     *)
(* what is proved of each is proved of what TLC runs.                       *)
LEMMA ProgramsRun ==
  MCSpec => Spec /\ HandshakeSpec /\ WordsSpec /\ QueueSpec /\ EchoSpec /\ PipeSpec
<1>1. MCInit => Init /\ HandshakeInit /\ WordsInit /\ QueueInit /\ EchoInit /\ PipeInit
  BY DEF MCInit
<1>2. [MCNext]_MCVars =>
        /\ [Next]_vars /\ [HandshakeNext]_handshakeVars /\ [WordsNext]_wordVars
        /\ [QueueNext]_queueVars /\ [EchoNext]_echoVars /\ [PipeNext]_pipeVars
  BY DEF MCNext, MCVars, ChatRuns, HandshakeRuns, WordsRun, QueueRuns, EchoRuns, PipeRuns
<1> QED BY <1>1, <1>2, PTL
     DEF MCSpec, Spec, HandshakeSpec, WordsSpec, QueueSpec, EchoSpec, PipeSpec

(* Every variable of the programs with processes keeps its type: no client  *)
(* of the handshake leaves the text, the queue keeps its bound, no third    *)
(* segment of the chat is made.                                             *)
THEOREM ProcessesTypes == MCSpec => []ProcessesTypeOK
BY ProgramsRun, ChatTypes, HandshakeTypes, WordsTypes, QueueTypes, EchoTypes, PipeTypes, PTL
   DEF ProcessesTypeOK
================================================================================
