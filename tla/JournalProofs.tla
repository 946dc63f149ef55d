---------------------------- MODULE JournalProofs ----------------------------
(***************************************************************************)
(* Theorems about Journal, for every set of processes, callers and keys    *)
(* and any number of events, restarts and failing calls.                   *)
(*                                                                         *)
(* HistoryIsOne needs no fact about who holds a lock: a prepared event     *)
(* names a predecessor that is stored (Prepared), rows are never taken     *)
(* back while the storage loses none, and the unique columns decide        *)
(* between two successors.  What must be carried along is that a process   *)
(* remembers only stored keys (Remembered), and that no sequence number is *)
(* left out and no two rows disagree on their common past (OneChain).      *)
(***************************************************************************)
EXTENDS Journal, WellFoundedInduction, TLAPS

(* Leaves are Zenon's unless they cite SMT; the time is for slow machines. *)
USE ZenonT(60)

Hashes == Seq(Nat)
Rows == [seq : Nat, key : Keys \cup {NoKey}, prev : Hashes, hash : Hashes]
Memories == [integrity : {"UNVERIFIED", "VALID", "CORRUPTED"}, head : Hashes,
             keys : SUBSET Keys, lock : Callers \cup {Free, Loader}]
Calls == [at : {"idle", "waiting", "appending", "lookup"},
          key : Keys \cup {NoKey}, event : Rows \cup {NoEvent},
          answer : {"none", "created", "duplicate", "unavailable"}]
Budgets == [restart : 0..MaxRestarts, fault : 0..MaxFaults, lost : 0..MaxLost]

(* A row extends the chain its predecessor's hash stands for by one.       *)
WellFormed(e) ==
    /\ e \in Rows
    /\ Len(e.hash) = e.seq
    /\ Len(e.prev) + 1 = e.seq
    /\ \A i \in 1..Len(e.prev) : e.hash[i] = e.prev[i]

Writing(p, c) == call[p][c].at \in {"appending", "lookup"}

(* The shape of the state, whatever the storage has lost.                  *)
Shape ==
    /\ \A e \in table : WellFormed(e)
    /\ mem \in [Procs -> Memories]
    /\ call \in [Procs -> [Callers -> Calls]]
    /\ \A p \in Procs, c \in Callers : Writing(p, c) =>
         WellFormed(call[p][c].event) /\ call[p][c].event.key = call[p][c].key
    /\ fresh \in Nat
    /\ left \in Budgets

InTable(hash) == hash = <<>> \/ \E f \in table : f.hash = hash

(* Rows start from GENESIS or from another row; no sequence number is left *)
(* out or taken twice, and the rows agree on their common past.            *)
OneChain ==
    /\ \A e \in table : InTable(e.prev)
    /\ \A e \in table : \A n \in 1..e.seq : \E f \in table : f.seq = n
    /\ \A e, f \in table : e.seq = f.seq => e = f
    /\ \A e, f \in table : e.seq <= f.seq => \A i \in 1..e.seq : e.hash[i] = f.hash[i]

(* What memory holds is stored.                                            *)
Remembered ==
    \A p \in Procs :
      /\ InTable(mem[p].head)
      /\ \A k \in mem[p].keys : \E e \in table : e.key = k

(* An event that is being written has a stored predecessor.                *)
Prepared ==
    \A p \in Procs, c \in Callers : Writing(p, c) => InTable(call[p][c].event.prev)

(* Every answer given names a stored row.                                  *)
Answered ==
    \A p \in Procs, c \in Callers :
      LET r == call[p][c] IN
      /\ r.at = "idle" /\ r.answer = "created" => r.event \in table
      /\ r.at = "idle" /\ r.answer = "duplicate" => \E e \in table : e.key = r.key

Sound == OneChain /\ Remembered /\ Prepared /\ Answered

IInv == Shape /\ (Intact => Sound)

------------------------------------------------------------------------------
(* Helpers.                                                                *)

(* The sequence of nothing.                                                *)
LEMMA NoElements ==
  ASSUME NEW S
  PROVE  <<>> \in Seq(S) /\ \A q \in Seq(S) : Len(q) = 0 <=> q = <<>>
  BY SMTT(60)

(* A set of rows has a first one: sequence numbers are naturals.           *)
LEMMA FirstIsRow ==
  ASSUME NEW rows, rows # {}, \A e \in rows : e.seq \in Nat
  PROVE  First(rows) \in rows
<1> DEFINE seqs == {e.seq : e \in rows}
           R == OpToRel(<, Nat)
<1>1. seqs \subseteq Nat /\ seqs # {}
  OBVIOUS
<1>2. IsWellFoundedOn(R, Nat)
  BY NatLessThanWellFounded
<1>3. \E x \in seqs : \A y \in seqs : ~(<<y, x>> \in R)
  <2> HIDE DEF seqs, R
  <2> QED
    BY <1>1, <1>2, WFMin
<1>4. PICK x \in seqs : \A y \in seqs : ~(<<y, x>> \in R)
  BY <1>3
<1>5. \A y \in seqs : x <= y
  <2> TAKE y \in seqs
  <2>1. ~(<<y, x>> \in R) /\ y \in Nat /\ x \in Nat
    BY <1>1, <1>4
  <2> QED
    BY SMTT(60), <2>1 DEF OpToRel
<1>6. \E e \in rows : \A f \in rows : e.seq <= f.seq
  BY <1>4, <1>5
<1> QED
  BY <1>6 DEF First

(* Extending a chain.                                                      *)
LEMMA ExtendRow ==
  ASSUME Shape, NEW head \in Hashes, NEW k \in Keys \cup {NoKey}
  PROVE  /\ WellFormed(Extend(head, k))
         /\ Extend(head, k).key = k
         /\ Extend(head, k).prev = head
<1>1. fresh + 1 \in Nat
  BY SMTT(60) DEF Shape
<1>2. /\ Append(head, fresh + 1) \in Hashes
      /\ Len(Append(head, fresh + 1)) = Len(head) + 1
      /\ \A i \in 1..Len(head) : Append(head, fresh + 1)[i] = head[i]
      /\ Len(head) \in Nat
  BY SMTT(60), <1>1 DEF Hashes
<1> QED
  BY SMTT(60), <1>2 DEF Extend, WellFormed, Rows

(* A budget is spent: the storage has lost a row or it has not.            *)
LEMMA SpendStep ==
  ASSUME Shape, NEW what \in {"restart", "fault", "lost"}, Spend(what)
  PROVE  /\ left' \in Budgets
         /\ what # "lost" => left'.lost = left.lost
         /\ what = "lost" => left'.lost # MaxLost
  BY SMTT(60), BoundAssumption DEF Shape, Spend, Budgets

------------------------------------------------------------------------------
LEMMA InitIInv == Init => IInv
<1> SUFFICES ASSUME Init PROVE IInv
  OBVIOUS
<1>1. Boot \in Memories /\ Idle \in Calls
  BY NoElements DEF Boot, Memories, Idle, Calls, Hashes, Free, Loader
<1>2. left \in Budgets
  BY SMTT(60), BoundAssumption DEF Init, Budgets
<1>3. Shape
  BY <1>1, <1>2 DEF Init, Shape, Writing, Idle
<1>4. Sound
  BY DEF Init, Sound, OneChain, Remembered, Prepared, Answered, InTable, Writing, Idle, Boot
<1> QED
  BY <1>3, <1>4 DEF IInv

------------------------------------------------------------------------------
(* The table.                                                              *)

(* The row that is added, if any, is well formed, has a stored predecessor *)
(* and clashes with no row.                                                *)
Grows ==
    \/ table' = table
    \/ \E e \in Rows :
         /\ table' = table \cup {e}
         /\ WellFormed(e)
         /\ Intact => InTable(e.prev)
         /\ ~\E f \in table : Clash(e, f)

(* Adding such a row keeps one chain: the unique sequence number refuses a *)
(* second successor of the same head.                                      *)
LEMMA ChainGrows ==
  ASSUME Shape, Intact, OneChain, Grows
  PROVE  OneChain' /\ \A e \in table' : WellFormed(e)
<1>w. \A e \in table : WellFormed(e)
  BY DEF Shape
<1>1. CASE table' = table
  BY <1>1, <1>w DEF OneChain, InTable
<1>2. CASE table' # table
  <2>0. PICK e \in Rows :
          /\ table' = table \cup {e}
          /\ WellFormed(e)
          /\ Intact => InTable(e.prev)
          /\ ~\E f \in table : Clash(e, f)
    BY <1>2 DEF Grows
  <2>1. /\ table' = table \cup {e}
        /\ WellFormed(e)
        /\ InTable(e.prev)
        /\ ~\E f \in table : Clash(e, f)
    BY <2>0
  <2>2. \A f \in table' : /\ WellFormed(f) /\ f.seq \in Nat /\ f.seq >= 1
                           /\ Len(f.hash) = f.seq /\ Len(f.prev) = f.seq - 1
    <3>1. \A f \in table' : WellFormed(f)
      BY <1>w, <2>1
    <3>2. \A s \in Hashes : Len(s) \in Nat
      BY SMTT(60) DEF Hashes
    <3> QED
      BY SMTT(60), <3>1, <3>2 DEF WellFormed, Rows
  <2>3. \A f \in table : f.seq # e.seq
    BY <2>1 DEF Clash
  <2>4. \A f \in table : f.seq < e.seq
    <3> SUFFICES ASSUME NEW f \in table, ~(f.seq < e.seq) PROVE FALSE
      OBVIOUS
    <3>1. e \in table' /\ f \in table'
      BY <2>1
    <3>2. e.seq \in 1..f.seq
      BY SMTT(60), <2>2, <3>1
    <3> QED
      BY <2>3, <3>2 DEF OneChain
  <2>5. \A f \in table' : InTable(f.prev)'
    BY <2>1 DEF OneChain, InTable
  <2>6. \A f \in table' : \A n \in 1..f.seq : \E g \in table' : g.seq = n
    <3>1. \A f \in table : \A n \in 1..f.seq : \E g \in table' : g.seq = n
      BY <2>1 DEF OneChain
    <3>2. \A n \in 1..e.seq : \E g \in table' : g.seq = n
      <4> TAKE n \in 1..e.seq
      <4>1. e \in table'
        BY <2>1
      <4>2. CASE n = e.seq
        BY <4>1, <4>2
      <4>3. CASE n # e.seq
        <5>1. e.prev # <<>>
          BY SMTT(60), <2>2, <4>1, <4>3, NoElements
        <5>2. PICK g \in table : g.hash = e.prev
          BY <2>1, <5>1 DEF InTable
        <5>3. g.seq = e.seq - 1
          BY <2>1, <2>2, <5>2
        <5>4. n \in 1..g.seq
          BY SMTT(60), <2>2, <4>1, <4>3, <5>3
        <5> QED
          BY <3>1, <5>4
      <4> QED
        BY <4>2, <4>3
    <3> QED
      BY <2>1, <3>1, <3>2
  <2>7. \A f, g \in table' : f.seq = g.seq => f = g
    BY <2>1, <2>3 DEF OneChain
  <2>8. \A f, g \in table' : f.seq <= g.seq => \A i \in 1..f.seq : f.hash[i] = g.hash[i]
    <3> SUFFICES ASSUME NEW f \in table', NEW g \in table', f.seq <= g.seq, NEW i \in 1..f.seq
                 PROVE  f.hash[i] = g.hash[i]
      OBVIOUS
    <3>1. CASE f \in table /\ g \in table
      BY SMTT(60), <3>1 DEF OneChain
    <3>2. CASE f = e
      <4>1. g = e
        BY SMTT(60), <2>1, <2>2, <2>4, <3>2
      <4> QED
        BY <3>2, <4>1
    <3>3. CASE f \in table /\ g = e
      <4>1. f.seq < e.seq /\ e \in table'
        BY <2>1, <2>4, <3>3
      <4>2. i \in 1..Len(e.prev)
        BY SMTT(60), <2>2, <4>1
      <4>3. e.hash[i] = e.prev[i]
        BY <2>1, <4>2 DEF WellFormed
      <4>4. e.prev # <<>>
        BY SMTT(60), <2>2, <4>2, NoElements
      <4>5. PICK h \in table : h.hash = e.prev
        BY <2>1, <4>4 DEF InTable
      <4>6. h.seq = e.seq - 1
        BY <2>1, <2>2, <4>5
      <4>7. f.seq <= h.seq
        BY SMTT(60), <2>2, <4>1, <4>6
      <4>8. f.hash[i] = h.hash[i]
        BY SMTT(60), <3>3, <4>7 DEF OneChain
      <4> QED
        BY <3>3, <4>3, <4>5, <4>8
    <3> QED
      BY <2>1, <3>1, <3>2, <3>3
  <2> QED
    BY <2>2, <2>5, <2>6, <2>7, <2>8 DEF OneChain
<1> QED
  BY <1>1, <1>2 DEF Grows

------------------------------------------------------------------------------
(* What one process does.                                                  *)

CallChanges(p, c, r) ==
    /\ call' \in [Procs -> [Callers -> Calls]]
    /\ call'[p][c] = r
    /\ \A q \in Procs, d \in Callers : q # p \/ d # c => call'[q][d] = call[q][d]

(* The chain, the cache and a call of p change as the table allows: the    *)
(* step that every action but a restart and a lost row is an instance of.  *)
LEMMA WriterStep ==
  ASSUME IInv, Grows,
         NEW p \in Procs, NEW m \in Memories, mem' = [mem EXCEPT ![p] = m],
         NEW c \in Callers, NEW r \in Calls, CallChanges(p, c, r),
         fresh' \in Nat, left' \in Budgets, left'.lost = left.lost,
         r.at \in {"appending", "lookup"} => WellFormed(r.event) /\ r.event.key = r.key,
         Intact =>
           /\ m.head = <<>> \/ \E e \in table' : e.hash = m.head
           /\ \A k \in m.keys : \E e \in table' : e.key = k
           /\ r.at \in {"appending", "lookup"} => InTable(r.event.prev)
           /\ r.at = "idle" /\ r.answer = "created" => r.event \in table'
           /\ r.at = "idle" /\ r.answer = "duplicate" => \E e \in table' : e.key = r.key
  PROVE  IInv'
<1>s. Shape
  BY DEF IInv
<1>g. table \subseteq table' /\ \A e \in table' : WellFormed(e)
  BY <1>s DEF Shape, Grows
<1>m. /\ mem' \in [Procs -> Memories] /\ mem'[p] = m
      /\ \A q \in Procs : q # p => mem'[q] = mem[q]
  BY <1>s DEF Shape
<1>c. /\ call' \in [Procs -> [Callers -> Calls]]
      /\ call'[p][c] = r
      /\ \A q \in Procs, d \in Callers : q # p \/ d # c => call'[q][d] = call[q][d]
  BY DEF CallChanges
<1>1. Shape'
  <2>1. \A q \in Procs, d \in Callers : Writing(q, d)' =>
          WellFormed(call'[q][d].event) /\ call'[q][d].event.key = call'[q][d].key
    BY SMTT(60), <1>s, <1>c DEF Shape, Writing
  <2>2. \A q \in Procs, d \in Callers : Writing(q, d)' =>
          (WellFormed(call[q][d].event) /\ call[q][d].event.key = call[q][d].key)'
    BY <2>1 DEF WellFormed
  <2>3. \A e \in table' : WellFormed(e)'
    BY <1>g DEF WellFormed
  <2> QED
    BY <1>m, <1>c, <2>2, <2>3 DEF Shape
<1>2. ASSUME Intact' PROVE Sound'
  <2>1. Intact /\ Sound
    BY <1>2 DEF Intact, IInv
  <2>2. OneChain'
    BY <1>s, <2>1, ChainGrows DEF Sound
  <2>3. Remembered'
    BY SMTT(60), <1>g, <1>m, <2>1 DEF Sound, Remembered, InTable
  <2>4. Prepared'
    BY SMTT(60), <1>g, <1>c, <2>1 DEF Sound, Prepared, InTable, Writing
  <2>5. Answered'
    BY SMTT(60), <1>g, <1>c, <2>1 DEF Sound, Answered
  <2> QED
    BY <2>2, <2>3, <2>4, <2>5 DEF Sound
<1> QED
  BY <1>1, <1>2 DEF IInv

(* Only the memory of p changes.                                           *)
LEMMA MemoryStep ==
  ASSUME IInv, NEW p \in Procs, NEW m \in Memories, mem' = [mem EXCEPT ![p] = m],
         UNCHANGED <<table, call, fresh>>, left' \in Budgets, left'.lost = left.lost,
         Intact => /\ InTable(m.head)
                   /\ \A k \in m.keys : \E e \in table : e.key = k
  PROVE  IInv'
<1>s. Shape
  BY DEF IInv
<1>m. /\ mem' \in [Procs -> Memories] /\ mem'[p] = m
      /\ \A q \in Procs : q # p => mem'[q] = mem[q]
  BY <1>s DEF Shape
<1>1. Shape'
  BY <1>s DEF Shape, Writing
<1>2. ASSUME Intact' PROVE Sound'
  <2>1. Intact /\ Sound
    BY <1>2 DEF Intact, IInv
  <2>2. OneChain' /\ Prepared' /\ Answered'
    BY SMTT(60), <2>1 DEF Sound, OneChain, Prepared, Answered, InTable, Writing
  <2>3. Remembered'
    BY <1>m, <2>1 DEF Sound, Remembered, InTable
  <2> QED
    BY <2>2, <2>3 DEF Sound
<1> QED
  BY <1>1, <1>2 DEF IInv

(* A row read or written extends the chain and the cache in memory.        *)
LEMMA RestoredMemory ==
  ASSUME Shape, NEW p \in Procs, NEW e, WellFormed(e), NEW lock \in Callers \cup {Free, Loader}
  PROVE  LET m == [integrity |-> mem[p].integrity, head |-> e.hash,
                   keys |-> mem[p].keys \cup ({e.key} \cap Keys), lock |-> lock]
         IN  /\ m \in Memories
             /\ [Restored(mem[p], e) EXCEPT !.lock = lock] = m
             /\ lock = mem[p].lock => Restored(mem[p], e) = m
<1>1. mem[p] \in Memories /\ e.hash \in Hashes
  BY DEF Shape, WellFormed, Rows
<1> DEFINE x == [mem[p] EXCEPT !.head = e.hash, !.keys = @ \cup ({e.key} \cap Keys)]
           m == [integrity |-> mem[p].integrity, head |-> e.hash,
                 keys |-> mem[p].keys \cup ({e.key} \cap Keys), lock |-> lock]
<1>2. m \in Memories
  BY <1>1 DEF Memories
<1>3. /\ x \in Memories /\ x.integrity = mem[p].integrity /\ x.head = e.hash
      /\ x.keys = mem[p].keys \cup ({e.key} \cap Keys) /\ x.lock = mem[p].lock
  BY <1>1 DEF Memories
<1>4. Restored(mem[p], e) = x
  BY DEF Restored
<1> HIDE DEF x
<1>5. [x EXCEPT !.lock = lock] = m
  BY SMTT(60), <1>3 DEF Memories
<1>6. lock = mem[p].lock => x = m
  BY <1>3 DEF Memories
<1> QED
  BY <1>2, <1>4, <1>5, <1>6

------------------------------------------------------------------------------
(* start().                                                                *)

LEMMA RestoreStep ==
  ASSUME IInv, NEW p \in Procs, Restore(p)
  PROVE  IInv'
<1> DEFINE e == First(After(p))
<1>s. Shape
  BY DEF IInv
<1>1. e \in table /\ WellFormed(e)
  <2>1. After(p) \subseteq table /\ After(p) # {}
    BY DEF Restore, After
  <2>2. \A f \in After(p) : f.seq \in Nat
    BY <1>s, <2>1 DEF Shape, WellFormed, Rows
  <2> QED
    BY <1>s, <2>1, <2>2, FirstIsRow DEF Shape
<1>2. UNCHANGED <<table, call, fresh, left>> /\ left' \in Budgets
  BY <1>s DEF Restore, Shape
<1>3. mem[p] \in Memories /\ mem[p].lock \in Callers \cup {Free, Loader}
  BY <1>s DEF Shape, Memories
<1>4. Intact => /\ InTable(mem[p].head)
                /\ \A k \in mem[p].keys : \E f \in table : f.key = k
  BY DEF IInv, Sound, Remembered
<1>5. CASE Links(e, mem[p].head)
  <2> DEFINE m == [integrity |-> mem[p].integrity, head |-> e.hash,
                   keys |-> mem[p].keys \cup ({e.key} \cap Keys), lock |-> mem[p].lock]
  <2>1. mem' = [mem EXCEPT ![p] = Restored(mem[p], e)]
    BY <1>5 DEF Restore
  <2>2. m \in Memories /\ Restored(mem[p], e) = m
    <3> HIDE DEF e
    <3> QED
      BY <1>s, <1>1, <1>3, RestoredMemory
  <2>3. Intact => InTable(m.head) /\ \A k \in m.keys : \E f \in table : f.key = k
    <3> HIDE DEF e
    <3> QED
      BY <1>1, <1>4 DEF InTable
  <2> HIDE DEF m, e
  <2> QED
    BY <1>2, <2>1, <2>2, <2>3, MemoryStep
<1>6. CASE ~Links(e, mem[p].head)
  <2> DEFINE m == [mem[p] EXCEPT !.integrity = "CORRUPTED", !.lock = Free]
  <2>1. mem' = [mem EXCEPT ![p] = m]
    BY <1>6 DEF Restore
  <2>2. m \in Memories /\ m.head = mem[p].head /\ m.keys = mem[p].keys
    BY <1>3 DEF Memories
  <2> HIDE DEF m, e
  <2> QED
    BY <1>2, <1>4, <2>1, <2>2, MemoryStep
<1> QED
  BY <1>5, <1>6

(* The load ends, fails or begins again.                                   *)
LEMMA LoadStep ==
  ASSUME IInv, NEW p \in Procs,
         RestoreDone(p) \/ RestoreFails(p) \/ Retry(p) \/ Reconnect(p)
  PROVE  IInv'
<1>s. Shape /\ mem[p] \in Memories /\ left \in Budgets
  BY DEF IInv, Shape
<1>1. Intact => /\ InTable(mem[p].head)
                /\ \A k \in mem[p].keys : \E f \in table : f.key = k
  BY DEF IInv, Sound, Remembered
<1>2. CASE RestoreDone(p)
  <2> DEFINE m == [mem[p] EXCEPT !.integrity = "VALID", !.lock = Free]
  <2>1. mem' = [mem EXCEPT ![p] = m]
    BY <1>s, <1>2 DEF RestoreDone, Shape
  <2>2. m \in Memories /\ m.head = mem[p].head /\ m.keys = mem[p].keys
    BY <1>s DEF Memories
  <2>3. UNCHANGED <<table, call, fresh, left>>
    BY <1>2 DEF RestoreDone
  <2> HIDE DEF m
  <2> QED
    BY <1>s, <1>1, <2>1, <2>2, <2>3, MemoryStep
<1>3. CASE RestoreFails(p)
  <2> DEFINE m == [mem[p] EXCEPT !.lock = Free]
  <2>1. mem' = [mem EXCEPT ![p] = m] /\ UNCHANGED <<table, call, fresh>> /\ Spend("fault")
    BY <1>3 DEF RestoreFails
  <2>2. m \in Memories /\ m.head = mem[p].head /\ m.keys = mem[p].keys
    BY <1>s DEF Memories
  <2>3. left' \in Budgets /\ left'.lost = left.lost
    BY <1>s, <2>1, SpendStep
  <2> HIDE DEF m
  <2> QED
    BY <1>1, <2>1, <2>2, <2>3, MemoryStep
<1>4. CASE Retry(p) \/ Reconnect(p)
  <2>1. mem' = [mem EXCEPT ![p] = Boot] /\ UNCHANGED <<table, call, fresh>>
    BY <1>4 DEF Retry, Reconnect, Reload
  <2>2. left' \in Budgets /\ left'.lost = left.lost
    BY <1>s, <1>4, SpendStep DEF Retry, Reconnect
  <2>3. Boot \in Memories /\ Boot.head = <<>> /\ Boot.keys = {}
    BY NoElements DEF Boot, Memories, Hashes, Free, Loader
  <2> QED
    BY <2>1, <2>2, <2>3, MemoryStep DEF InTable
<1> QED
  BY <1>2, <1>3, <1>4

(* A restart forgets the chain and every call of the process.              *)
LEMMA RestartStep ==
  ASSUME IInv, NEW p \in Procs, Restart(p)
  PROVE  IInv'
<1>s. Shape
  BY DEF IInv
<1>0. UNCHANGED <<table, fresh>> /\ Spend("restart")
  BY DEF Restart
<1>1. left' \in Budgets /\ left'.lost = left.lost
  BY <1>s, <1>0, SpendStep
<1>2. Boot \in Memories /\ Boot.head = <<>> /\ Boot.keys = {}
  BY NoElements DEF Boot, Memories, Hashes, Free, Loader
<1>3. Idle \in Calls /\ Idle.at = "idle" /\ Idle.answer = "none"
  BY DEF Idle, Calls
<1>m. /\ mem' \in [Procs -> Memories] /\ mem'[p] = Boot
      /\ \A q \in Procs : q # p => mem'[q] = mem[q]
  BY <1>s, <1>2 DEF Shape, Restart
<1>c. /\ call' \in [Procs -> [Callers -> Calls]]
      /\ \A c \in Callers : call'[p][c] = Idle
      /\ \A q \in Procs : q # p => call'[q] = call[q]
  BY <1>s, <1>3 DEF Shape, Restart
<1>4. Shape'
  <2>1. \A q \in Procs, d \in Callers : Writing(q, d)' => q # p /\ Writing(q, d)
    BY <1>3, <1>c DEF Writing
  <2> QED
    BY <1>s, <1>0, <1>1, <1>m, <1>c, <2>1 DEF Shape
<1>5. ASSUME Intact' PROVE Sound'
  <2>1. Intact /\ Sound
    BY <1>1, <1>5 DEF Intact, IInv
  <2>2. OneChain'
    BY <1>0, <2>1 DEF Sound, OneChain, InTable
  <2>3. Remembered'
    BY SMTT(60), <1>0, <1>2, <1>m, <2>1 DEF Sound, Remembered, InTable
  <2>4. Prepared'
    BY SMTT(60), <1>0, <1>3, <1>c, <2>1 DEF Sound, Prepared, InTable, Writing
  <2>5. Answered'
    BY SMTT(60), <1>0, <1>3, <1>c, <2>1 DEF Sound, Answered
  <2> QED
    BY <2>2, <2>3, <2>4, <2>5 DEF Sound
<1> QED
  BY <1>4, <1>5 DEF IInv

------------------------------------------------------------------------------
(* record().                                                               *)

(* A call moves to r.                                                      *)
LEMMA CallMoves ==
  ASSUME Shape, NEW p \in Procs, NEW c \in Callers, NEW r \in Calls,
         call' = [call EXCEPT ![p] = [call[p] EXCEPT ![c] = r]]
  PROVE  CallChanges(p, c, r)
<1>1. call \in [Procs -> [Callers -> Calls]]
  BY DEF Shape
<1>2. [call[p] EXCEPT ![c] = r] \in [Callers -> Calls]
  BY <1>1
<1> QED
  BY <1>1, <1>2 DEF CallChanges

(* The call returns.                                                       *)
LEMMA CallEnds ==
  ASSUME Shape, NEW p \in Procs, NEW c \in Callers,
         NEW answer \in {"created", "duplicate", "unavailable"},
         call' = Ends(p, c, answer)
  PROVE  LET r == [at |-> "idle", key |-> call[p][c].key,
                   event |-> call[p][c].event, answer |-> answer]
         IN  r \in Calls /\ CallChanges(p, c, r)
<1> DEFINE r == [at |-> "idle", key |-> call[p][c].key,
                 event |-> call[p][c].event, answer |-> answer]
<1>1. call \in [Procs -> [Callers -> Calls]] /\ call[p][c] \in Calls
  BY DEF Shape
<1>2. r \in Calls
  BY <1>1 DEF Calls
<1>3. Ends(p, c, answer) = [call EXCEPT ![p] = [call[p] EXCEPT ![c] = r]]
  BY <1>1 DEF Ends
<1> HIDE DEF r
<1> QED
  BY <1>2, <1>3, CallMoves DEF r

(* Facts about a writer.                                                   *)
LEMMA WriterFacts ==
  ASSUME IInv, NEW p \in Procs, NEW c \in Callers
  PROVE  /\ Shape /\ mem[p] \in Memories /\ call[p][c] \in Calls
         /\ fresh \in Nat /\ left \in Budgets
         /\ [mem EXCEPT ![p] = mem[p]] = mem
         /\ Writing(p, c) => /\ WellFormed(call[p][c].event)
                             /\ call[p][c].event.key = call[p][c].key
         /\ Intact => /\ InTable(mem[p].head)
                      /\ \A k \in mem[p].keys : \E f \in table : f.key = k
                      /\ Writing(p, c) => InTable(call[p][c].event.prev)
<1>1. Shape
  BY DEF IInv
<1>2. /\ mem[p] \in Memories /\ call[p][c] \in Calls
      /\ fresh \in Nat /\ left \in Budgets
      /\ [mem EXCEPT ![p] = mem[p]] = mem
  BY <1>1 DEF Shape
<1>3. Writing(p, c) => /\ WellFormed(call[p][c].event)
                       /\ call[p][c].event.key = call[p][c].key
  BY <1>1 DEF Shape
<1>4. Intact => /\ InTable(mem[p].head)
                /\ \A k \in mem[p].keys : \E f \in table : f.key = k
                /\ Writing(p, c) => InTable(call[p][c].event.prev)
  BY DEF IInv, Sound, Remembered, Prepared
<1> QED
  BY <1>1, <1>2, <1>3, <1>4

LEMMA RecordStep ==
  ASSUME IInv, NEW p \in Procs, NEW c \in Callers, NEW k \in Keys \cup {NoKey}, Record(p, c, k)
  PROVE  IInv'
<1> DEFINE r == IF mem[p].integrity = "VALID" THEN [Idle EXCEPT !.at = "waiting", !.key = k]
                ELSE [Idle EXCEPT !.key = k, !.answer = "unavailable"]
<1>f. /\ Shape /\ mem[p] \in Memories /\ fresh \in Nat /\ left \in Budgets
      /\ [mem EXCEPT ![p] = mem[p]] = mem
      /\ Intact => /\ InTable(mem[p].head)
                   /\ \A x \in mem[p].keys : \E f \in table : f.key = x
  BY WriterFacts
<1>1. UNCHANGED <<table, mem, fresh, left>>
  BY DEF Record
<1>2. r \in Calls /\ r.at \in {"idle", "waiting"} /\ r.answer \in {"none", "unavailable"}
  BY DEF Idle, Calls
<1>3. call' = [call EXCEPT ![p] = [call[p] EXCEPT ![c] = r]]
  BY <1>f DEF Record, Shape
<1> HIDE DEF r
<1>4. CallChanges(p, c, r)
  BY <1>f, <1>2, <1>3, CallMoves
<1> QED
  BY <1>f, <1>1, <1>2, <1>4, WriterStep DEF Grows, InTable

(* A duplicate in the cache is answered; otherwise the event is prepared.  *)
LEMMA PrepareStep ==
  ASSUME IInv, NEW p \in Procs, NEW c \in Callers, Prepare(p, c)
  PROVE  IInv'
<1>f. /\ Shape /\ mem[p] \in Memories /\ call[p][c] \in Calls
      /\ fresh \in Nat /\ left \in Budgets
      /\ [mem EXCEPT ![p] = mem[p]] = mem
      /\ Intact => /\ InTable(mem[p].head)
                   /\ \A x \in mem[p].keys : \E f \in table : f.key = x
  BY WriterFacts
<1>1. UNCHANGED <<table, left>>
  BY DEF Prepare
<1>2. CASE call[p][c].key \in mem[p].keys
  <2> DEFINE r == [at |-> "idle", key |-> call[p][c].key,
                   event |-> call[p][c].event, answer |-> "duplicate"]
  <2>1. call' = Ends(p, c, "duplicate") /\ UNCHANGED <<mem, fresh>>
    BY <1>2 DEF Prepare
  <2>2. r \in Calls /\ CallChanges(p, c, r)
    BY <1>f, <2>1, CallEnds
  <2>3. r.at = "idle" /\ r.answer = "duplicate" /\ r.key = call[p][c].key
    OBVIOUS
  <2> HIDE DEF r
  <2> QED
    BY <1>f, <1>1, <1>2, <2>1, <2>2, <2>3, WriterStep DEF Grows, InTable
<1>3. CASE call[p][c].key \notin mem[p].keys
  <2> DEFINE e == Extend(mem[p].head, call[p][c].key)
             r == [at |-> "appending", key |-> call[p][c].key,
                   event |-> e, answer |-> "none"]
             m == [mem[p] EXCEPT !.lock = c]
  <2>1. /\ fresh' = fresh + 1
        /\ mem' = [mem EXCEPT ![p].lock = c]
        /\ call' = [call EXCEPT ![p] = [call[p] EXCEPT ![c] = r]]
    BY <1>f, <1>3 DEF Prepare, Shape
  <2>2. WellFormed(e) /\ e.key = call[p][c].key /\ e.prev = mem[p].head
    BY SMTT(60), <1>f, ExtendRow DEF Memories, Calls
  <2> HIDE DEF e
  <2>3. e \in Rows
    BY <2>2 DEF WellFormed
  <2>4. r \in Calls
    BY <1>f, <2>3 DEF Calls
  <2>7. /\ r.at = "appending" /\ r.event = e /\ r.key = call[p][c].key
    OBVIOUS
  <2>8. /\ mem' = [mem EXCEPT ![p] = m] /\ m \in Memories
        /\ m.head = mem[p].head /\ m.keys = mem[p].keys
    BY <1>f, <2>1 DEF Memories
  <2> HIDE DEF r, m
  <2>9. CallChanges(p, c, r)
    BY <1>f, <2>1, <2>4, CallMoves
  <2>10. fresh' \in Nat
    BY SMTT(60), <1>f, <2>1
  <2>11. Grows /\ left' \in Budgets /\ left'.lost = left.lost
    BY <1>f, <1>1 DEF Grows
  <2>12. r.at \in {"appending", "lookup"} => WellFormed(r.event) /\ r.event.key = r.key
    BY <2>2, <2>7
  <2>13. Intact =>
           /\ m.head = <<>> \/ \E f \in table' : f.hash = m.head
           /\ \A k \in m.keys : \E f \in table' : f.key = k
           /\ r.at \in {"appending", "lookup"} => InTable(r.event.prev)
           /\ r.at = "idle" /\ r.answer = "created" => r.event \in table'
           /\ r.at = "idle" /\ r.answer = "duplicate" => \E f \in table' : f.key = r.key
    BY <1>f, <1>1, <2>2, <2>7, <2>8 DEF InTable
  <2> QED
    BY <2>4, <2>8, <2>9, <2>10, <2>11, <2>12, <2>13, WriterStep
<1> QED
  BY <1>2, <1>3

(* The row is committed, then the chain in memory.                         *)
LEMMA StoredStep ==
  ASSUME IInv, NEW p \in Procs, NEW c \in Callers, Stored(p, c)
  PROVE  IInv'
<1> DEFINE e == call[p][c].event
           r == [at |-> "idle", key |-> call[p][c].key, event |-> e, answer |-> "created"]
           m == [integrity |-> mem[p].integrity, head |-> e.hash,
                 keys |-> mem[p].keys \cup ({e.key} \cap Keys), lock |-> Free]
<1>0. /\ table' = table \cup {e} /\ ~\E f \in table : Clash(e, f)
      /\ mem' = Committed(p, e) /\ call' = Ends(p, c, "created")
      /\ UNCHANGED <<fresh, left>> /\ Writing(p, c)
  BY DEF Stored, Writing
<1>f. /\ Shape /\ mem[p] \in Memories /\ call[p][c] \in Calls
      /\ fresh \in Nat /\ left \in Budgets
      /\ WellFormed(e)
      /\ Intact => /\ InTable(e.prev)
                   /\ \A x \in mem[p].keys : \E f \in table : f.key = x
  BY <1>0, WriterFacts
<1>1. r \in Calls /\ CallChanges(p, c, r)
  BY <1>0, <1>f, CallEnds
<1>2. /\ m \in Memories
      /\ [Restored(mem[p], e) EXCEPT !.lock = Free] = m
  <2> HIDE DEF e
  <2> QED
    BY <1>f, RestoredMemory
<1>3. mem' = [mem EXCEPT ![p] = m]
  <2>1. mem' = [mem EXCEPT ![p] = [Restored(mem[p], e) EXCEPT !.lock = Free]]
    BY <1>0 DEF Committed
  <2> HIDE DEF e, m
  <2> QED
    BY <1>2, <2>1
<1>4. /\ r.at = "idle" /\ r.answer = "created" /\ r.event = e
      /\ m.head = e.hash /\ m.keys \subseteq mem[p].keys \cup {e.key}
  OBVIOUS
<1>5. Grows
  <2> HIDE DEF e
  <2> QED
    BY <1>0, <1>f DEF Grows, WellFormed
<1> HIDE DEF e, r, m
<1>6. fresh' \in Nat /\ left' \in Budgets /\ left'.lost = left.lost
  BY <1>0, <1>f
<1>7. Intact =>
        /\ m.head = <<>> \/ \E f \in table' : f.hash = m.head
        /\ \A k \in m.keys : \E f \in table' : f.key = k
        /\ r.at \in {"appending", "lookup"} => InTable(r.event.prev)
        /\ r.at = "idle" /\ r.answer = "created" => r.event \in table'
        /\ r.at = "idle" /\ r.answer = "duplicate" => \E f \in table' : f.key = r.key
  BY <1>0, <1>f, <1>4
<1> QED
  BY <1>1, <1>2, <1>3, <1>4, <1>5, <1>6, <1>7, WriterStep

(* A unique column refuses the row.                                        *)
LEMMA RefusedStep ==
  ASSUME IInv, NEW p \in Procs, NEW c \in Callers, Refused(p, c)
  PROVE  IInv'
<1> DEFINE r == [at |-> "lookup", key |-> call[p][c].key,
                 event |-> call[p][c].event, answer |-> "none"]
<1>0. UNCHANGED <<table, mem, fresh, left>> /\ Writing(p, c)
  BY DEF Refused, Writing
<1>f. /\ Shape /\ mem[p] \in Memories /\ call[p][c] \in Calls
      /\ fresh \in Nat /\ left \in Budgets
      /\ [mem EXCEPT ![p] = mem[p]] = mem
      /\ WellFormed(call[p][c].event) /\ call[p][c].event.key = call[p][c].key
      /\ Intact => /\ InTable(mem[p].head)
                   /\ \A x \in mem[p].keys : \E f \in table : f.key = x
                   /\ InTable(call[p][c].event.prev)
  BY <1>0, WriterFacts
<1>1. r \in Calls
  BY <1>f DEF Calls
<1>2. call' = [call EXCEPT ![p] = [call[p] EXCEPT ![c] = r]]
  BY <1>f DEF Refused, Shape
<1>3. /\ r.at = "lookup" /\ r.event = call[p][c].event /\ r.key = call[p][c].key
  OBVIOUS
<1> HIDE DEF r
<1>4. CallChanges(p, c, r)
  BY <1>f, <1>1, <1>2, CallMoves
<1> QED
  BY SMTT(60), <1>0, <1>f, <1>1, <1>3, <1>4, WriterStep DEF Grows, InTable

(* The row with the key answers, or the journal locks itself.              *)
LEMMA LookupStep ==
  ASSUME IInv, NEW p \in Procs, NEW c \in Callers, Lookup(p, c)
  PROVE  IInv'
<1> DEFINE k == call[p][c].key
           found == \E f \in table : k # NoKey /\ f.key = k
           answer == IF found THEN "duplicate" ELSE "unavailable"
           r == [at |-> "idle", key |-> k, event |-> call[p][c].event, answer |-> answer]
           m == IF found THEN [mem[p] EXCEPT !.lock = Free, !.keys = @ \cup {k}]
                ELSE [mem[p] EXCEPT !.lock = Free, !.integrity = "CORRUPTED"]
<1>f. /\ Shape /\ mem[p] \in Memories /\ call[p][c] \in Calls
      /\ fresh \in Nat /\ left \in Budgets
      /\ Intact => /\ InTable(mem[p].head)
                   /\ \A x \in mem[p].keys : \E f \in table : f.key = x
  BY WriterFacts
<1>0. UNCHANGED <<table, fresh, left>> /\ call' = Ends(p, c, answer)
  BY DEF Lookup
<1>1. r \in Calls /\ CallChanges(p, c, r)
  <2>1. answer \in {"created", "duplicate", "unavailable"}
    OBVIOUS
  <2> HIDE DEF answer
  <2> QED
    BY <1>0, <1>f, <2>1, CallEnds
<1>2. mem' = [mem EXCEPT ![p] = m]
  BY <1>f DEF Lookup, Shape
<1>3. /\ m \in Memories /\ m.head = mem[p].head
      /\ m.keys = IF found THEN mem[p].keys \cup {k} ELSE mem[p].keys
  <2>1. found => k \in Keys
    BY <1>f DEF Calls
  <2> HIDE DEF found, k
  <2> QED
    BY <1>f, <2>1 DEF Memories
<1>4. r.at = "idle" /\ r.answer = answer /\ r.key = k
  OBVIOUS
<1>5. found => \E f \in table : f.key = k
  OBVIOUS
<1>6. answer = "duplicate" => found
  <2> HIDE DEF found
  <2> QED
    OBVIOUS
<1>7. answer # "created"
  <2> HIDE DEF found
  <2> QED
    OBVIOUS
<1> HIDE DEF r, m, found, k, answer
<1>8. Intact =>
        /\ m.head = <<>> \/ \E f \in table' : f.hash = m.head
        /\ \A x \in m.keys : \E f \in table' : f.key = x
        /\ r.at \in {"appending", "lookup"} => InTable(r.event.prev)
        /\ r.at = "idle" /\ r.answer = "created" => r.event \in table'
        /\ r.at = "idle" /\ r.answer = "duplicate" => \E f \in table' : f.key = r.key
  BY <1>0, <1>f, <1>3, <1>4, <1>5, <1>6, <1>7 DEF InTable
<1>9. Grows /\ fresh' \in Nat /\ left' \in Budgets /\ left'.lost = left.lost
  BY <1>0, <1>f DEF Grows
<1> QED
  BY <1>1, <1>2, <1>3, <1>4, <1>8, <1>9, WriterStep

(* The driver raises: the row may be there, memory does not know.          *)
LEMMA WriteFailsStep ==
  ASSUME IInv, NEW p \in Procs, NEW c \in Callers, WriteFails(p, c)
  PROVE  IInv'
<1> DEFINE e == call[p][c].event
           r == [at |-> "idle", key |-> call[p][c].key, event |-> e, answer |-> "unavailable"]
           m == [mem[p] EXCEPT !.lock = Free]
<1>0. /\ Writing(p, c) /\ Spend("fault")
      /\ \/ table' = table
         \/ table' = table \cup {e} /\ ~\E f \in table : Clash(e, f)
      /\ mem' = [mem EXCEPT ![p] = m] /\ call' = Ends(p, c, "unavailable") /\ fresh' = fresh
  BY DEF WriteFails, Writing
<1>f. /\ Shape /\ mem[p] \in Memories /\ call[p][c] \in Calls
      /\ fresh \in Nat /\ WellFormed(e)
      /\ Intact => /\ InTable(mem[p].head)
                   /\ \A x \in mem[p].keys : \E f \in table : f.key = x
                   /\ InTable(e.prev)
  BY <1>0, WriterFacts
<1>1. r \in Calls /\ CallChanges(p, c, r)
  BY <1>0, <1>f, CallEnds
<1>2. m \in Memories /\ m.head = mem[p].head /\ m.keys = mem[p].keys
  BY <1>f DEF Memories
<1>3. left' \in Budgets /\ left'.lost = left.lost
  BY <1>0, <1>f, SpendStep
<1>4. Grows
  <2> HIDE DEF e
  <2> QED
    BY <1>0, <1>f DEF Grows, WellFormed
<1>5. r.at = "idle" /\ r.answer = "unavailable"
  OBVIOUS
<1>6. table \subseteq table'
  BY <1>0
<1> HIDE DEF e, r, m
<1>7. Intact =>
        /\ m.head = <<>> \/ \E f \in table' : f.hash = m.head
        /\ \A x \in m.keys : \E f \in table' : f.key = x
        /\ r.at \in {"appending", "lookup"} => InTable(r.event.prev)
        /\ r.at = "idle" /\ r.answer = "created" => r.event \in table'
        /\ r.at = "idle" /\ r.answer = "duplicate" => \E f \in table' : f.key = r.key
  BY <1>f, <1>2, <1>5, <1>6 DEF InTable
<1> QED
  BY <1>0, <1>f, <1>1, <1>2, <1>3, <1>4, <1>5, <1>7, WriterStep

------------------------------------------------------------------------------
(* A lost row ends what is promised, not the shape.                        *)
LEMMA RowLostStep ==
  ASSUME IInv, RowLost
  PROVE  IInv'
<1>s. Shape
  BY DEF IInv
<1>1. table' \subseteq table /\ UNCHANGED <<mem, call, fresh>> /\ Spend("lost")
  BY DEF RowLost
<1>2. left' \in Budgets /\ left'.lost # MaxLost
  BY <1>s, <1>1, SpendStep
<1>3. Shape'
  BY SMTT(60), <1>s, <1>1, <1>2 DEF Shape, Writing, WellFormed
<1> QED
  BY <1>2, <1>3 DEF IInv, Intact

LEMMA StutterStep ==
  ASSUME IInv, UNCHANGED vars
  PROVE  IInv'
<1>1. Shape'
  BY SMTT(60) DEF IInv, vars, Shape, Writing, WellFormed
<1>2. Intact' => Sound'
  BY SMTT(60) DEF IInv, vars, Intact, Sound, OneChain, Remembered, Prepared, Answered, InTable, Writing
<1> QED
  BY <1>1, <1>2 DEF IInv

LEMMA NextIInv == IInv /\ [Next]_vars => IInv'
  BY RestoreStep, LoadStep, RestartStep, RecordStep, PrepareStep, StoredStep, RefusedStep,
     LookupStep, WriteFailsStep, RowLostStep, StutterStep
  DEF Next, Load, Write

------------------------------------------------------------------------------
(* The inductive invariant holds in every reachable state.                 *)
THEOREM Invariance == Spec => []IInv
  BY InitIInv, NextIInv, PTL DEF Spec

(* For any number of processes, callers, restarts and failing calls, the   *)
(* table is one chain without a fork, memory stands on it and every answer *)
(* of record() names a row of it (event_state.py, journal_store.py).       *)
THEOREM AlwaysOneHistory == Spec => []HistoryIsOne
<1>1. IInv => HistoryIsOne
  <2> SUFFICES ASSUME IInv, Intact PROVE HistoryIsOne
    BY DEF HistoryIsOne, ChainIntact, NoFork, MemoryIsDurable, AnsweredIsStored
  <2>1. Shape /\ Sound
    BY DEF IInv
  <2>2. \A e \in table : /\ WellFormed(e) /\ e.seq \in Nat /\ Len(e.hash) = e.seq
                          /\ Len(e.prev) + 1 = e.seq /\ Len(e.prev) \in Nat
    BY SMTT(60), <2>1 DEF Shape, WellFormed, Rows, Hashes
  <2>3. ASSUME NEW e \in table
        PROVE  e.prev = <<>> \/ \E f \in table : f.seq = e.seq - 1 /\ e.prev = f.hash
    <3>1. CASE e.prev # <<>>
      <4>1. PICK f \in table : f.hash = e.prev
        BY <2>1, <3>1 DEF Sound, OneChain, InTable
      <4>2. f.seq = e.seq - 1
        BY SMTT(60), <2>2, <4>1
      <4> QED
        BY <4>1, <4>2
    <3> QED
      BY <3>1
  <2>4. ChainIntact
    BY <2>1, <2>2, <2>3 DEF ChainIntact, Sound, OneChain
  <2>7. NoFork
    BY <2>1 DEF NoFork, Sound, OneChain
  <2>5. MemoryIsDurable
    BY <2>1 DEF MemoryIsDurable, Sound, Remembered, InTable
  <2>6. AnsweredIsStored
    BY <2>1 DEF AnsweredIsStored, Sound, Answered
  <2> QED
    BY <2>4, <2>5, <2>6, <2>7 DEF HistoryIsOne
<1> QED
  BY <1>1, Invariance, PTL
==============================================================================
