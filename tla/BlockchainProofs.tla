-------------------------- MODULE BlockchainProofs --------------------------
(***************************************************************************)
(* Proofs about the main chain, the alternative blocks and chain switches, *)
(* for any tree of blocks and transactions, any checkpoints and any of the *)
(* events.                                                                 *)
(***************************************************************************)
EXTENDS Blockchain, MinMaxLemmas, SequenceTheorems, TLAPS

-----------------------------------------------------------------------------
(* The tree of blocks *)

\* A line ends with its block.
LEMMA LineEnds ==
  ASSUME NEW b \in Blocks
  PROVE  Line[b] \in Seq(Blocks) /\ Len(Line[b]) \in Nat \ {0} /\ Line[b][Len(Line[b])] = b
<1>1. CASE b = Genesis
  BY <1>1, TreeAssumption
<1>2. CASE b # Genesis
  <2>1. PICK p \in Blocks : Line[b] = Append(Line[p], b)
    BY <1>2, TreeAssumption
  <2>2. Line[p] \in Seq(Blocks) /\ Len(Line[p]) \in Nat
    BY TreeAssumption
  <2> QED BY <2>1, <2>2
<1> QED BY <1>1, <1>2

\* A block other than the genesis block extends the line of its parent.
LEMMA ParentLine ==
  ASSUME NEW b \in Blocks, b # Genesis
  PROVE  /\ Parent(b) \in Blocks /\ Line[b] = Append(Line[Parent(b)], b)
         /\ Len(Line[b]) = Len(Line[Parent(b)]) + 1 /\ Height(b) = Len(Line[Parent(b)])
         /\ Work[b] = Work[Parent(b)] + Difficulty[b]
<1>1. PICK p \in Blocks : Line[b] = Append(Line[p], b) /\ Work[b] = Work[p] + Difficulty[b]
  BY TreeAssumption
<1>2. Line[p] \in Seq(Blocks) /\ Len(Line[p]) \in Nat \ {0} /\ Line[p][Len(Line[p])] = p
  BY LineEnds
<1>3. Parent(b) = p
  BY <1>1, <1>2 DEF Parent
<1> QED BY <1>1, <1>2, <1>3 DEF Height

\* The lines of the blocks of a line are its beginnings.
Begins(b) ==
  \A i \in 1..Len(Line[b]) :
    /\ Line[b][i] \in Blocks /\ Len(Line[Line[b][i]]) = i
    /\ \A j \in 1..i : Line[Line[b][i]][j] = Line[b][j]
    /\ Work[Line[b][i]] <= Work[b]

\* By induction on the length of the line, as the absence of a shortest
\* counterexample.
LEMMA LineBegins == \A b \in Blocks : Begins(b)
<1> DEFINE S == {Len(Line[b]) : b \in {x \in Blocks : ~Begins(x)}}
<1>1. SUFFICES ASSUME S # {} PROVE FALSE
  OBVIOUS
<1>2. S \in SUBSET Nat
  BY LineEnds
<1>3. PICK n \in S : \A m \in S : n <= m
  BY <1>1, <1>2, MinNat
<1>4. PICK b \in Blocks : n = Len(Line[b]) /\ ~Begins(b)
  BY <1>3
<1>5. b # Genesis
  <2>1. SUFFICES ASSUME b = Genesis PROVE Begins(b)
    BY <1>4
  <2>2. Line[b] = <<b>> /\ Work[b] \in Nat
    BY <2>1, TreeAssumption
  <2>3. Len(Line[b]) = 1 /\ Line[b][1] = b
    BY <2>2
  <2>4. SUFFICES ASSUME NEW i \in 1..Len(Line[b])
                 PROVE  /\ Line[b][i] \in Blocks /\ Len(Line[Line[b][i]]) = i
                        /\ \A j \in 1..i : Line[Line[b][i]][j] = Line[b][j]
                        /\ Work[Line[b][i]] <= Work[b]
    BY DEF Begins
  <2>5. i = 1 /\ Line[b][i] = b
    BY <2>3
  <2>6. Work[Line[b][i]] <= Work[b]
    BY <2>5, <2>2
  <2> QED BY <2>3, <2>5, <2>6
<1>6. /\ Parent(b) \in Blocks /\ Line[b] = Append(Line[Parent(b)], b)
      /\ Len(Line[b]) = Len(Line[Parent(b)]) + 1
      /\ Work[b] = Work[Parent(b)] + Difficulty[b]
  BY <1>5, ParentLine
<1>7. /\ Line[Parent(b)] \in Seq(Blocks) /\ Len(Line[Parent(b)]) \in Nat \ {0}
      /\ Line[b][Len(Line[b])] = b
  BY <1>6, LineEnds
<1>8. Begins(Parent(b))
  <2>1. SUFFICES ASSUME ~Begins(Parent(b)) PROVE FALSE
    OBVIOUS
  <2>2. Len(Line[Parent(b)]) \in S
    BY <2>1, <1>6
  <2> QED BY <2>2, <1>3, <1>4, <1>6, <1>7
<1>9. Work[b] \in Nat /\ Work[Parent(b)] \in Nat /\ Difficulty[b] \in Nat
  BY <1>6, TreeAssumption
<1>10. ASSUME NEW i \in 1..Len(Line[b])
       PROVE  /\ Line[b][i] \in Blocks /\ Len(Line[Line[b][i]]) = i
              /\ \A j \in 1..i : Line[Line[b][i]][j] = Line[b][j]
              /\ Work[Line[b][i]] <= Work[b]
  <2>1. CASE i = Len(Line[b])
    BY <2>1, <1>7, <1>9
  <2>2. CASE i # Len(Line[b])
    <3>1. i \in 1..Len(Line[Parent(b)]) /\ Line[b][i] = Line[Parent(b)][i]
      BY <2>2, <1>6, <1>7
    <3>2. /\ Line[b][i] \in Blocks /\ Len(Line[Line[b][i]]) = i
          /\ \A j \in 1..i : Line[Line[b][i]][j] = Line[Parent(b)][j]
          /\ Work[Line[b][i]] <= Work[Parent(b)]
      BY <3>1, <1>8 DEF Begins
    <3>3. \A j \in 1..i : Line[b][j] = Line[Parent(b)][j]
      BY <3>1, <1>6, <1>7
    <3>4. Work[Line[b][i]] \in Nat
      BY <3>2, TreeAssumption
    <3> QED BY <3>2, <3>3, <3>4, <1>6, <1>9
  <2> QED BY <2>1, <2>2
<1> QED BY <1>10, <1>4 DEF Begins

\* The genesis block begins every line, and is nowhere else in it.
LEMMA LineFirst ==
  ASSUME NEW b \in Blocks
  PROVE  Line[b][1] = Genesis /\ \A i \in 1..Len(Line[b]) : Line[b][i] = Genesis => i = 1
<1>1. Begins(b) /\ 1 \in 1..Len(Line[b])
  BY LineBegins, LineEnds
<1>2. /\ Line[b][1] \in Blocks /\ Len(Line[Line[b][1]]) = 1
      /\ \A i \in 1..Len(Line[b]) : Len(Line[Line[b][i]]) = i
  BY <1>1 DEF Begins
<1>3. Len(Line[Genesis]) = 1
  BY TreeAssumption
<1>4. Line[b][1] = Genesis
  <2>1. SUFFICES ASSUME Line[b][1] # Genesis PROVE FALSE
    OBVIOUS
  <2>2. /\ Parent(Line[b][1]) \in Blocks
        /\ Len(Line[Line[b][1]]) = Len(Line[Parent(Line[b][1])]) + 1
    BY <2>1, <1>2, ParentLine
  <2> QED BY <2>2, <1>2, LineEnds
<1> QED BY <1>2, <1>3, <1>4

-----------------------------------------------------------------------------
(* The inductive invariant *)

\* An unbroken line of valid blocks without a transaction twice.
LineOK(c) ==
  /\ c \in Seq(Blocks) /\ c # <<>> /\ c = Line[c[Len(c)]]
  /\ \A i \in 1..Len(c) : Flaw[c[i]] = "none"
  /\ \A i, j \in 1..Len(c) : i # j => ToSet(TxsOf[c[i]]) \cap ToSet(TxsOf[c[j]]) = {}

\* The difficulties recorded for it.
SumsOK(c, d) ==
  d \in Seq(Nat) /\ Len(d) = Len(c) /\ \A i \in 1..Len(c) : d[i] = Work[c[i]]

\* The alternative blocks and the difficulties recorded for them.
AltsOK(a) == a \in [Blocks -> Nat] /\ \A b \in Blocks : a[b] # 0 => a[b] = Work[b]

\* The pool beside a chain.
PoolOK(c, p, k) == p \subseteq Txs /\ k \subseteq p /\ p \cap TxsIn(c) = {}

\* A chain without alternative blocks.
Apart(c, a) == \A i \in 1..Len(c) : a[c[i]] = 0

\* The database, also in the middle of a switch.
DbOK == /\ LineOK(blocks) /\ SumsOK(blocks, cumulative_difficulty)
        /\ AltsOK(alt_blocks) /\ PoolOK(blocks, pool, kept) /\ partial \subseteq Txs
        /\ Idle => Apart(blocks, alt_blocks)

\* What the database falls back to.
SavedOK ==
  saved # <<>> =>
    /\ LineOK(saved[1]) /\ SumsOK(saved[1], saved[2]) /\ AltsOK(saved[3])
    /\ PoolOK(saved[1], saved[4], saved[5]) /\ saved[6] = {} /\ Apart(saved[1], saved[3])

\* Which calls a batch and a switch may be open in.
ControlOK ==
  /\ m_invalid_blocks \subseteq Blocks /\ m_points \subseteq Points
  /\ batch \in {"none", "blocks", "left"} /\ m_batch_success \in BOOLEAN
  /\ saved = <<>> <=> batch = "none"
  /\ phase \in {"idle", "connect", "rollback", "restore", "push", "drop"}
  /\ discard \in BOOLEAN /\ trouble \in {"none", "panic", "nested"}
  /\ phase # "idle" => batch = "blocks"
  /\ batch # "blocks" => m_batch_success
  /\ m_batch_success => partial = {}

\* No switch, no trace of one.
IdleOK ==
  Idle => /\ alt_chain = <<>> /\ disconnected_chain = <<>> /\ before = <<>>
          /\ split_height = 0

\* The common part of the old and the new chain, and the branch apart from it.
SwitchOK ==
  ~Idle =>
    /\ LineOK(before) /\ split_height \in 1..Len(before) /\ split_height <= DbHeight
    /\ \A i \in 1..split_height : blocks[i] = before[i]
    /\ alt_chain \in Seq(Blocks) /\ alt_chain # <<>>
    /\ \A i \in 1..Len(alt_chain), j \in 1..Len(before) : alt_chain[i] # before[j]
    /\ TxsIn(before) \subseteq TxsIn(blocks) \cup kept
    /\ disconnected_chain \in Seq(Blocks)

\* What was connected of the branch.
BranchOK ==
  phase \in {"connect", "push"} =>
    /\ DbHeight <= split_height + Len(alt_chain)
    /\ phase = "connect" => DbHeight < split_height + Len(alt_chain)
    /\ phase = "push" => DbHeight = split_height + Len(alt_chain)
    /\ \A i \in 1..(DbHeight - split_height) : blocks[split_height + i] = alt_chain[i]

\* The old chain while it may have to be put back.
OldOK ==
  phase \in {"connect", "rollback", "restore", "drop"} =>
    /\ Apart(before, alt_blocks)
    /\ Len(disconnected_chain) = Len(before) - split_height
    /\ \A i \in 1..Len(disconnected_chain) : disconnected_chain[i] = before[split_height + i]

\* The old chain while it is put back.
RestoreOK ==
  phase \in {"restore", "drop"} =>
    DbHeight <= Len(before) /\ \A i \in 1..DbHeight : blocks[i] = before[i]

\* The old chain while it becomes an alternative.
PushOK ==
  phase = "push" =>
    /\ \A i \in 1..split_height : alt_blocks[before[i]] = 0
    /\ \A i \in 1..Len(disconnected_chain) :
         \E j \in (split_height + 1)..Len(before) : disconnected_chain[i] = before[j]

Inv == /\ DbOK /\ SavedOK /\ ControlOK /\ IdleOK /\ SwitchOK /\ BranchOK
       /\ OldOK /\ RestoreOK /\ PushOK

-----------------------------------------------------------------------------
(* Chains *)

\* The transactions of a chain, one by one.
LEMMA TxsInOf ==
  ASSUME NEW c, NEW t
  PROVE  t \in TxsIn(c) <=> \E i \in 1..Len(c) : t \in ToSet(TxsOf[c[i]])
  BY Zenon DEF TxsIn

\* The transactions of blocks are transactions.
LEMMA TxsOfType ==
  ASSUME NEW b \in Blocks
  PROVE  /\ TxsOf[b] \in Seq(Txs) /\ Len(TxsOf[b]) \in Nat
         /\ DOMAIN TxsOf[b] = 1..Len(TxsOf[b])
         /\ \A i \in 1..Len(TxsOf[b]) : TxsOf[b][i] \in Txs
         /\ ToSet(TxsOf[b]) \subseteq Txs
<1>1. TxsOf[b] \in Seq(Txs)
  BY ContentAssumption
<1>2. /\ Len(TxsOf[b]) \in Nat /\ DOMAIN TxsOf[b] = 1..Len(TxsOf[b])
      /\ \A i \in 1..Len(TxsOf[b]) : TxsOf[b][i] \in Txs
  BY <1>1
<1> QED BY <1>1, <1>2 DEF ToSet

\* The transactions of a chain of blocks are transactions.
LEMMA TxsInType ==
  ASSUME NEW c \in Seq(Blocks)
  PROVE  TxsIn(c) \subseteq Txs
<1>1. SUFFICES ASSUME NEW t \in TxsIn(c) PROVE t \in Txs
  OBVIOUS
<1>2. PICK i \in 1..Len(c) : t \in ToSet(TxsOf[c[i]])
  BY <1>1, TxsInOf
<1>3. c[i] \in Blocks
  OBVIOUS
<1> QED BY <1>2, <1>3, TxsOfType

\* Blocks of a line are at their heights.
LEMMA LineFacts ==
  ASSUME NEW c, LineOK(c)
  PROVE  /\ Len(c) \in Nat \ {0} /\ c[Len(c)] \in Blocks /\ c[1] = Genesis
         /\ \A i \in 1..Len(c) :
              /\ c[i] \in Blocks /\ Len(Line[c[i]]) = i /\ Height(c[i]) = i - 1
              /\ \A j \in 1..i : Line[c[i]][j] = c[j]
              /\ Work[c[i]] <= Work[c[Len(c)]]
              /\ c[i] = Genesis => i = 1
<1>1. c \in Seq(Blocks) /\ c # <<>> /\ c = Line[c[Len(c)]]
  BY DEF LineOK
<1>2. Len(c) \in Nat \ {0} /\ c[Len(c)] \in Blocks
  BY <1>1
<1>3. Begins(c[Len(c)])
  BY <1>2, LineBegins
<1>4. \A i \in 1..Len(c) :
        /\ c[i] \in Blocks /\ Len(Line[c[i]]) = i
        /\ \A j \in 1..i : Line[c[i]][j] = c[j]
        /\ Work[c[i]] <= Work[c[Len(c)]]
  BY <1>1, <1>3 DEF Begins
<1>5. c[1] = Genesis /\ \A i \in 1..Len(c) : c[i] = Genesis => i = 1
  BY <1>1, <1>2, LineFirst
<1> QED BY <1>2, <1>4, <1>5 DEF Height

\* The beginning of a line is a line, with the same sums.
LEMMA PopLine ==
  ASSUME NEW c, LineOK(c), NEW h \in 1..Len(c)
  PROVE  /\ LineOK(SubSeq(c, 1, h)) /\ Len(SubSeq(c, 1, h)) = h
         /\ \A i \in 1..h : SubSeq(c, 1, h)[i] = c[i]
         /\ \A d : SumsOK(c, d) => SumsOK(SubSeq(c, 1, h), SubSeq(d, 1, h))
<1> DEFINE s == SubSeq(c, 1, h)
<1>1. c \in Seq(Blocks) /\ Len(c) \in Nat
  BY DEF LineOK
<1>2. s \in Seq(Blocks) /\ Len(s) = h /\ \A i \in 1..h : s[i] = c[i]
  BY <1>1
<1>3. /\ c[h] \in Blocks /\ Len(Line[c[h]]) = h /\ \A j \in 1..h : Line[c[h]][j] = c[j]
  BY LineFacts
<1>4. Line[c[h]] \in Seq(Blocks)
  BY <1>3, LineEnds
<1>5. s = Line[c[h]]
  <2>1. Len(s) = Len(Line[c[h]]) /\ \A i \in 1..Len(s) : s[i] = Line[c[h]][i]
    BY <1>2, <1>3
  <2> HIDE DEF s
  <2> QED BY <1>2, <1>4, <2>1, SeqEqual
<1>6. s # <<>> /\ s = Line[s[Len(s)]]
  BY <1>2, <1>5
<1>7. \A i \in 1..Len(s) : Flaw[s[i]] = "none"
  BY <1>2 DEF LineOK
<1>8. \A i, j \in 1..Len(s) : i # j => ToSet(TxsOf[s[i]]) \cap ToSet(TxsOf[s[j]]) = {}
  <2>1. SUFFICES ASSUME NEW i \in 1..Len(s), NEW j \in 1..Len(s), i # j
                 PROVE  ToSet(TxsOf[s[i]]) \cap ToSet(TxsOf[s[j]]) = {}
    OBVIOUS
  <2>2. i \in 1..Len(c) /\ j \in 1..Len(c) /\ s[i] = c[i] /\ s[j] = c[j]
    BY <1>1, <1>2
  <2> QED BY <2>1, <2>2 DEF LineOK
<1>9. LineOK(s)
  BY <1>2, <1>6, <1>7, <1>8 DEF LineOK
<1>10. ASSUME NEW d, SumsOK(c, d)
       PROVE  SumsOK(s, SubSeq(d, 1, h))
  <2>1. d \in Seq(Nat) /\ Len(d) = Len(c) /\ \A i \in 1..Len(c) : d[i] = Work[c[i]]
    BY <1>10 DEF SumsOK
  <2>2. /\ SubSeq(d, 1, h) \in Seq(Nat) /\ Len(SubSeq(d, 1, h)) = h
        /\ \A i \in 1..h : SubSeq(d, 1, h)[i] = d[i]
    BY <2>1, <1>1
  <2> QED BY <2>1, <2>2, <1>1, <1>2 DEF SumsOK
<1> QED BY <1>2, <1>9, <1>10

\* A line extended by a valid child of its last block, whose transactions are new.
LEMMA ExtendLine ==
  ASSUME NEW c, LineOK(c), NEW b \in Blocks, b # Genesis, Parent(b) = c[Len(c)],
         Flaw[b] = "none", ToSet(TxsOf[b]) \cap TxsIn(c) = {}
  PROVE  /\ LineOK(Append(c, b)) /\ Len(Append(c, b)) = Len(c) + 1
         /\ Append(c, b)[Len(c) + 1] = b /\ \A i \in 1..Len(c) : Append(c, b)[i] = c[i]
         /\ \A d : SumsOK(c, d) =>
                     SumsOK(Append(c, b), Append(d, d[Len(c)] + Difficulty[b]))
<1> DEFINE s == Append(c, b)
<1>1. c \in Seq(Blocks) /\ Len(c) \in Nat \ {0} /\ c = Line[c[Len(c)]]
  BY LineFacts DEF LineOK
<1>2. /\ s \in Seq(Blocks) /\ s # <<>> /\ Len(s) = Len(c) + 1 /\ s[Len(s)] = b
      /\ \A i \in 1..Len(c) : s[i] = c[i]
  BY <1>1
<1>3. Line[b] = Append(Line[Parent(b)], b) /\ Work[b] = Work[Parent(b)] + Difficulty[b]
  BY ParentLine
<1>4. s = Line[s[Len(s)]]
  BY <1>1, <1>2, <1>3
<1>5. \A i \in 1..Len(s) : Flaw[s[i]] = "none"
  BY <1>1, <1>2 DEF LineOK
<1>6. \A i \in 1..Len(c) : ToSet(TxsOf[b]) \cap ToSet(TxsOf[c[i]]) = {}
  BY TxsInOf
<1>7. \A i, j \in 1..Len(s) : i # j => ToSet(TxsOf[s[i]]) \cap ToSet(TxsOf[s[j]]) = {}
  <2>1. SUFFICES ASSUME NEW i \in 1..Len(s), NEW j \in 1..Len(s), i # j
                 PROVE  ToSet(TxsOf[s[i]]) \cap ToSet(TxsOf[s[j]]) = {}
    OBVIOUS
  <2>2. CASE i = Len(s)
    <3>1. j \in 1..Len(c) /\ s[j] = c[j] /\ s[i] = b
      BY <2>1, <2>2, <1>1, <1>2
    <3> QED BY <3>1, <1>6
  <2>3. CASE j = Len(s)
    <3>1. i \in 1..Len(c) /\ s[i] = c[i] /\ s[j] = b
      BY <2>1, <2>3, <1>1, <1>2
    <3> QED BY <3>1, <1>6
  <2>4. CASE i # Len(s) /\ j # Len(s)
    <3>1. i \in 1..Len(c) /\ j \in 1..Len(c) /\ s[i] = c[i] /\ s[j] = c[j]
      BY <2>4, <1>1, <1>2
    <3> QED BY <3>1, <2>1 DEF LineOK
  <2> QED BY <2>2, <2>3, <2>4
<1>8. LineOK(s)
  BY <1>2, <1>4, <1>5, <1>7 DEF LineOK
<1>9. ASSUME NEW d, SumsOK(c, d)
      PROVE  SumsOK(s, Append(d, d[Len(c)] + Difficulty[b]))
  <2>1. d \in Seq(Nat) /\ Len(d) = Len(c) /\ \A i \in 1..Len(c) : d[i] = Work[c[i]]
    BY <1>9 DEF SumsOK
  <2>2. d[Len(c)] + Difficulty[b] = Work[b] /\ Work[b] \in Nat
    <3>1. d[Len(c)] = Work[Parent(b)]
      BY <2>1, <1>1
    <3>2. Work[b] \in Nat
      BY TreeAssumption
    <3> QED BY <3>1, <3>2, <1>3
  <2>3. /\ Append(d, Work[b]) \in Seq(Nat) /\ Len(Append(d, Work[b])) = Len(c) + 1
        /\ Append(d, Work[b])[Len(c) + 1] = Work[b]
        /\ \A i \in 1..Len(c) : Append(d, Work[b])[i] = d[i]
    BY <2>1, <2>2, <1>1
  <2>4. \A i \in 1..Len(s) : Append(d, Work[b])[i] = Work[s[i]]
    BY <2>1, <2>3, <1>1, <1>2
  <2> QED BY <2>2, <2>3, <2>4, <1>2 DEF SumsOK
<1> QED BY <1>2, <1>8, <1>9

\* What is in a chain is below a height of it or above.
LEMMA TxsSplit ==
  ASSUME NEW c, LineOK(c), NEW h \in 1..Len(c)
  PROVE  /\ TxsIn(c) \subseteq TxsIn(SubSeq(c, 1, h)) \cup TxsIn(SubSeq(c, h + 1, Len(c)))
         /\ TxsIn(SubSeq(c, 1, h)) \subseteq TxsIn(c)
         /\ TxsIn(SubSeq(c, h + 1, Len(c))) \subseteq TxsIn(c)
         /\ TxsIn(SubSeq(c, 1, h)) \cap TxsIn(SubSeq(c, h + 1, Len(c))) = {}
<1> DEFINE s == SubSeq(c, 1, h)
           r == SubSeq(c, h + 1, Len(c))
<1>1. c \in Seq(Blocks) /\ Len(c) \in Nat
  BY DEF LineOK
<1>2. Len(s) = h /\ \A i \in 1..h : s[i] = c[i]
  BY PopLine
<1>3. Len(r) = Len(c) - h /\ \A i \in 1..Len(r) : r[i] = c[h + i] /\ h + i \in 1..Len(c)
  BY <1>1
<1>4. ASSUME NEW t \in TxsIn(c)
      PROVE  t \in TxsIn(s) \cup TxsIn(r)
  <2>1. PICK i \in 1..Len(c) : t \in ToSet(TxsOf[c[i]])
    BY <1>4, TxsInOf
  <2>2. CASE i <= h
    <3>1. i \in 1..Len(s) /\ s[i] = c[i]
      BY <2>2, <1>2
    <3> QED BY <2>1, <3>1, TxsInOf
  <2>3. CASE ~(i <= h)
    <3>1. i - h \in 1..Len(r) /\ r[i - h] = c[i]
      BY <2>3, <1>1, <1>3
    <3> QED BY <2>1, <3>1, TxsInOf
  <2> QED BY <2>2, <2>3
<1>5. ASSUME NEW t \in TxsIn(s)
      PROVE  \E i \in 1..Len(c) : i <= h /\ t \in ToSet(TxsOf[c[i]])
  <2>1. PICK i \in 1..Len(s) : t \in ToSet(TxsOf[s[i]])
    BY <1>5, TxsInOf
  <2>2. i \in 1..Len(c) /\ i <= h /\ s[i] = c[i]
    BY <1>1, <1>2
  <2> QED BY <2>1, <2>2
<1>6. ASSUME NEW t \in TxsIn(r)
      PROVE  \E i \in 1..Len(c) : i > h /\ t \in ToSet(TxsOf[c[i]])
  <2>1. PICK i \in 1..Len(r) : t \in ToSet(TxsOf[r[i]])
    BY <1>6, TxsInOf
  <2>2. h + i \in 1..Len(c) /\ h + i > h /\ t \in ToSet(TxsOf[c[h + i]])
    BY <2>1, <1>1, <1>3
  <2> QED BY <2>2
<1>7. ASSUME NEW t \in TxsIn(s), t \in TxsIn(r)
      PROVE  FALSE
  <2>1. PICK i \in 1..Len(c) : i <= h /\ t \in ToSet(TxsOf[c[i]])
    BY <1>7, <1>5
  <2>2. PICK j \in 1..Len(c) : j > h /\ t \in ToSet(TxsOf[c[j]])
    BY <1>7, <1>6
  <2>3. i # j
    BY <2>1, <2>2
  <2> QED BY <2>1, <2>2, <2>3 DEF LineOK
<1>8. TxsIn(s) \subseteq TxsIn(c)
  BY <1>5, TxsInOf
<1>9. TxsIn(r) \subseteq TxsIn(c)
  BY <1>6, TxsInOf
<1> QED BY <1>4, <1>7, <1>8, <1>9

\* The transactions of a chain and of one more block.
LEMMA TxsAppend ==
  ASSUME NEW c \in Seq(Blocks), NEW b \in Blocks
  PROVE  TxsIn(Append(c, b)) = TxsIn(c) \cup ToSet(TxsOf[b])
<1> DEFINE s == Append(c, b)
<1>1. Len(c) \in Nat /\ Len(s) = Len(c) + 1 /\ s[Len(s)] = b /\ \A i \in 1..Len(c) : s[i] = c[i]
  OBVIOUS
<1>2. ASSUME NEW t \in TxsIn(s)
      PROVE  t \in TxsIn(c) \cup ToSet(TxsOf[b])
  <2>1. PICK i \in 1..Len(s) : t \in ToSet(TxsOf[s[i]])
    BY <1>2, TxsInOf
  <2>2. CASE i = Len(s)
    BY <2>1, <2>2, <1>1
  <2>3. CASE i # Len(s)
    <3>1. i \in 1..Len(c) /\ s[i] = c[i]
      BY <2>3, <1>1
    <3> QED BY <2>1, <3>1, TxsInOf
  <2> QED BY <2>2, <2>3
<1>3. ASSUME NEW t \in TxsIn(c)
      PROVE  t \in TxsIn(s)
  <2>1. PICK i \in 1..Len(c) : t \in ToSet(TxsOf[c[i]])
    BY <1>3, TxsInOf
  <2>2. i \in 1..Len(s) /\ s[i] = c[i]
    BY <1>1
  <2> QED BY <2>1, <2>2, TxsInOf
<1>4. ToSet(TxsOf[b]) \subseteq TxsIn(s)
  <2>1. Len(s) \in 1..Len(s)
    BY <1>1
  <2> QED BY <1>1, <2>1, TxsInOf
<1> QED BY <1>2, <1>3, <1>4

-----------------------------------------------------------------------------
(* The parts that operations share *)

\* What is added to the pool is kept, and nothing that was kept leaves it.
LEMMA AddToPoolFacts ==
  ASSUME NEW S \in SUBSET Txs, pool \subseteq Txs, kept \subseteq pool, AddToPool(S)
  PROVE  /\ pool' \subseteq pool \cup S /\ pool' \subseteq Txs /\ kept' \subseteq pool'
         /\ kept' = kept \cup S
<1>1. PICK evicted \in SUBSET (pool \ (kept \cup S)) :
        pool' = (pool \cup S) \ evicted /\ kept' = kept \cup S
  BY DEF AddToPool
<1> QED BY <1>1

\* Popping leaves a sound chain and pool.
LEMMA PopFacts ==
  ASSUME DbOK, NEW h \in 1..DbHeight, NEW S \in SUBSET Txs,
         S \cap TxsIn(SubSeq(blocks, 1, h)) = {}, PoppedTo(h, S)
  PROVE  /\ LineOK(blocks') /\ SumsOK(blocks', cumulative_difficulty')
         /\ PoolOK(blocks', pool', kept') /\ partial' = partial
         /\ Len(blocks') = h /\ \A i \in 1..h : blocks'[i] = blocks[i]
         /\ kept' = kept \cup S
         /\ TxsIn(blocks) \subseteq TxsIn(blocks') \cup TxsAbove(h)
<1>1. LineOK(blocks) /\ SumsOK(blocks, cumulative_difficulty) /\ h \in 1..Len(blocks)
  BY DEF DbOK, DbHeight
<1>2. pool \subseteq Txs /\ kept \subseteq pool /\ pool \cap TxsIn(blocks) = {}
  BY DEF DbOK, PoolOK
<1>3. /\ blocks' = SubSeq(blocks, 1, h) /\ partial' = partial /\ AddToPool(S)
      /\ cumulative_difficulty' = SubSeq(cumulative_difficulty, 1, h)
  BY DEF PoppedTo
<1>4. /\ LineOK(blocks') /\ SumsOK(blocks', cumulative_difficulty')
      /\ Len(blocks') = h /\ \A i \in 1..h : blocks'[i] = blocks[i]
  BY <1>1, <1>3, PopLine
<1>5. /\ TxsIn(blocks') \subseteq TxsIn(blocks)
      /\ TxsIn(blocks) \subseteq TxsIn(blocks') \cup TxsAbove(h)
  BY <1>1, <1>3, TxsSplit DEF TxsAbove, DbHeight
<1>6. /\ pool' \subseteq pool \cup S /\ pool' \subseteq Txs /\ kept' \subseteq pool'
      /\ kept' = kept \cup S
  BY <1>2, <1>3, AddToPoolFacts
<1>7. PoolOK(blocks', pool', kept')
  BY <1>2, <1>3, <1>5, <1>6 DEF PoolOK
<1> QED BY <1>3, <1>4, <1>5, <1>6, <1>7

\* The popped transactions are not in what remains of the chain.
LEMMA AboveFacts ==
  ASSUME DbOK, NEW h \in 1..DbHeight
  PROVE  /\ TxsAbove(h) \in SUBSET Txs /\ TxsAbove(h) \cap TxsIn(SubSeq(blocks, 1, h)) = {}
         /\ TxsIn(SubSeq(blocks, 1, h)) \subseteq TxsIn(blocks)
<1>1. LineOK(blocks) /\ h \in 1..Len(blocks) /\ blocks \in Seq(Blocks)
  BY DEF DbOK, DbHeight, LineOK
<1>2. TxsIn(blocks) \subseteq Txs
  BY <1>1, TxsInType
<1> QED BY <1>1, <1>2, TxsSplit DEF TxsAbove, DbHeight

\* Where the search for the transactions of a block ends.
LEMMA StopsFacts ==
  ASSUME NEW b \in Blocks, NEW extra
  PROVE  /\ StopsAt(b, extra) \in 1..(Len(TxsOf[b]) + 1)
         /\ AllFound(b, extra) <=>
              \A k \in 1..Len(TxsOf[b]) :
                ~tx_exists(TxsOf[b][k]) /\ TxsOf[b][k] \in pool \cup extra
<1> DEFINE n == Len(TxsOf[b]) + 1
           S == {k \in 1..n : \/ k = n
                              \/ tx_exists(TxsOf[b][k])
                              \/ TxsOf[b][k] \notin pool \cup extra}
<1>1. Len(TxsOf[b]) \in Nat
  BY TxsOfType
<1>2. n \in S /\ S \in SUBSET Nat
  BY <1>1
<1>3. StopsAt(b, extra) = Min(S)
  BY DEF StopsAt
<1>4. Min(S) \in S /\ \A y \in S : Min(S) <= y
  <2> HIDE DEF S
  <2> QED BY <1>2, MinNat
<1>5. Min(S) \in 1..n
  BY <1>4
<1>6. ASSUME Min(S) = n, NEW k \in 1..Len(TxsOf[b])
      PROVE  ~tx_exists(TxsOf[b][k]) /\ TxsOf[b][k] \in pool \cup extra
  <2>1. k \in 1..n /\ k < n
    BY <1>1
  <2>2. k \notin S
    BY <2>1, <1>6, <1>4, <1>1
  <2> QED BY <2>1, <2>2
<1>7. ASSUME \A k \in 1..Len(TxsOf[b]) :
               ~tx_exists(TxsOf[b][k]) /\ TxsOf[b][k] \in pool \cup extra
      PROVE  Min(S) = n
  <2>1. SUFFICES ASSUME Min(S) # n PROVE FALSE
    OBVIOUS
  <2>2. Min(S) \in 1..Len(TxsOf[b])
    BY <2>1, <1>1, <1>5
  <2> QED BY <2>1, <2>2, <1>4, <1>7
<1> QED BY <1>3, <1>5, <1>6, <1>7 DEF AllFound

\* Connecting a block leaves a sound chain and pool.
LEMMA ConnectFacts ==
  ASSUME DbOK, NEW b \in Blocks, b # Genesis, NEW extra, Connects(b, extra), Connect(b)
  PROVE  /\ LineOK(blocks') /\ SumsOK(blocks', cumulative_difficulty')
         /\ PoolOK(blocks', pool', kept') /\ check_block(DbHeight, b)
         /\ Len(blocks') = DbHeight + 1 /\ blocks'[DbHeight + 1] = b
         /\ \A i \in 1..DbHeight : blocks'[i] = blocks[i]
         /\ TxsIn(blocks) \cup kept \subseteq TxsIn(blocks') \cup kept'
         /\ UNCHANGED <<partial, m_invalid_blocks, m_batch_success>>
<1>1. LineOK(blocks) /\ SumsOK(blocks, cumulative_difficulty) /\ blocks \in Seq(Blocks)
  BY DEF DbOK, LineOK
<1>2. pool \subseteq Txs /\ kept \subseteq pool /\ pool \cap TxsIn(blocks) = {}
  BY DEF DbOK, PoolOK
<1>3. /\ blocks' = Append(blocks, b)
      /\ cumulative_difficulty' = Append(cumulative_difficulty,
                                         cumulative_difficulty[Len(blocks)] + Difficulty[b])
      /\ pool' = pool \ ToSet(TxsOf[b]) /\ kept' = kept \ ToSet(TxsOf[b])
      /\ UNCHANGED <<partial, m_invalid_blocks, m_batch_success>>
  BY DEF Connect, DbHeight
<1>4. /\ Parent(b) = blocks[Len(blocks)] /\ Flaw[b] = "none" /\ AllFound(b, extra)
      /\ check_block(DbHeight, b)
  BY DEF Connects, RefusedEarly, Tip, DbHeight
<1>5. ToSet(TxsOf[b]) \cap TxsIn(blocks) = {}
  <2>1. SUFFICES ASSUME NEW t \in ToSet(TxsOf[b]) PROVE t \notin TxsIn(blocks)
    OBVIOUS
  <2>2. PICK k \in 1..Len(TxsOf[b]) : t = TxsOf[b][k]
    BY <2>1, TxsOfType DEF ToSet
  <2>3. ~tx_exists(TxsOf[b][k])
    BY <1>4, StopsFacts
  <2> QED BY <2>2, <2>3 DEF tx_exists
<1>6. /\ LineOK(blocks') /\ SumsOK(blocks', cumulative_difficulty')
      /\ Len(blocks') = Len(blocks) + 1 /\ blocks'[Len(blocks) + 1] = b
      /\ \A i \in 1..Len(blocks) : blocks'[i] = blocks[i]
  BY <1>1, <1>3, <1>4, <1>5, ExtendLine
<1>7. TxsIn(blocks') = TxsIn(blocks) \cup ToSet(TxsOf[b])
  BY <1>1, <1>3, TxsAppend
<1>8. PoolOK(blocks', pool', kept')
  BY <1>2, <1>3, <1>7 DEF PoolOK
<1> QED BY <1>3, <1>4, <1>6, <1>7, <1>8 DEF DbHeight

\* Refusing a block leaves the chain alone, and only an exception that makes the
\* batch fail leaves something in the database.
LEMMA RefuseFacts ==
  ASSUME DbOK, ControlOK, NEW b \in Blocks, NEW extra, Refuse(b, extra)
  PROVE  /\ blocks' = blocks /\ cumulative_difficulty' = cumulative_difficulty
         /\ PoolOK(blocks', pool', kept') /\ kept \subseteq kept' /\ partial' \subseteq Txs
         /\ m_invalid_blocks' \subseteq Blocks /\ m_batch_success' \in BOOLEAN
         /\ m_batch_success' => m_batch_success /\ partial' = partial
<1>1. pool \subseteq Txs /\ kept \subseteq pool /\ pool \cap TxsIn(blocks) = {}
  BY DEF DbOK, PoolOK
<1>2. blocks' = blocks /\ cumulative_difficulty' = cumulative_difficulty
  BY DEF Refuse
<1>3. pool' \subseteq pool /\ kept \subseteq kept' /\ kept' \subseteq pool'
  <2>1. CASE RefusedEarly(b)
    BY <2>1, <1>1 DEF Refuse
  <2>2. CASE ~RefusedEarly(b)
    <3> DEFINE S == {TxsOf[b][i] : i \in 1..(StopsAt(b, extra) - 1)} \cap pool
    <3>1. AddToPool(S)
      BY <2>2 DEF Refuse, ReturnTaken
    <3>2. S \in SUBSET Txs /\ S \subseteq pool
      BY <1>1
    <3> HIDE DEF S
    <3> QED BY <3>1, <3>2, <1>1, AddToPoolFacts
  <2> QED BY <2>1, <2>2
<1>4. PoolOK(blocks', pool', kept')
  BY <1>1, <1>2, <1>3 DEF PoolOK
<1>5. ToSet(Front(TxsOf[b])) \subseteq Txs
  <2>1. TxsOf[b] \in Seq(Txs) /\ Len(TxsOf[b]) \in Nat
    BY TxsOfType
  <2>2. Front(TxsOf[b]) \in Seq(Txs)
    BY <2>1 DEF Front
  <2> QED BY <2>2 DEF ToSet
<1>6. partial \subseteq Txs /\ m_invalid_blocks \subseteq Blocks /\ m_batch_success \in BOOLEAN
  BY DEF DbOK, ControlOK
<1> QED BY <1>2, <1>3, <1>4, <1>5, <1>6 DEF Refuse

\* The alternative blocks that a block continues.
LEMMA BranchFacts ==
  ASSUME DbOK, NEW b \in Blocks, b # Genesis
  PROVE  /\ AltBranch(b) \in Seq(Blocks) /\ Len(AltBranch(b)) \in Nat
         /\ \A i \in 1..Len(AltBranch(b)) :
              AltBranch(b)[i] \in Blocks /\ alt_blocks[AltBranch(b)[i]] # 0
         /\ AltBranch(b) # <<>> => alt_blocks[Parent(b)] # 0
<1> DEFINE line == Line[Parent(b)]
           S == {i \in 1..(Len(line) + 1) : \A j \in i..Len(line) : InAlt(line[j])}
           first == Min(S)
<1>1. Parent(b) \in Blocks
  BY ParentLine
<1>2. line \in Seq(Blocks) /\ Len(line) \in Nat \ {0} /\ line[Len(line)] = Parent(b)
  BY <1>1, LineEnds
<1>3. Len(line) + 1 \in S /\ S \in SUBSET Nat
  BY <1>2
<1>4. first \in S
  <2> HIDE DEF S
  <2> QED BY <1>3, MinNat
<1>5. first \in 1..(Len(line) + 1) /\ \A j \in first..Len(line) : alt_blocks[line[j]] # 0
  BY <1>4 DEF InAlt
<1>6. AltBranch(b) = SubSeq(line, first, Len(line))
  BY DEF AltBranch
<1> HIDE DEF first, line
<1>7. /\ AltBranch(b) \in Seq(Blocks) /\ Len(AltBranch(b)) = Len(line) - first + 1
      /\ \A i \in 1..Len(AltBranch(b)) : AltBranch(b)[i] = line[first + i - 1]
  BY <1>2, <1>5, <1>6
<1>8. ASSUME NEW i \in 1..Len(AltBranch(b))
      PROVE  AltBranch(b)[i] \in Blocks /\ alt_blocks[AltBranch(b)[i]] # 0
  <2>1. first + i - 1 \in first..Len(line) /\ AltBranch(b)[i] = line[first + i - 1]
    BY <1>2, <1>5, <1>7
  <2> QED BY <2>1, <1>5, <1>7
<1>9. ASSUME AltBranch(b) # <<>> PROVE alt_blocks[Parent(b)] # 0
  <2>1. Len(AltBranch(b)) # 0
    BY <1>9, <1>7
  <2>2. Len(line) \in first..Len(line)
    BY <2>1, <1>2, <1>5, <1>7
  <2> QED BY <2>2, <1>2, <1>5
<1> QED BY <1>2, <1>5, <1>7, <1>8, <1>9

\* The difficulty recorded for an alternative block is its work.
LEMMA AltFacts ==
  ASSUME DbOK, NEW b \in Blocks, b # Genesis, AltAccepted(b)
  PROVE  /\ AltDifficulty(b) = Work[b]
         /\ AltsOK([alt_blocks EXCEPT ![b] = AltDifficulty(b)])
<1>1. LineOK(blocks) /\ SumsOK(blocks, cumulative_difficulty) /\ AltsOK(alt_blocks)
  BY DEF DbOK
<1>2. /\ Parent(b) \in Blocks /\ Height(b) = Len(Line[Parent(b)])
      /\ Work[b] = Work[Parent(b)] + Difficulty[b]
  BY ParentLine
<1>3. Work[b] \in Nat /\ Work[Parent(b)] \in Nat /\ Difficulty[b] \in Nat
  BY <1>2, TreeAssumption
<1>4. CASE AltBranch(b) # <<>>
  <2>1. alt_blocks[Parent(b)] = Work[Parent(b)]
    BY <1>1, <1>2, <1>4, BranchFacts DEF AltsOK
  <2> QED BY <2>1, <1>1, <1>2, <1>3, <1>4 DEF AltDifficulty, AltsOK
<1>5. CASE AltBranch(b) = <<>>
  <2>1. PICK i \in 1..Len(blocks) : blocks[i] = Parent(b)
    BY <1>5 DEF AltAccepted, BranchConnects, InMain, DbHeight
  <2>2. Height(b) = i
    BY <2>1, <1>1, <1>2, LineFacts
  <2>3. cumulative_difficulty[Height(b)] = Work[Parent(b)]
    BY <2>1, <2>2, <1>1 DEF SumsOK
  <2> QED BY <2>3, <1>1, <1>2, <1>3, <1>5 DEF AltDifficulty, AltsOK
<1> QED BY <1>4, <1>5

\* Where a branch that becomes the main chain leaves it.
LEMMA SplitFacts ==
  ASSUME DbOK, Idle, NEW b \in Blocks, b # Genesis, AltAccepted(b), ~InMain(b),
         NEW chain, chain = Append(AltBranch(b), b)
  PROVE  /\ chain \in Seq(Blocks) /\ Len(chain) \in Nat \ {0} /\ chain[Len(chain)] = b
         /\ \A i \in 1..Len(chain), j \in 1..Len(blocks) : chain[i] # blocks[j]
         /\ Height(chain[1]) \in 1..Len(blocks)
<1>1. LineOK(blocks) /\ Apart(blocks, alt_blocks)
  BY DEF DbOK
<1>2. /\ AltBranch(b) \in Seq(Blocks) /\ Len(AltBranch(b)) \in Nat
      /\ \A i \in 1..Len(AltBranch(b)) :
           AltBranch(b)[i] \in Blocks /\ alt_blocks[AltBranch(b)[i]] # 0
  BY BranchFacts
<1>3. /\ chain \in Seq(Blocks) /\ Len(chain) = Len(AltBranch(b)) + 1 /\ chain[Len(chain)] = b
      /\ \A i \in 1..Len(AltBranch(b)) : chain[i] = AltBranch(b)[i]
  BY <1>2
<1>4. ASSUME NEW i \in 1..Len(chain), NEW j \in 1..Len(blocks)
      PROVE  chain[i] # blocks[j]
  <2>1. CASE i = Len(chain)
    BY <2>1, <1>3 DEF InMain, DbHeight
  <2>2. CASE i # Len(chain)
    <3>1. i \in 1..Len(AltBranch(b)) /\ chain[i] = AltBranch(b)[i]
      BY <2>2, <1>2, <1>3
    <3> QED BY <3>1, <1>1, <1>2 DEF Apart
  <2> QED BY <2>1, <2>2
<1>5. Len(blocks) \in Nat \ {0} /\ blocks[1] = Genesis /\ 1 \in 1..Len(blocks)
  BY <1>1, LineFacts
<1>6. 1 \in 1..Len(chain) /\ chain[1] \in Blocks
  BY <1>2, <1>3
<1>7. chain[1] # Genesis
  BY <1>4, <1>5, <1>6
<1>8. /\ Parent(chain[1]) \in Blocks /\ Height(chain[1]) = Len(Line[Parent(chain[1])])
  BY <1>6, <1>7, ParentLine
<1>9. Height(chain[1]) \in Nat \ {0}
  BY <1>8, LineEnds
<1>10. Height(chain[1]) <= Len(blocks)
  <2>1. CASE AltBranch(b) = <<>>
    <3>1. chain[1] = b
      BY <2>1, <1>3
    <3>2. PICK i \in 1..Len(blocks) : blocks[i] = Parent(b)
      BY <2>1 DEF AltAccepted, BranchConnects, InMain, DbHeight
    <3>3. Height(b) = i
      BY <3>1, <3>2, <1>1, <1>8, LineFacts
    <3> QED BY <3>1, <3>3, <1>5
  <2>2. CASE AltBranch(b) # <<>>
    <3>1. Len(AltBranch(b)) # 0
      BY <2>2, <1>2
    <3>2. chain[1] = AltBranch(b)[1]
      BY <3>1, <1>2, <1>3
    <3>3. Len(blocks) > Height(chain[1])
      BY <2>2, <3>2 DEF AltAccepted, BranchConnects, DbHeight
    <3> QED BY <3>3, <1>5, <1>9
  <2> QED BY <2>1, <2>2
<1> QED BY <1>2, <1>3, <1>4, <1>5, <1>9, <1>10

-----------------------------------------------------------------------------
(* The steps outside of a switch preserve the invariant *)

\* The parts of the invariant about a switch say nothing without one.
LEMMA StaysIdle ==
  ASSUME Idle, IdleOK, UNCHANGED <<phase, alt_chain, disconnected_chain, split_height, before>>
  PROVE  IdleOK' /\ SwitchOK' /\ BranchOK' /\ OldOK' /\ RestoreOK' /\ PushOK' /\ Idle'
<1>1. Idle'
  BY DEF Idle
<1>2. IdleOK'
  BY DEF IdleOK
<1> QED BY <1>1, <1>2 DEF SwitchOK, BranchOK, OldOK, RestoreOK, PushOK, Idle

\* The initial state.
LEMMA InitInv == Init => Inv
<1> SUFFICES ASSUME Init PROVE Inv
  OBVIOUS
<1>2. blocks = <<Genesis>> /\ Len(blocks) = 1 /\ blocks[1] = Genesis /\ Genesis \in Blocks
  BY TreeAssumption DEF Init
<1>3. \A i \in 1..Len(blocks) : i = 1
  BY <1>2
<1>4. LineOK(blocks)
  <2>1. blocks \in Seq(Blocks) /\ blocks # <<>> /\ blocks = Line[blocks[Len(blocks)]]
    BY <1>2, TreeAssumption
  <2>2. \A i \in 1..Len(blocks) : Flaw[blocks[i]] = "none"
    BY <1>2, <1>3, ContentAssumption
  <2> QED BY <2>1, <2>2, <1>3 DEF LineOK
<1>5. SumsOK(blocks, cumulative_difficulty)
  <2>1. /\ cumulative_difficulty = <<Difficulty[Genesis]>> /\ Difficulty[Genesis] \in Nat
        /\ Difficulty[Genesis] = Work[Genesis]
    BY TreeAssumption DEF Init
  <2> QED BY <2>1, <1>2, <1>3 DEF SumsOK
<1>6. AltsOK(alt_blocks) /\ Apart(blocks, alt_blocks)
  BY <1>2, <1>3 DEF Init, AltsOK, Apart
<1>7. DbOK
  BY <1>4, <1>5, <1>6 DEF Init, DbOK, PoolOK
<1>8. SavedOK /\ ControlOK /\ IdleOK
  BY DEF Init, SavedOK, ControlOK, IdleOK, Idle
<1>9. SwitchOK /\ BranchOK /\ OldOK /\ RestoreOK /\ PushOK
  BY DEF Init, SwitchOK, BranchOK, OldOK, RestoreOK, PushOK, Idle
<1> QED BY <1>7, <1>8, <1>9 DEF Inv

\* A batch begins.
LEMMA PrepareInv == Inv /\ prepare_handle_incoming_blocks => Inv'
<1>1. SUFFICES ASSUME Inv, prepare_handle_incoming_blocks PROVE Inv'
  OBVIOUS
<1>2. Idle /\ IdleOK /\ partial = {}
  BY <1>1 DEF Inv, ControlOK, Idle, prepare_handle_incoming_blocks
<1>3. UNCHANGED <<db, m_invalid_blocks, m_points, switch>>
  BY <1>1 DEF prepare_handle_incoming_blocks
<1>4. DbOK'
  BY <1>1, <1>3 DEF Inv, DbOK, db, switch, Idle
<1>5. SavedOK'
  <2>1. /\ saved' = <<blocks, cumulative_difficulty, alt_blocks, pool, kept, partial>>
    BY <1>1 DEF prepare_handle_incoming_blocks, db
  <2>2. /\ saved'[1] = blocks /\ saved'[2] = cumulative_difficulty /\ saved'[3] = alt_blocks
        /\ saved'[4] = pool /\ saved'[5] = kept /\ saved'[6] = partial
    BY <2>1
  <2>3. DbOK
    BY <1>1 DEF Inv
  <2> QED BY <2>2, <2>3, <1>2 DEF DbOK, SavedOK
<1>6. ControlOK'
  <2>1. saved' # <<>>
    BY <1>1 DEF prepare_handle_incoming_blocks, db
  <2> QED BY <1>1, <1>2, <1>3, <2>1 DEF Inv, ControlOK, prepare_handle_incoming_blocks, db, switch
<1>7. IdleOK' /\ SwitchOK' /\ BranchOK' /\ OldOK' /\ RestoreOK' /\ PushOK'
  BY <1>2, <1>3, StaysIdle DEF switch
<1> QED BY <1>4, <1>5, <1>6, <1>7 DEF Inv

\* A batch ends, kept or undone.
LEMMA CleanupInv == Inv /\ cleanup_handle_incoming_blocks => Inv'
<1>1. SUFFICES ASSUME Inv, cleanup_handle_incoming_blocks PROVE Inv'
  OBVIOUS
<1>2. /\ Idle /\ IdleOK /\ batch = "blocks" /\ saved # <<>>
      /\ DbOK /\ SavedOK /\ ControlOK
  BY <1>1 DEF Inv, ControlOK, cleanup_handle_incoming_blocks
<1>3. /\ UNCHANGED <<phase, alt_chain, disconnected_chain, split_height, before>>
      /\ UNCHANGED <<m_invalid_blocks, m_points, discard>>
      /\ batch' = "none" /\ saved' = <<>> /\ m_batch_success' = TRUE
  BY <1>1 DEF cleanup_handle_incoming_blocks
<1>4. DbOK' /\ partial' = {} /\ trouble' \in {"none", "panic", "nested"}
  <2>1. CASE m_batch_success
    <3>1. UNCHANGED <<db, trouble>>
      BY <2>1, <1>1 DEF cleanup_handle_incoming_blocks, BatchKept
    <3> QED BY <2>1, <3>1, <1>2, <1>3 DEF DbOK, ControlOK, db, Idle
  <2>2. CASE ~m_batch_success
    <3>1. /\ blocks' = saved[1] /\ cumulative_difficulty' = saved[2] /\ alt_blocks' = saved[3]
          /\ pool' = saved[4] /\ kept' = saved[5] /\ partial' = saved[6]
          /\ trouble' = "none"
      BY <2>2, <1>1 DEF cleanup_handle_incoming_blocks, BatchKept, RestoreDb
    <3> QED BY <3>1, <1>2 DEF SavedOK, DbOK
  <2> QED BY <2>1, <2>2
<1>5. SavedOK'
  BY <1>3 DEF SavedOK
<1>6. ControlOK'
  BY <1>2, <1>3, <1>4 DEF ControlOK, Idle
<1>7. IdleOK' /\ SwitchOK' /\ BranchOK' /\ OldOK' /\ RestoreOK' /\ PushOK'
  BY <1>2, <1>3, StaysIdle
<1> QED BY <1>4, <1>5, <1>6, <1>7 DEF Inv

\* A block arrives that continues the main chain.
LEMMA HandleInv ==
  ASSUME Inv, NEW b \in Blocks, b # Genesis, NEW extra, handle_block_to_main_chain(b, extra)
  PROVE  Inv'
<1>1. /\ Idle /\ IdleOK /\ batch = "blocks" /\ DbOK /\ SavedOK /\ ControlOK
      /\ ~InAlt(b) /\ ~InMain(b)
  BY DEF Inv, handle_block_to_main_chain, Arrives, have_block
<1>2. UNCHANGED <<alt_blocks, m_points, batch, saved, switch>>
  BY DEF handle_block_to_main_chain
<1>3. /\ LineOK(blocks') /\ SumsOK(blocks', cumulative_difficulty')
      /\ PoolOK(blocks', pool', kept') /\ partial' \subseteq Txs
      /\ Apart(blocks', alt_blocks')
      /\ m_invalid_blocks' \subseteq Blocks /\ m_batch_success' \in BOOLEAN
      /\ m_batch_success' => m_batch_success /\ partial' = partial
  <2>1. CASE Connects(b, extra)
    <3>1. Connect(b)
      BY <2>1 DEF handle_block_to_main_chain
    <3>2. /\ LineOK(blocks') /\ SumsOK(blocks', cumulative_difficulty')
          /\ PoolOK(blocks', pool', kept')
          /\ Len(blocks') = Len(blocks) + 1 /\ blocks'[Len(blocks) + 1] = b
          /\ \A i \in 1..Len(blocks) : blocks'[i] = blocks[i]
          /\ UNCHANGED <<partial, m_invalid_blocks, m_batch_success>>
      BY <2>1, <3>1, <1>1, ConnectFacts DEF DbHeight
    <3>3. Len(blocks) \in Nat /\ Apart(blocks, alt_blocks)
      BY <1>1, LineFacts DEF DbOK
    <3>4. Apart(blocks', alt_blocks')
      BY <3>2, <3>3, <1>1, <1>2 DEF Apart, InAlt
    <3> QED BY <3>2, <3>4, <1>1 DEF DbOK, ControlOK
  <2>2. CASE ~Connects(b, extra)
    <3>1. Refuse(b, extra)
      BY <2>2 DEF handle_block_to_main_chain
    <3> QED BY <3>1, <1>1, <1>2, RefuseFacts DEF DbOK
  <2> QED BY <2>1, <2>2
<1>4. DbOK'
  BY <1>1, <1>2, <1>3 DEF DbOK
<1>5. SavedOK'
  BY <1>1, <1>2 DEF SavedOK
<1>6. ControlOK'
  BY <1>1, <1>2, <1>3 DEF ControlOK, switch
<1>7. IdleOK' /\ SwitchOK' /\ BranchOK' /\ OldOK' /\ RestoreOK' /\ PushOK'
  BY <1>1, <1>2, StaysIdle DEF switch
<1> QED BY <1>4, <1>5, <1>6, <1>7 DEF Inv

\* A block becomes an alternative.
LEMMA StoreInv ==
  ASSUME Inv, NEW b \in Blocks, b # Genesis, NEW extra, store_alternative(b, extra)
  PROVE  Inv'
<1>1. /\ Idle /\ IdleOK /\ batch = "blocks" /\ DbOK /\ SavedOK /\ ControlOK
      /\ ~InAlt(b) /\ ~InMain(b) /\ extra \in {{}, ToSet(TxsOf[b])} /\ AltAccepted(b)
  BY DEF Inv, store_alternative, Arrives, have_block
<1>2. /\ UNCHANGED <<blocks, cumulative_difficulty, partial, m_invalid_blocks, m_points>>
      /\ UNCHANGED <<transaction, switch>>
      /\ alt_blocks' = [alt_blocks EXCEPT ![b] = AltDifficulty(b)]
      /\ AddToPool(Supplement(extra))
  BY DEF store_alternative, StoreAlternative
<1>3. PoolOK(blocks', pool', kept')
  <2>1. Supplement(extra) \in SUBSET Txs /\ Supplement(extra) \cap TxsIn(blocks) = {}
    BY <1>1, TxsOfType DEF Supplement, tx_exists
  <2>2. pool \subseteq Txs /\ kept \subseteq pool /\ pool \cap TxsIn(blocks) = {}
    BY <1>1 DEF DbOK, PoolOK
  <2>3. pool' \subseteq pool \cup Supplement(extra) /\ pool' \subseteq Txs /\ kept' \subseteq pool'
    BY <2>1, <2>2, <1>2, AddToPoolFacts
  <2> QED BY <2>1, <2>2, <2>3, <1>2 DEF PoolOK
<1>4. AltsOK(alt_blocks') /\ Apart(blocks', alt_blocks')
  <2>1. AltsOK(alt_blocks')
    BY <1>1, <1>2, AltFacts
  <2>2. Apart(blocks, alt_blocks) /\ \A i \in 1..Len(blocks) : blocks[i] # b
    BY <1>1 DEF DbOK, InMain, DbHeight
  <2>3. alt_blocks \in [Blocks -> Nat] /\ \A i \in 1..Len(blocks) : blocks[i] \in Blocks
    BY <1>1, LineFacts DEF DbOK, AltsOK
  <2> QED BY <2>1, <2>2, <2>3, <1>2 DEF Apart
<1>5. DbOK'
  BY <1>1, <1>2, <1>3, <1>4 DEF DbOK
<1>6. SavedOK' /\ ControlOK'
  BY <1>1, <1>2 DEF SavedOK, ControlOK, transaction, switch
<1>7. IdleOK' /\ SwitchOK' /\ BranchOK' /\ OldOK' /\ RestoreOK' /\ PushOK'
  BY <1>1, <1>2, StaysIdle DEF switch
<1> QED BY <1>5, <1>6, <1>7 DEF Inv

\* Transactions come and go, blocks are popped, invalid ones forgotten.
LEMMA PoolInv ==
  ASSUME Inv, NEW t \in Txs, pool_add(t) \/ pool_remove(t)
  PROVE  Inv'
<1>1. batch = "none" /\ Idle /\ IdleOK /\ DbOK /\ SavedOK /\ ControlOK
  BY DEF Inv, ControlOK, Idle, pool_add, pool_remove
<1>2. /\ UNCHANGED <<blocks, cumulative_difficulty, alt_blocks, partial, m_invalid_blocks>>
      /\ UNCHANGED <<m_points, transaction, switch>>
  BY DEF pool_add, pool_remove
<1>3. PoolOK(blocks', pool', kept')
  <2>1. PoolOK(blocks, pool, kept)
    BY <1>1 DEF DbOK
  <2>2. CASE pool_add(t)
    BY <2>1, <2>2 DEF pool_add, PoolOK
  <2>3. CASE pool_remove(t)
    BY <2>1, <2>3 DEF pool_remove, PoolOK
  <2> QED BY <2>2, <2>3
<1>4. DbOK'
  BY <1>1, <1>2, <1>3 DEF DbOK
<1>5. SavedOK' /\ ControlOK'
  BY <1>1, <1>2 DEF SavedOK, ControlOK, transaction, switch
<1>6. IdleOK' /\ SwitchOK' /\ BranchOK' /\ OldOK' /\ RestoreOK' /\ PushOK'
  BY <1>1, <1>2, StaysIdle DEF switch
<1> QED BY <1>4, <1>5, <1>6 DEF Inv

\* Popping without a switch.
LEMMA PopIdle ==
  ASSUME DbOK, Idle, NEW h \in 1..DbHeight, NEW S, S = TxsAbove(h) \/ S = {}, PoppedTo(h, S),
         UNCHANGED alt_blocks
  PROVE  DbOK' /\ partial' = partial
<1>1. S \in SUBSET Txs /\ S \cap TxsIn(SubSeq(blocks, 1, h)) = {}
  BY AboveFacts
<1>2. /\ LineOK(blocks') /\ SumsOK(blocks', cumulative_difficulty')
      /\ PoolOK(blocks', pool', kept') /\ partial' = partial
      /\ Len(blocks') = h /\ \A i \in 1..h : blocks'[i] = blocks[i]
  BY <1>1, PopFacts
<1>3. Apart(blocks, alt_blocks) /\ Len(blocks) \in Nat /\ h \in 1..Len(blocks)
  BY LineFacts DEF DbOK, DbHeight
<1>4. Apart(blocks', alt_blocks')
  BY <1>2, <1>3 DEF Apart
<1> QED BY <1>2, <1>4 DEF DbOK

\* The user pops blocks.
LEMMA PopInv ==
  ASSUME Inv, NEW nblocks \in 1..DbHeight, NEW keep_txs, pop_blocks(nblocks, keep_txs)
  PROVE  Inv'
<1>1. batch = "none" /\ Idle /\ IdleOK /\ DbOK /\ SavedOK /\ ControlOK /\ nblocks < DbHeight
  BY DEF Inv, ControlOK, Idle, pop_blocks
<1>2. UNCHANGED <<alt_blocks, m_invalid_blocks, m_points, transaction, switch>>
  BY DEF pop_blocks
<1>3. DbOK' /\ partial' = partial
  <2>1. DbHeight - nblocks \in 1..DbHeight
    BY <1>1, LineFacts DEF DbOK, DbHeight
  <2>2. PoppedTo(DbHeight - nblocks,
                 IF keep_txs THEN TxsAbove(DbHeight - nblocks) ELSE {})
    BY DEF pop_blocks
  <2> QED BY <2>1, <2>2, <1>1, <1>2, PopIdle
<1>4. SavedOK' /\ ControlOK'
  BY <1>1, <1>2, <1>3 DEF SavedOK, ControlOK, transaction, switch
<1>5. IdleOK' /\ SwitchOK' /\ BranchOK' /\ OldOK' /\ RestoreOK' /\ PushOK'
  BY <1>1, <1>2, StaysIdle DEF switch
<1> QED BY <1>3, <1>4, <1>5 DEF Inv

\* Invalid blocks are forgotten.
LEMMA FlushInv == Inv /\ flush_invalid_blocks => Inv'
<1> SUFFICES ASSUME Inv, flush_invalid_blocks PROVE Inv'
  OBVIOUS
<1>1. batch = "none" /\ Idle /\ IdleOK /\ DbOK /\ SavedOK /\ ControlOK
  BY DEF Inv, ControlOK, Idle, flush_invalid_blocks
<1>2. UNCHANGED <<db, m_points, transaction, switch>> /\ m_invalid_blocks' = {}
  BY DEF flush_invalid_blocks
<1>3. DbOK' /\ SavedOK' /\ ControlOK'
  BY <1>1, <1>2 DEF DbOK, SavedOK, ControlOK, transaction, switch, db, Idle
<1>4. IdleOK' /\ SwitchOK' /\ BranchOK' /\ OldOK' /\ RestoreOK' /\ PushOK'
  BY <1>1, <1>2, StaysIdle DEF switch
<1> QED BY <1>3, <1>4 DEF Inv

\* Rolling back for a checkpoint leaves at least the genesis block.
LEMMA RollbackFacts ==
  ASSUME NEW h \in Nat
  PROVE  RollbackHeight(h) \in Nat
<1>1. HeightLimit \in Nat /\ Height(Genesis) + 2 < HeightLimit /\ Height(Genesis) = 0
  <2>1. Genesis \in Blocks /\ Line[Genesis] = <<Genesis>>
    BY TreeAssumption
  <2>2. Height(Genesis) = 0
    BY <2>1 DEF Height
  <2> QED BY <2>1, <2>2, PointAssumption
<1> QED BY <1>1 DEF RollbackHeight

\* New checkpoints take effect.
LEMMA UpdateInv ==
  ASSUME Inv, NEW pts \in SUBSET Points, update_checkpoints(pts)
  PROVE  Inv'
<1>1. /\ batch = "none" /\ Idle /\ IdleOK /\ DbOK /\ SavedOK /\ ControlOK
      /\ m_points \subseteq Points
  BY DEF Inv, ControlOK, Idle, update_checkpoints
<1> DEFINE points == m_points \cup pts
           failing == {p \in points : p.height < DbHeight /\ blocks[p.height + 1] # p.id}
           effective == {p.height : p \in {q \in failing :
                                             RollbackHeight(q.height) <= DbHeight}}
           first == Min(effective)
           target == RollbackHeight(first)
           throws == target = 0 \/ \E p \in points : first < p.height /\ p.height < DbHeight
           height == IF target = 0 THEN 1 ELSE target
<1>2. /\ m_points' = points /\ UNCHANGED <<alt_blocks, m_invalid_blocks, m_batch_success, switch>>
      /\ IF effective = {} THEN UNCHANGED <<db, batch, saved>>
         ELSE /\ PoppedTo(height, TxsAbove(height))
              /\ batch' = IF throws THEN "left" ELSE "none"
              /\ saved' = IF throws THEN db ELSE <<>>
  BY DEF update_checkpoints
<1>3. IdleOK' /\ SwitchOK' /\ BranchOK' /\ OldOK' /\ RestoreOK' /\ PushOK'
  BY <1>1, <1>2, StaysIdle DEF switch
<1>4. CASE effective = {}
  <2>1. UNCHANGED <<db, batch, saved>>
    BY <1>2, <1>4
  <2>2. DbOK' /\ SavedOK' /\ ControlOK'
    BY <2>1, <1>1, <1>2 DEF DbOK, SavedOK, ControlOK, switch, db, Idle
  <2> QED BY <2>2, <1>3 DEF Inv
<1>5. CASE effective # {}
  <2>1. effective \in SUBSET Nat
    <3>1. \A p \in points : p.height \in Nat
      BY <1>1, PointAssumption
    <3> QED BY <3>1
  <2>2. first \in effective
    <3> HIDE DEF effective
    <3> QED BY <2>1, <1>5, MinNat
  <2>3. first \in Nat /\ target <= DbHeight
    BY <2>1, <2>2
  <2>4. height \in 1..DbHeight
    <3>1. DbHeight \in Nat \ {0}
      BY <1>1, LineFacts DEF DbOK, DbHeight
    <3>2. target \in Nat
      BY <2>3, RollbackFacts
    <3> QED BY <3>1, <3>2, <2>3
  <2> HIDE DEF height, throws, effective
  <2>5. DbOK' /\ partial' = partial
    BY <2>4, <1>1, <1>2, <1>5, PopIdle
  <2>6. partial = {} /\ m_batch_success
    BY <1>1 DEF ControlOK
  <2>7. /\ saved' = <<>> \/ saved' = <<blocks, cumulative_difficulty, alt_blocks, pool, kept, partial>>
        /\ saved' = <<>> => batch' = "none"
        /\ saved' # <<>> => batch' = "left"
    BY <1>2, <1>5 DEF db
  <2>8. SavedOK'
    <3>1. SUFFICES ASSUME saved' = <<blocks, cumulative_difficulty, alt_blocks, pool, kept, partial>>
                   PROVE  SavedOK'
      BY <2>7 DEF SavedOK
    <3>2. /\ saved'[1] = blocks /\ saved'[2] = cumulative_difficulty /\ saved'[3] = alt_blocks
          /\ saved'[4] = pool /\ saved'[5] = kept /\ saved'[6] = partial
      BY <3>1
    <3> QED BY <3>2, <2>6, <1>1 DEF DbOK, SavedOK
  <2>9. ControlOK'
    BY <2>5, <2>6, <2>7, <1>1, <1>2 DEF ControlOK, switch, Idle
  <2> QED BY <2>5, <2>8, <2>9, <1>3 DEF Inv
<1> QED BY <1>4, <1>5

\* The process stops and is started again.
LEMMA RestartInv ==
  ASSUME Inv, NEW keep_alt_blocks, restart(keep_alt_blocks)
  PROVE  Inv'
<1>1. DbOK /\ SavedOK /\ ControlOK
  BY DEF Inv
<1>2. /\ batch' = "none" /\ saved' = <<>> /\ m_batch_success' = TRUE
      /\ m_invalid_blocks' = {} /\ m_points' = {} /\ trouble' = "none" /\ discard' = FALSE
      /\ phase' = "idle" /\ alt_chain' = <<>> /\ disconnected_chain' = <<>>
      /\ split_height' = 0 /\ before' = <<>>
  BY DEF restart, NoSwitch
<1>3. DbOK' /\ partial' = {}
  <2>1. CASE saved = <<>>
    <3>1. Idle /\ partial = {}
      BY <2>1, <1>1 DEF ControlOK, Idle
    <3>2. /\ blocks' = blocks /\ cumulative_difficulty' = cumulative_difficulty
          /\ alt_blocks' = (IF keep_alt_blocks THEN alt_blocks ELSE [b \in Blocks |-> 0])
          /\ pool' = pool /\ kept' = kept /\ partial' = partial
      BY <2>1 DEF restart, db
    <3>3. AltsOK(alt_blocks') /\ Apart(blocks', alt_blocks')
      <4>1. \A i \in 1..Len(blocks) : blocks[i] \in Blocks
        BY <1>1, LineFacts DEF DbOK
      <4> QED BY <3>1, <3>2, <4>1, <1>1 DEF DbOK, AltsOK, Apart
    <3> QED BY <3>1, <3>2, <3>3, <1>1 DEF DbOK
  <2>2. CASE saved # <<>>
    <3>1. /\ blocks' = saved[1] /\ cumulative_difficulty' = saved[2]
          /\ alt_blocks' = (IF keep_alt_blocks THEN saved[3] ELSE [b \in Blocks |-> 0])
          /\ pool' = saved[4] /\ kept' = saved[5] /\ partial' = saved[6]
      BY <2>2 DEF restart
    <3>2. AltsOK(alt_blocks') /\ Apart(blocks', alt_blocks')
      <4>1. \A i \in 1..Len(saved[1]) : saved[1][i] \in Blocks
        BY <2>2, <1>1, LineFacts DEF SavedOK
      <4> QED BY <2>2, <3>1, <4>1, <1>1 DEF SavedOK, AltsOK, Apart
    <3> QED BY <2>2, <3>1, <3>2, <1>1 DEF SavedOK, DbOK
  <2> QED BY <2>1, <2>2
<1>4. SavedOK' /\ ControlOK' /\ IdleOK'
  BY <1>2, <1>3 DEF SavedOK, ControlOK, IdleOK
<1>5. SwitchOK' /\ BranchOK' /\ OldOK' /\ RestoreOK' /\ PushOK'
  BY <1>2 DEF SwitchOK, BranchOK, OldOK, RestoreOK, PushOK, Idle
<1> QED BY <1>3, <1>4, <1>5 DEF Inv

-----------------------------------------------------------------------------
(* The steps of a switch preserve the invariant *)

\* A switch begins.
LEMMA StartInv ==
  ASSUME Inv, NEW b \in Blocks, b # Genesis, NEW extra, start_switch(b, extra)
  PROVE  Inv'
<1> DEFINE chain == Append(AltBranch(b), b)
           split == Height(chain[1])
           S == Supplement(extra) \cup TxsAbove(split)
<1>1. /\ Idle /\ batch = "blocks" /\ DbOK /\ SavedOK /\ ControlOK
      /\ ~InAlt(b) /\ ~InMain(b) /\ extra \in {{}, ToSet(TxsOf[b])} /\ AltAccepted(b)
  BY DEF Inv, start_switch, Arrives, have_block
<1>2. /\ alt_blocks' = [alt_blocks EXCEPT ![b] = AltDifficulty(b)]
      /\ PoppedTo(split, S) /\ alt_chain' = chain /\ split_height' = split
      /\ disconnected_chain' = SubSeq(blocks, split + 1, Len(blocks))
      /\ discard' = IsCheckpoint(Height(b)) /\ before' = blocks /\ phase' = "connect"
      /\ UNCHANGED <<m_invalid_blocks, m_points, transaction, trouble>>
  BY DEF start_switch, StoreAlternative, DbHeight
<1>3. /\ chain \in Seq(Blocks) /\ Len(chain) \in Nat \ {0}
      /\ \A i \in 1..Len(chain), j \in 1..Len(blocks) : chain[i] # blocks[j]
      /\ split \in 1..Len(blocks)
  BY <1>1, SplitFacts
<1> HIDE DEF chain, split
<1>4. LineOK(blocks) /\ blocks \in Seq(Blocks) /\ Len(blocks) \in Nat
  BY <1>1, LineFacts DEF DbOK, LineOK
<1>5. S \in SUBSET Txs /\ S \cap TxsIn(SubSeq(blocks, 1, split)) = {}
  <2>1. Supplement(extra) \in SUBSET Txs /\ Supplement(extra) \cap TxsIn(blocks) = {}
    BY <1>1, TxsOfType DEF Supplement, tx_exists
  <2>2. /\ TxsAbove(split) \in SUBSET Txs
        /\ TxsAbove(split) \cap TxsIn(SubSeq(blocks, 1, split)) = {}
        /\ TxsIn(SubSeq(blocks, 1, split)) \subseteq TxsIn(blocks)
    BY <1>1, <1>3, AboveFacts DEF DbHeight
  <2> QED BY <2>1, <2>2
<1>6. TxsAbove(split) \subseteq S
  OBVIOUS
<1> HIDE DEF S
<1>7. /\ LineOK(blocks') /\ SumsOK(blocks', cumulative_difficulty')
      /\ PoolOK(blocks', pool', kept') /\ partial' = partial
      /\ Len(blocks') = split /\ \A i \in 1..split : blocks'[i] = blocks[i]
      /\ TxsIn(blocks) \subseteq TxsIn(blocks') \cup kept'
  <2>1. split \in 1..DbHeight
    BY <1>3 DEF DbHeight
  <2> QED BY <2>1, <1>1, <1>2, <1>5, <1>6, PopFacts
<1>8. AltsOK(alt_blocks') /\ Apart(blocks, alt_blocks')
  <2>1. AltsOK(alt_blocks')
    BY <1>1, <1>2, AltFacts
  <2>2. Apart(blocks, alt_blocks) /\ \A i \in 1..Len(blocks) : blocks[i] # b
    BY <1>1 DEF DbOK, InMain, DbHeight
  <2>3. alt_blocks \in [Blocks -> Nat] /\ \A i \in 1..Len(blocks) : blocks[i] \in Blocks
    BY <1>1, LineFacts DEF DbOK, AltsOK
  <2> QED BY <2>1, <2>2, <2>3, <1>2 DEF Apart
<1>9. /\ disconnected_chain' \in Seq(Blocks) /\ Len(disconnected_chain') = Len(blocks) - split
      /\ \A i \in 1..Len(disconnected_chain') : disconnected_chain'[i] = blocks[split + i]
  BY <1>2, <1>3, <1>4
<1>10. DbOK'
  BY <1>1, <1>2, <1>7, <1>8 DEF DbOK, Idle
<1>11. SavedOK'
  BY <1>1, <1>2 DEF SavedOK, transaction
<1>12. ControlOK'
  <2>1. discard' \in BOOLEAN
    BY <1>2 DEF IsCheckpoint
  <2> QED BY <2>1, <1>1, <1>2, <1>7 DEF ControlOK, transaction
<1>13. SwitchOK'
  <2>1. chain # <<>>
    BY <1>3
  <2> QED BY <2>1, <1>2, <1>3, <1>4, <1>7, <1>9 DEF SwitchOK, DbHeight
<1>14. BranchOK'
  BY <1>2, <1>3, <1>7 DEF BranchOK, DbHeight
<1>15. OldOK'
  BY <1>2, <1>8, <1>9 DEF OldOK
<1>16. IdleOK' /\ RestoreOK' /\ PushOK'
  BY <1>2 DEF IdleOK, RestoreOK, PushOK, Idle
<1> QED BY <1>10, <1>11, <1>12, <1>13, <1>14, <1>15, <1>16 DEF Inv

\* What a switch has established, for its steps.
LEMMA SwitchFacts ==
  ASSUME Inv, ~Idle
  PROVE  /\ LineOK(before) /\ before \in Seq(Blocks) /\ Len(before) \in Nat \ {0}
         /\ LineOK(blocks) /\ DbHeight = Len(blocks) /\ Len(blocks) \in Nat \ {0}
         /\ split_height \in 1..Len(before) /\ split_height <= Len(blocks)
         /\ \A i \in 1..split_height : blocks[i] = before[i]
         /\ alt_chain \in Seq(Blocks) /\ Len(alt_chain) \in Nat \ {0}
         /\ \A i \in 1..Len(alt_chain) : alt_chain[i] \in Blocks /\ alt_chain[i] # Genesis
         /\ \A i \in 1..Len(alt_chain), j \in 1..Len(before) : alt_chain[i] # before[j]
         /\ TxsIn(before) \subseteq TxsIn(blocks) \cup kept
         /\ disconnected_chain \in Seq(Blocks) /\ Len(disconnected_chain) \in Nat
<1>1. /\ LineOK(before) /\ split_height \in 1..Len(before) /\ split_height <= DbHeight
      /\ \A i \in 1..split_height : blocks[i] = before[i]
      /\ alt_chain \in Seq(Blocks) /\ alt_chain # <<>>
      /\ \A i \in 1..Len(alt_chain), j \in 1..Len(before) : alt_chain[i] # before[j]
      /\ TxsIn(before) \subseteq TxsIn(blocks) \cup kept
      /\ disconnected_chain \in Seq(Blocks)
  BY DEF Inv, SwitchOK
<1>2. LineOK(blocks) /\ DbHeight = Len(blocks)
  BY DEF Inv, DbOK, DbHeight
<1>3. Len(before) \in Nat \ {0} /\ before[1] = Genesis /\ Len(blocks) \in Nat \ {0}
  BY <1>1, <1>2, LineFacts
<1>4. before \in Seq(Blocks)
  BY <1>1 DEF LineOK
<1>5. Len(alt_chain) \in Nat \ {0} /\ Len(disconnected_chain) \in Nat
  BY <1>1
<1>6. ASSUME NEW i \in 1..Len(alt_chain)
      PROVE  alt_chain[i] \in Blocks /\ alt_chain[i] # Genesis
  <2>1. 1 \in 1..Len(before)
    BY <1>3
  <2> QED BY <2>1, <1>1, <1>3
<1> QED BY <1>1, <1>2, <1>3, <1>4, <1>5, <1>6

\* A block of the branch is connected, or the switch fails.
LEMMA ConnectAlternativeInv == Inv /\ connect_alternative => Inv'
<1> SUFFICES ASSUME Inv, connect_alternative PROVE Inv'
  OBVIOUS
<1> DEFINE k == Len(blocks) - split_height + 1
           b == alt_chain[k]
<1>1. /\ phase = "connect" /\ ~Idle /\ DbOK /\ SavedOK /\ ControlOK /\ OldOK
      /\ BranchOK /\ PoolOK(blocks, pool, kept) /\ AltsOK(alt_blocks)
  BY DEF Inv, DbOK, Idle, connect_alternative
<1>2. /\ LineOK(before) /\ Len(before) \in Nat \ {0}
      /\ LineOK(blocks) /\ DbHeight = Len(blocks) /\ Len(blocks) \in Nat \ {0}
      /\ split_height \in 1..Len(before) /\ split_height <= Len(blocks)
      /\ \A i \in 1..split_height : blocks[i] = before[i]
      /\ alt_chain \in Seq(Blocks) /\ Len(alt_chain) \in Nat \ {0}
      /\ \A i \in 1..Len(alt_chain) : alt_chain[i] \in Blocks /\ alt_chain[i] # Genesis
      /\ \A i \in 1..Len(alt_chain), j \in 1..Len(before) : alt_chain[i] # before[j]
      /\ TxsIn(before) \subseteq TxsIn(blocks) \cup kept
      /\ disconnected_chain \in Seq(Blocks)
  BY <1>1, SwitchFacts
<1>3. /\ Len(blocks) < split_height + Len(alt_chain)
      /\ \A i \in 1..(Len(blocks) - split_height) : blocks[split_height + i] = alt_chain[i]
  BY <1>1, <1>2 DEF BranchOK
<1>4. k \in 1..Len(alt_chain) /\ b \in Blocks /\ b # Genesis
  BY <1>2, <1>3
<1>5. /\ IF Connects(b, {})
         THEN /\ Connect(b)
              /\ phase' = IF k = Len(alt_chain) THEN "push" ELSE "connect"
              /\ UNCHANGED alt_chain
         ELSE /\ Refuse(b, {})
              /\ phase' = "rollback" /\ alt_chain' = SubSeq(alt_chain, k, Len(alt_chain))
      /\ UNCHANGED <<alt_blocks, m_points, batch, saved, disconnected_chain, split_height>>
      /\ UNCHANGED <<discard, before, trouble>>
  BY DEF connect_alternative, ToRemove, DbHeight
<1> HIDE DEF b
<1>6. CASE Connects(b, {})
  <2>1. /\ LineOK(blocks') /\ SumsOK(blocks', cumulative_difficulty')
        /\ PoolOK(blocks', pool', kept')
        /\ Len(blocks') = Len(blocks) + 1 /\ blocks'[Len(blocks) + 1] = b
        /\ \A i \in 1..Len(blocks) : blocks'[i] = blocks[i]
        /\ TxsIn(blocks) \cup kept \subseteq TxsIn(blocks') \cup kept'
        /\ UNCHANGED <<partial, m_invalid_blocks, m_batch_success>>
    BY <1>1, <1>2, <1>4, <1>5, <1>6, ConnectFacts
  <2>2. /\ phase' \in {"connect", "push"} /\ alt_chain' = alt_chain
        /\ phase' = "connect" <=> k # Len(alt_chain)
    BY <1>5, <1>6
  <2>3. DbOK'
    BY <2>1, <2>2, <1>1, <1>5 DEF DbOK, Idle
  <2>4. SavedOK' /\ ControlOK'
    BY <2>1, <2>2, <1>1, <1>5 DEF SavedOK, ControlOK
  <2>5. SwitchOK'
    <3>1. \A i \in 1..split_height : blocks'[i] = before[i]
      BY <2>1, <1>2
    <3>2. TxsIn(before) \subseteq TxsIn(blocks') \cup kept' /\ alt_chain # <<>>
      BY <2>1, <1>2
    <3> QED BY <3>1, <3>2, <2>1, <2>2, <1>2, <1>5 DEF SwitchOK, DbHeight
  <2>6. BranchOK'
    <3>1. \A i \in 1..(Len(blocks') - split_height) : blocks'[split_height + i] = alt_chain[i]
      <4>1. SUFFICES ASSUME NEW i \in 1..(Len(blocks') - split_height)
                     PROVE  blocks'[split_height + i] = alt_chain[i]
        OBVIOUS
      <4>2. CASE i = k
        BY <4>2, <2>1, <1>2 DEF b
      <4>3. CASE i # k
        <5>1. i \in 1..(Len(blocks) - split_height) /\ split_height + i \in 1..Len(blocks)
          BY <4>3, <2>1, <1>2
        <5> QED BY <5>1, <2>1, <1>3
      <4> QED BY <4>2, <4>3
    <3>2. /\ phase' = "connect" => Len(blocks') < split_height + Len(alt_chain)
          /\ phase' = "push" => Len(blocks') = split_height + Len(alt_chain)
      BY <2>1, <2>2, <1>2, <1>4
    <3> QED BY <3>1, <3>2, <2>1, <2>2, <1>2, <1>5 DEF BranchOK, DbHeight
  <2>7. OldOK'
    BY <2>2, <1>1, <1>5 DEF OldOK
  <2>8. PushOK'
    <3>1. /\ Apart(before, alt_blocks) /\ Len(disconnected_chain) = Len(before) - split_height
          /\ \A i \in 1..Len(disconnected_chain) :
               disconnected_chain[i] = before[split_height + i]
      BY <1>1 DEF OldOK
    <3>2. \A i \in 1..split_height : alt_blocks[before[i]] = 0
      BY <3>1, <1>2 DEF Apart
    <3>3. \A i \in 1..Len(disconnected_chain) :
            \E j \in (split_height + 1)..Len(before) : disconnected_chain[i] = before[j]
      <4>1. SUFFICES ASSUME NEW i \in 1..Len(disconnected_chain)
                     PROVE  \E j \in (split_height + 1)..Len(before) :
                              disconnected_chain[i] = before[j]
        OBVIOUS
      <4>2. split_height + i \in (split_height + 1)..Len(before)
        BY <3>1, <1>2
      <4> QED BY <4>2, <3>1
    <3> QED BY <3>2, <3>3, <1>5 DEF PushOK
  <2>9. IdleOK' /\ RestoreOK'
    BY <2>2 DEF IdleOK, RestoreOK, Idle
  <2> QED BY <2>3, <2>4, <2>5, <2>6, <2>7, <2>8, <2>9 DEF Inv
<1>7. CASE ~Connects(b, {})
  <2>1. /\ blocks' = blocks /\ cumulative_difficulty' = cumulative_difficulty
        /\ PoolOK(blocks', pool', kept') /\ kept \subseteq kept' /\ partial' \subseteq Txs
        /\ m_invalid_blocks' \subseteq Blocks /\ m_batch_success' \in BOOLEAN
        /\ m_batch_success' => m_batch_success /\ partial' = partial
    BY <1>1, <1>4, <1>5, <1>7, RefuseFacts
  <2>2. phase' = "rollback" /\ alt_chain' = SubSeq(alt_chain, k, Len(alt_chain))
    BY <1>5, <1>7
  <2>3. DbOK'
    BY <2>1, <2>2, <1>1, <1>5 DEF DbOK, Idle
  <2>4. SavedOK'
    BY <1>1, <1>5 DEF SavedOK
  <2>5. ControlOK'
    BY <2>1, <2>2, <1>1, <1>5 DEF ControlOK
  <2>6. SwitchOK'
    <3>1. /\ alt_chain' \in Seq(Blocks) /\ Len(alt_chain') = Len(alt_chain) - k + 1
          /\ \A i \in 1..Len(alt_chain') : alt_chain'[i] = alt_chain[k + i - 1]
      BY <2>2, <1>2, <1>4
    <3>2. \A i \in 1..Len(alt_chain'), j \in 1..Len(before) : alt_chain'[i] # before[j]
      <4>1. SUFFICES ASSUME NEW i \in 1..Len(alt_chain'), NEW j \in 1..Len(before)
                     PROVE  alt_chain'[i] # before[j]
        OBVIOUS
      <4>2. k + i - 1 \in 1..Len(alt_chain)
        BY <3>1, <1>2, <1>4
      <4> QED BY <4>2, <3>1, <1>2
    <3>3. alt_chain' # <<>>
      BY <3>1, <1>2, <1>4
    <3> QED BY <3>1, <3>2, <3>3, <2>1, <1>2, <1>5 DEF SwitchOK, DbHeight
  <2>7. OldOK'
    BY <1>1, <1>5 DEF OldOK
  <2>8. IdleOK' /\ BranchOK' /\ RestoreOK' /\ PushOK'
    BY <2>2 DEF IdleOK, BranchOK, RestoreOK, PushOK, Idle
  <2> QED BY <2>3, <2>4, <2>5, <2>6, <2>7, <2>8 DEF Inv
<1> QED BY <1>6, <1>7

\* What was connected of a branch that failed is popped.
LEMMA RollbackInv == Inv /\ rollback_blockchain_switching => Inv'
<1> SUFFICES ASSUME Inv, rollback_blockchain_switching PROVE Inv'
  OBVIOUS
<1>1. phase = "rollback" /\ ~Idle /\ DbOK /\ SavedOK /\ ControlOK /\ OldOK
  BY DEF Inv, Idle, rollback_blockchain_switching
<1>2. /\ LineOK(before) /\ Len(before) \in Nat \ {0} /\ DbHeight = Len(blocks)
      /\ split_height \in 1..Len(before) /\ split_height \in 1..DbHeight
      /\ \A i \in 1..split_height : blocks[i] = before[i]
      /\ TxsIn(before) \subseteq TxsIn(blocks) \cup kept
  BY <1>1, SwitchFacts
<1>3. /\ PoppedTo(split_height, TxsAbove(split_height)) /\ phase' = "restore"
      /\ UNCHANGED <<alt_blocks, m_invalid_blocks, m_points, transaction, alt_chain>>
      /\ UNCHANGED <<disconnected_chain, split_height, discard, before, trouble>>
  BY DEF rollback_blockchain_switching
<1>4. /\ LineOK(blocks') /\ SumsOK(blocks', cumulative_difficulty')
      /\ PoolOK(blocks', pool', kept') /\ partial' = partial
      /\ Len(blocks') = split_height /\ \A i \in 1..split_height : blocks'[i] = blocks[i]
      /\ kept' = kept \cup TxsAbove(split_height)
      /\ TxsIn(blocks) \subseteq TxsIn(blocks') \cup TxsAbove(split_height)
  <2>1. /\ TxsAbove(split_height) \in SUBSET Txs
        /\ TxsAbove(split_height) \cap TxsIn(SubSeq(blocks, 1, split_height)) = {}
    BY <1>1, <1>2, AboveFacts
  <2> QED BY <2>1, <1>1, <1>2, <1>3, PopFacts
<1>5. DbOK'
  BY <1>1, <1>3, <1>4 DEF DbOK, Idle
<1>6. SavedOK' /\ ControlOK'
  BY <1>1, <1>3, <1>4 DEF SavedOK, ControlOK, transaction
<1>7. SwitchOK'
  <2>1. TxsIn(before) \subseteq TxsIn(blocks') \cup kept'
    BY <1>2, <1>4
  <2>2. split_height \in 1..Len(blocks') /\ \A i \in 1..split_height : blocks'[i] = before[i]
    BY <1>2, <1>4
  <2>3. /\ alt_chain \in Seq(Blocks) /\ alt_chain # <<>> /\ disconnected_chain \in Seq(Blocks)
        /\ \A i \in 1..Len(alt_chain), j \in 1..Len(before) : alt_chain[i] # before[j]
    BY <1>1 DEF Inv, SwitchOK
  <2> QED BY <2>1, <2>2, <2>3, <1>2, <1>3 DEF SwitchOK, DbHeight
<1>8. OldOK'
  BY <1>1, <1>3 DEF OldOK
<1>9. RestoreOK'
  BY <1>2, <1>3, <1>4 DEF RestoreOK, DbHeight
<1>10. IdleOK' /\ BranchOK' /\ PushOK'
  BY <1>3 DEF IdleOK, BranchOK, PushOK, Idle
<1> QED BY <1>5, <1>6, <1>7, <1>8, <1>9, <1>10 DEF Inv

\* The block of the old chain that is put back next.
LEMMA RestoreFacts ==
  ASSUME Inv, phase = "restore",
         DbHeight - split_height + 1 <= Len(disconnected_chain),
         NEW b, b = disconnected_chain[DbHeight - split_height + 1]
  PROVE  /\ Len(blocks) + 1 \in 1..Len(before) /\ b = before[Len(blocks) + 1]
         /\ b \in Blocks /\ b # Genesis /\ Parent(b) = Tip
<1>1. ~Idle /\ OldOK /\ RestoreOK
  BY DEF Inv, Idle
<1>2. /\ LineOK(before) /\ before \in Seq(Blocks) /\ Len(before) \in Nat \ {0}
      /\ DbHeight = Len(blocks) /\ Len(blocks) \in Nat \ {0}
      /\ split_height \in 1..Len(before) /\ split_height <= Len(blocks)
  BY <1>1, SwitchFacts
<1>3. /\ Len(disconnected_chain) = Len(before) - split_height
      /\ \A i \in 1..Len(disconnected_chain) : disconnected_chain[i] = before[split_height + i]
      /\ Len(blocks) <= Len(before) /\ \A i \in 1..Len(blocks) : blocks[i] = before[i]
  BY <1>1, <1>2 DEF OldOK, RestoreOK
<1>4. Len(blocks) + 1 \in 1..Len(before) /\ b = before[Len(blocks) + 1]
  <2>1. DbHeight - split_height + 1 \in 1..Len(disconnected_chain)
    BY <1>2, <1>3
  <2>2. b = before[split_height + (DbHeight - split_height + 1)]
    BY <2>1, <1>3
  <2>3. split_height + (DbHeight - split_height + 1) = Len(blocks) + 1
    BY <1>2
  <2> QED BY <2>1, <2>2, <2>3, <1>2, <1>3
<1>5. /\ b \in Blocks /\ Len(Line[b]) = Len(blocks) + 1
      /\ \A j \in 1..(Len(blocks) + 1) : Line[b][j] = before[j]
      /\ b = Genesis => Len(blocks) + 1 = 1
  BY <1>2, <1>4, LineFacts
<1>6. Parent(b) = before[Len(blocks)]
  BY <1>2, <1>5, SMTT(30) DEF Parent
<1> QED BY <1>2, <1>3, <1>4, <1>5, <1>6 DEF Tip

\* A block of the old chain is put back, or cannot be.
LEMMA RestoreInv == Inv /\ restore_original => Inv'
<1> SUFFICES ASSUME Inv, restore_original PROVE Inv'
  OBVIOUS
<1> DEFINE b == disconnected_chain[DbHeight - split_height + 1]
<1>1. phase = "restore" /\ ~Idle /\ DbOK /\ SavedOK /\ ControlOK /\ OldOK /\ RestoreOK
  BY DEF Inv, Idle, restore_original
<1>2. /\ LineOK(before) /\ Len(before) \in Nat \ {0} /\ DbHeight = Len(blocks)
      /\ Len(blocks) \in Nat \ {0}
      /\ split_height \in 1..Len(before) /\ split_height <= Len(blocks)
      /\ \A i \in 1..split_height : blocks[i] = before[i]
      /\ TxsIn(before) \subseteq TxsIn(blocks) \cup kept
  BY <1>1, SwitchFacts
<1>3. /\ IF Connects(b, {}) THEN Connect(b) /\ UNCHANGED <<phase, trouble>>
         ELSE Refuse(b, {}) /\ phase' = "drop" /\ trouble' = "panic"
      /\ UNCHANGED <<alt_blocks, m_points, batch, saved, alt_chain, disconnected_chain>>
      /\ UNCHANGED <<split_height, discard, before>>
      /\ DbHeight - split_height + 1 <= Len(disconnected_chain)
  BY DEF restore_original
<1>4. /\ Len(blocks) + 1 \in 1..Len(before) /\ b = before[Len(blocks) + 1]
      /\ b \in Blocks /\ b # Genesis
  BY <1>1, <1>3, RestoreFacts
<1> HIDE DEF b
<1>5. SwitchOK
  BY DEF Inv
<1>6. CASE Connects(b, {})
  <2>1. /\ LineOK(blocks') /\ SumsOK(blocks', cumulative_difficulty')
        /\ PoolOK(blocks', pool', kept')
        /\ Len(blocks') = Len(blocks) + 1 /\ blocks'[Len(blocks) + 1] = b
        /\ \A i \in 1..Len(blocks) : blocks'[i] = blocks[i]
        /\ TxsIn(blocks) \cup kept \subseteq TxsIn(blocks') \cup kept'
        /\ UNCHANGED <<partial, m_invalid_blocks, m_batch_success>>
    BY <1>1, <1>2, <1>3, <1>4, <1>6, ConnectFacts
  <2>2. UNCHANGED <<phase, trouble>>
    BY <1>3, <1>6
  <2>3. DbOK'
    BY <2>1, <2>2, <1>1, <1>3 DEF DbOK, Idle
  <2>4. SavedOK' /\ ControlOK'
    BY <2>1, <2>2, <1>1, <1>3 DEF SavedOK, ControlOK
  <2>5. SwitchOK'
    <3>1. \A i \in 1..split_height : blocks'[i] = before[i]
      BY <2>1, <1>2
    <3>2. TxsIn(before) \subseteq TxsIn(blocks') \cup kept' /\ split_height <= Len(blocks')
      BY <2>1, <1>2
    <3> QED BY <3>1, <3>2, <1>1, <1>3, <1>5 DEF SwitchOK, DbHeight
  <2>6. OldOK'
    BY <2>2, <1>1, <1>3 DEF OldOK
  <2>7. RestoreOK'
    <3>1. \A i \in 1..Len(blocks) : blocks[i] = before[i]
      BY <1>1, <1>2 DEF RestoreOK
    <3>2. \A i \in 1..Len(blocks') : blocks'[i] = before[i]
      BY <3>1, <2>1, <1>2, <1>4
    <3> QED BY <3>2, <2>1, <1>3, <1>2, <1>4 DEF RestoreOK, DbHeight
  <2>8. IdleOK' /\ BranchOK' /\ PushOK'
    BY <2>2, <1>1 DEF IdleOK, BranchOK, PushOK, Idle
  <2> QED BY <2>3, <2>4, <2>5, <2>6, <2>7, <2>8 DEF Inv
<1>7. CASE ~Connects(b, {})
  <2>1. /\ blocks' = blocks /\ cumulative_difficulty' = cumulative_difficulty
        /\ PoolOK(blocks', pool', kept') /\ kept \subseteq kept' /\ partial' \subseteq Txs
        /\ m_invalid_blocks' \subseteq Blocks /\ m_batch_success' \in BOOLEAN
        /\ m_batch_success' => m_batch_success /\ partial' = partial
    BY <1>1, <1>3, <1>4, <1>7, RefuseFacts
  <2>2. phase' = "drop" /\ trouble' = "panic"
    BY <1>3, <1>7
  <2>3. DbOK'
    BY <2>1, <2>2, <1>1, <1>3 DEF DbOK, Idle
  <2>4. SavedOK'
    BY <1>1, <1>3 DEF SavedOK
  <2>5. ControlOK'
    BY <2>1, <2>2, <1>1, <1>3 DEF ControlOK
  <2>6. SwitchOK'
    <3>1. TxsIn(before) \subseteq TxsIn(blocks') \cup kept'
      BY <2>1, <1>2
    <3> QED BY <3>1, <2>1, <1>1, <1>3, <1>5 DEF SwitchOK, DbHeight
  <2>7. OldOK' /\ RestoreOK'
    BY <2>1, <2>2, <1>1, <1>3 DEF OldOK, RestoreOK, DbHeight
  <2>8. IdleOK' /\ BranchOK' /\ PushOK'
    BY <2>2 DEF IdleOK, BranchOK, PushOK, Idle
  <2> QED BY <2>3, <2>4, <2>5, <2>6, <2>7, <2>8 DEF Inv
<1> QED BY <1>6, <1>7

\* The block of the old chain that becomes an alternative next.
LEMMA PushFacts ==
  ASSUME Inv, phase = "push", disconnected_chain # <<>>, NEW b, b = disconnected_chain[1]
  PROVE  /\ b \in Blocks /\ b # Genesis
         /\ \E j \in (split_height + 1)..Len(before) : b = before[j]
         /\ \A i \in 1..Len(blocks) : blocks[i] # b
<1>1. ~Idle /\ PushOK /\ BranchOK
  BY DEF Inv, Idle
<1>2. /\ LineOK(before) /\ Len(before) \in Nat \ {0} /\ DbHeight = Len(blocks)
      /\ Len(blocks) \in Nat \ {0} /\ Len(alt_chain) \in Nat
      /\ split_height \in 1..Len(before) /\ split_height <= Len(blocks)
      /\ \A i \in 1..split_height : blocks[i] = before[i]
      /\ \A i \in 1..Len(alt_chain), j \in 1..Len(before) : alt_chain[i] # before[j]
      /\ disconnected_chain \in Seq(Blocks) /\ Len(disconnected_chain) \in Nat
  BY <1>1, SwitchFacts
<1>3. 1 \in 1..Len(disconnected_chain)
  BY <1>2
<1>4. PICK j \in (split_height + 1)..Len(before) : b = before[j]
  BY <1>1, <1>3 DEF PushOK
<1>5. j \in 1..Len(before) /\ j # 1
  BY <1>2, <1>4
<1>6. b \in Blocks /\ Len(Line[b]) = j /\ b # Genesis
  BY <1>2, <1>4, <1>5, LineFacts
<1>7. ASSUME NEW i \in 1..Len(blocks) PROVE blocks[i] # b
  <2>1. CASE i <= split_height
    <3>1. i \in 1..Len(before) /\ blocks[i] = before[i] /\ i # j
      BY <2>1, <1>2
    <3>2. Len(Line[blocks[i]]) = i
      BY <3>1, <1>2, LineFacts
    <3> QED BY <3>1, <3>2, <1>6
  <2>2. CASE ~(i <= split_height)
    <3>1. /\ Len(blocks) = split_height + Len(alt_chain)
          /\ \A m \in 1..(Len(blocks) - split_height) : blocks[split_height + m] = alt_chain[m]
      BY <1>1, <1>2 DEF BranchOK
    <3>2. i - split_height \in 1..Len(alt_chain) /\ split_height + (i - split_height) = i
          /\ i - split_height \in 1..(Len(blocks) - split_height)
      BY <3>1, <2>2, <1>2
    <3>3. blocks[i] = alt_chain[i - split_height]
      BY <3>1, <3>2
    <3> QED BY <3>2, <3>3, <1>2, <1>4, <1>5
  <2> QED BY <2>1, <2>2
<1> QED BY <1>4, <1>6, <1>7

\* The next block of the old chain becomes an alternative, or does not.
LEMMA PushInv == Inv /\ push_disconnected => Inv'
<1> SUFFICES ASSUME Inv, push_disconnected PROVE Inv'
  OBVIOUS
<1> DEFINE b == disconnected_chain[1]
<1>1. /\ phase = "push" /\ ~Idle /\ DbOK /\ SavedOK /\ ControlOK /\ SwitchOK /\ BranchOK
      /\ PushOK /\ disconnected_chain # <<>>
  BY DEF Inv, Idle, push_disconnected
<1>2. /\ IF AltAccepted(b) THEN StoreAlternative(b) ELSE UNCHANGED alt_blocks
      /\ trouble' = IF AltAccepted(b) /\ MustSwitch(b) THEN "nested" ELSE trouble
      /\ disconnected_chain' = Tail(disconnected_chain)
      /\ UNCHANGED <<blocks, cumulative_difficulty, pool, kept, partial, m_invalid_blocks>>
      /\ UNCHANGED <<m_points, transaction, phase, alt_chain, split_height, discard, before>>
  BY DEF push_disconnected
<1>3. /\ b \in Blocks /\ b # Genesis /\ \A i \in 1..Len(blocks) : blocks[i] # b
  BY <1>1, PushFacts
<1>4. /\ LineOK(before) /\ Len(before) \in Nat /\ Len(blocks) \in Nat
      /\ split_height \in 1..Len(before) /\ split_height <= Len(blocks)
      /\ \A i \in 1..split_height : blocks[i] = before[i]
      /\ disconnected_chain \in Seq(Blocks) /\ Len(disconnected_chain) \in Nat
  BY <1>1, SwitchFacts
<1> HIDE DEF b
<1>5. /\ AltsOK(alt_blocks') /\ \A i \in 1..split_height : alt_blocks'[before[i]] = 0
  <2>1. AltsOK(alt_blocks) /\ \A i \in 1..split_height : alt_blocks[before[i]] = 0
    BY <1>1 DEF DbOK, PushOK
  <2>2. CASE AltAccepted(b)
    <3>1. alt_blocks' = [alt_blocks EXCEPT ![b] = AltDifficulty(b)]
      BY <2>2, <1>2 DEF StoreAlternative
    <3>2. AltsOK(alt_blocks')
      BY <2>2, <3>1, <1>1, <1>3, AltFacts
    <3>3. \A i \in 1..split_height : before[i] # b /\ before[i] \in Blocks
      BY <1>3, <1>4, LineFacts
    <3> QED BY <2>1, <3>1, <3>2, <3>3 DEF AltsOK
  <2>3. CASE ~AltAccepted(b)
    BY <2>1, <2>3, <1>2
  <2> QED BY <2>2, <2>3
<1>6. /\ disconnected_chain' \in Seq(Blocks)
      /\ Len(disconnected_chain') = Len(disconnected_chain) - 1
      /\ \A i \in 1..Len(disconnected_chain') :
           disconnected_chain'[i] = disconnected_chain[i + 1]
  BY <1>1, <1>2, <1>4
<1>7. DbOK'
  BY <1>1, <1>2, <1>5 DEF DbOK, Idle
<1>8. SavedOK'
  BY <1>1, <1>2 DEF SavedOK, transaction
<1>9. ControlOK'
  BY <1>1, <1>2 DEF ControlOK, transaction
<1>10. SwitchOK'
  BY <1>1, <1>2, <1>6 DEF SwitchOK, DbHeight, Idle
<1>11. BranchOK'
  BY <1>1, <1>2 DEF BranchOK, DbHeight
<1>12. PushOK'
  <2>1. ASSUME NEW i \in 1..Len(disconnected_chain')
        PROVE  \E j \in (split_height + 1)..Len(before) : disconnected_chain'[i] = before[j]
    <3>1. i + 1 \in 1..Len(disconnected_chain)
      BY <1>4, <1>6
    <3> QED BY <3>1, <1>1, <1>6 DEF PushOK
  <2> QED BY <2>1, <1>2, <1>5 DEF PushOK
<1>13. IdleOK' /\ OldOK' /\ RestoreOK'
  BY <1>1, <1>2 DEF IdleOK, OldOK, RestoreOK, Idle
<1> QED BY <1>7, <1>8, <1>9, <1>10, <1>11, <1>12, <1>13 DEF Inv

\* The switch is over, and no alternative block is on the main chain.
LEMMA EndInv == Inv /\ end_switch => Inv'
<1> SUFFICES ASSUME Inv, end_switch PROVE Inv'
  OBVIOUS
<1>1. /\ ~Idle /\ DbOK /\ SavedOK /\ ControlOK /\ OldOK /\ RestoreOK /\ PushOK /\ BranchOK
      /\ phase \in {"push", "restore", "drop"}
  BY DEF Inv, Idle, end_switch
<1>2. /\ alt_blocks' = WithoutBranch /\ phase' = "idle" /\ alt_chain' = <<>>
      /\ disconnected_chain' = <<>> /\ split_height' = 0 /\ discard' = FALSE /\ before' = <<>>
      /\ UNCHANGED <<blocks, cumulative_difficulty, pool, kept, partial, m_invalid_blocks>>
      /\ UNCHANGED <<m_points, transaction, trouble>>
  BY DEF end_switch, NoSwitch
<1>3. /\ LineOK(before) /\ LineOK(blocks) /\ DbHeight = Len(blocks)
      /\ Len(before) \in Nat /\ Len(blocks) \in Nat
      /\ split_height \in 1..Len(before) /\ split_height <= Len(blocks)
      /\ \A i \in 1..split_height : blocks[i] = before[i]
      /\ alt_chain \in Seq(Blocks) /\ Len(alt_chain) \in Nat
  BY <1>1, SwitchFacts
<1>4. AltsOK(alt_blocks) /\ \A i \in 1..Len(blocks) : blocks[i] \in Blocks
  BY <1>1, <1>3, LineFacts DEF DbOK
<1>5. AltsOK(alt_blocks')
  BY <1>2, <1>4 DEF WithoutBranch, AltsOK
<1>6. ASSUME NEW i \in 1..Len(blocks) PROVE alt_blocks'[blocks[i]] = 0
  <2>1. CASE alt_blocks[blocks[i]] = 0 \/ blocks[i] \in ToSet(alt_chain)
    BY <2>1, <1>2, <1>4 DEF WithoutBranch
  <2>2. CASE phase \in {"restore", "drop"}
    <3>1. i \in 1..Len(before) /\ blocks[i] = before[i]
      BY <2>2, <1>1, <1>3 DEF RestoreOK
    <3>2. alt_blocks[before[i]] = 0
      BY <2>2, <3>1, <1>1 DEF OldOK, Apart
    <3> QED BY <2>1, <3>1, <3>2
  <2>3. CASE phase = "push" /\ i <= split_height
    <3>1. i \in 1..split_height
      BY <2>3, <1>3
    <3>2. alt_blocks[blocks[i]] = 0
      BY <2>3, <3>1, <1>1, <1>3 DEF PushOK
    <3> QED BY <2>1, <3>2
  <2>4. CASE phase = "push" /\ ~(i <= split_height)
    <3>1. /\ Len(blocks) = split_height + Len(alt_chain)
          /\ \A m \in 1..(Len(blocks) - split_height) : blocks[split_height + m] = alt_chain[m]
      BY <2>4, <1>1, <1>3 DEF BranchOK
    <3>2. i - split_height \in 1..Len(alt_chain) /\ split_height + (i - split_height) = i
          /\ i - split_height \in 1..(Len(blocks) - split_height)
      BY <3>1, <2>4, <1>3
    <3>3. blocks[i] = alt_chain[i - split_height]
      BY <3>1, <3>2
    <3>4. blocks[i] \in ToSet(alt_chain)
      BY <3>2, <3>3, <1>3 DEF ToSet
    <3> QED BY <2>1, <3>4
  <2> QED BY <2>2, <2>3, <2>4, <1>1
<1>7. DbOK'
  BY <1>1, <1>2, <1>5, <1>6 DEF DbOK, Apart
<1>8. SavedOK' /\ ControlOK' /\ IdleOK'
  BY <1>1, <1>2 DEF SavedOK, ControlOK, IdleOK, transaction
<1>9. SwitchOK' /\ BranchOK' /\ OldOK' /\ RestoreOK' /\ PushOK'
  BY <1>2 DEF SwitchOK, BranchOK, OldOK, RestoreOK, PushOK, Idle
<1> QED BY <1>7, <1>8, <1>9 DEF Inv

\* Nothing happens.
LEMMA StutterInv == Inv /\ UNCHANGED vars => Inv'
<1> SUFFICES ASSUME Inv, UNCHANGED vars PROVE Inv'
  OBVIOUS
<1>1. DbOK' /\ SavedOK' /\ ControlOK' /\ IdleOK'
  BY DEF Inv, vars, DbOK, SavedOK, ControlOK, IdleOK, Idle
<1>2. SwitchOK' /\ BranchOK' /\ OldOK' /\ RestoreOK' /\ PushOK'
  BY DEF Inv, vars, SwitchOK, BranchOK, OldOK, RestoreOK, PushOK, Idle, DbHeight
<1> QED BY <1>1, <1>2 DEF Inv

\* Every step preserves the invariant.
LEMMA NextInv == Inv /\ [Next]_vars => Inv'
<1> SUFFICES ASSUME Inv, [Next]_vars PROVE Inv'
  OBVIOUS
<1>1. CASE \E b \in Blocks \ {Genesis} : add_new_block(b)
  BY <1>1, HandleInv, StoreInv, StartInv DEF add_new_block
<1>2. CASE SwitchStep
  BY <1>2, ConnectAlternativeInv, RollbackInv, RestoreInv, PushInv, EndInv DEF SwitchStep
<1>3. CASE \E t \in Txs : pool_add(t) \/ pool_remove(t)
  BY <1>3, PoolInv
<1>4. CASE \E nblocks \in 1..DbHeight, keep_txs \in BOOLEAN : pop_blocks(nblocks, keep_txs)
  BY <1>4, PopInv
<1>5. CASE \E pts \in SUBSET Points : update_checkpoints(pts)
  BY <1>5, UpdateInv
<1>6. CASE \E keep_alt_blocks \in BOOLEAN : restart(keep_alt_blocks)
  BY <1>6, RestartInv
<1>7. CASE prepare_handle_incoming_blocks \/ cleanup_handle_incoming_blocks
             \/ flush_invalid_blocks \/ UNCHANGED vars
  BY <1>7, PrepareInv, CleanupInv, FlushInv, StutterInv
<1> QED BY <1>1, <1>2, <1>3, <1>4, <1>5, <1>6, <1>7 DEF Next

\* The invariant holds in every state of every behaviour.
LEMMA AlwaysInv == Spec => []Inv
<1>1. Init => Inv
  BY InitInv
<1>2. Inv /\ [Next]_vars => Inv'
  BY NextInv
<1> QED BY <1>1, <1>2, PTL DEF Spec

-----------------------------------------------------------------------------
(* What the invariant says *)

\* Every variable has a value of its type: reorganizations, batches, checkpoints
\* and restarts leave no chain empty and no difficulty unrecorded.
THEOREM TypeCorrect == Spec => []TypeOK
<1>1. Inv => TypeOK
  <2> SUFFICES ASSUME Inv PROVE TypeOK
    OBVIOUS
  <2>1. DbOK /\ ControlOK
    BY DEF Inv
  <2>2. /\ alt_chain \in Seq(Blocks) /\ disconnected_chain \in Seq(Blocks)
        /\ split_height \in Nat /\ before \in Seq(Blocks)
    <3>1. CASE Idle
      BY <3>1 DEF Inv, IdleOK
    <3>2. CASE ~Idle
      BY <3>2, SwitchFacts
    <3> QED BY <3>1, <3>2
  <2> QED BY <2>1, <2>2
          DEF DbOK, ControlOK, LineOK, SumsOK, AltsOK, PoolOK, TypeOK, DbHeight
<1> QED BY <1>1, AlwaysInv, PTL

\* At every moment the main chain is an unbroken line of valid blocks, no
\* transaction is in it twice or in the pool as well, the recorded difficulties
\* are the work of the ancestry, and outside of a switch no block of the main
\* chain is an alternative one: for every tree of blocks, with failing switches,
\* pops, checkpoints, aborted batches and restarts.
THEOREM ChainIsSound == Spec => []ChainSound
<1>1. Inv => ChainSound
  <2> SUFFICES ASSUME Inv PROVE ChainSound
    OBVIOUS
  <2>1. DbOK
    BY DEF Inv
  <2>2. \A i \in 1..DbHeight : Flaw[blocks[i]] = "none"
                               /\ cumulative_difficulty[i] = Work[blocks[i]]
    BY <2>1 DEF DbOK, LineOK, SumsOK, DbHeight
  <2>3. AltApart
    BY <2>1 DEF DbOK, AltApart, InMain, InAlt, Apart, DbHeight
  <2>4. /\ blocks = Line[Tip] /\ pool \cap TxsIn(blocks) = {}
        /\ \A b \in Blocks : InAlt(b) => alt_blocks[b] = Work[b]
    BY <2>1 DEF DbOK, LineOK, PoolOK, AltsOK, InAlt, Tip, DbHeight
  <2>5. \A i, j \in 1..DbHeight :
          i # j => ToSet(TxsOf[blocks[i]]) \cap ToSet(TxsOf[blocks[j]]) = {}
    BY <2>1 DEF DbOK, LineOK, DbHeight
  <2> QED BY <2>2, <2>3, <2>4, <2>5 DEF ChainSound
<1> QED BY <1>1, AlwaysInv, PTL

\* A switch, successful or not, costs no transaction of the chain as it was
\* before it: each is in the chain again or kept in the pool.
THEOREM SwitchKeepsTxs == Spec => NoTxLost
<1>1. Inv /\ [Next]_vars =>
        [end_switch => TxsIn(before) \subseteq TxsIn(blocks') \cup pool']_vars
  <2> SUFFICES ASSUME Inv, end_switch
               PROVE  TxsIn(before) \subseteq TxsIn(blocks') \cup pool'
    OBVIOUS
  <2>1. ~Idle /\ DbOK
    BY DEF Inv, end_switch, Idle
  <2>2. TxsIn(before) \subseteq TxsIn(blocks) \cup kept
    BY <2>1, SwitchFacts
  <2>3. kept \subseteq pool
    BY <2>1 DEF DbOK, PoolOK
  <2> QED BY <2>2, <2>3 DEF end_switch
<1> QED BY <1>1, AlwaysInv, PTL DEF Spec, NoTxLost

-----------------------------------------------------------------------------
(* Checkpoints, and switches that are undone *)

\* No checkpoint at height 1: the height that the chain is rolled back to for it,
\* pt.first - 2, wraps around and nothing is popped.
PointsAbove == \A p \in Points : p.height # 1

NewTip == alt_chain[Len(alt_chain)]
OldTip == before[Len(before)]

\* A chain contradicts none of some checkpoints.
Agrees(points, c) == \A p \in points : p.height < Len(c) => c[p.height + 1] = p.id

\* A switch goes to more work unless it is for a checkpoint, and past every
\* checkpoint that the old chain had reached.
AimOK ==
  ~Idle => /\ Agrees(m_points, before)
           /\ \A p \in m_points : p.height <= Len(before) => p.height < Height(NewTip)
           /\ ~discard => Work[OldTip] < Work[NewTip]

\* The chains that agree with the checkpoints in force.
PointsOK ==
  Agrees(m_points, blocks) /\ (batch = "blocks" => Agrees(m_points, saved[1])) /\ AimOK

\* An old chain that cannot be put back will be with the whole batch.
PanicOK == NoPanic /\ (phase = "drop" => ~m_batch_success)

\* The beginning of a chain agrees if the chain does.
LEMMA AgreesPrefix ==
  ASSUME NEW points \in SUBSET Points, NEW c, NEW s, Agrees(points, c),
         Len(c) \in Nat, Len(s) \in 0..Len(c), \A i \in 1..Len(s) : s[i] = c[i]
  PROVE  Agrees(points, s)
<1>1. SUFFICES ASSUME NEW p \in points, p.height < Len(s) PROVE s[p.height + 1] = p.id
  BY DEF Agrees
<1>2. p.height \in Nat
  BY PointAssumption
<1>3. p.height < Len(c) /\ p.height + 1 \in 1..Len(s)
  BY <1>1, <1>2
<1> QED BY <1>3 DEF Agrees

\* A chain agrees with one more block that passes check_block.
LEMMA AgreesAppend ==
  ASSUME NEW points \in SUBSET Points, NEW c, NEW s, NEW b, Agrees(points, c),
         Len(c) \in Nat, Len(s) = Len(c) + 1, \A i \in 1..Len(c) : s[i] = c[i],
         s[Len(c) + 1] = b, \A p \in points : p.height = Len(c) => p.id = b
  PROVE  Agrees(points, s)
<1>1. SUFFICES ASSUME NEW p \in points, p.height < Len(s) PROVE s[p.height + 1] = p.id
  BY DEF Agrees
<1>2. p.height \in Nat
  BY PointAssumption
<1>3. CASE p.height = Len(c)
  BY <1>3
<1>4. CASE p.height # Len(c)
  <2>1. p.height < Len(c) /\ p.height + 1 \in 1..Len(c)
    BY <1>1, <1>2, <1>4
  <2> QED BY <2>1 DEF Agrees
<1> QED BY <1>3, <1>4

\* Connecting a block keeps the chain in agreement.
LEMMA AgreesConnect ==
  ASSUME DbOK, ControlOK, Agrees(m_points, blocks), NEW b \in Blocks, b # Genesis, NEW extra,
         Connects(b, extra), Connect(b)
  PROVE  Agrees(m_points, blocks')
<1>1. /\ check_block(Len(blocks), b) /\ Len(blocks') = Len(blocks) + 1
      /\ blocks'[Len(blocks) + 1] = b /\ \A i \in 1..Len(blocks) : blocks'[i] = blocks[i]
  BY ConnectFacts DEF DbHeight
<1>2. m_points \in SUBSET Points /\ Len(blocks) \in Nat
  BY LineFacts DEF DbOK, ControlOK
<1>3. \A p \in m_points : p.height = Len(blocks) => p.id = b
  BY <1>1 DEF check_block
<1> QED BY <1>1, <1>2, <1>3, AgreesAppend

\* Popping keeps the chain in agreement.
LEMMA AgreesPop ==
  ASSUME DbOK, NEW points \in SUBSET Points, Agrees(points, blocks), NEW h \in 1..Len(blocks),
         NEW S, PoppedTo(h, S)
  PROVE  Agrees(points, blocks')
<1>1. LineOK(blocks) /\ blocks' = SubSeq(blocks, 1, h) /\ Len(blocks) \in Nat
  BY LineFacts DEF DbOK, PoppedTo
<1>2. Len(blocks') = h /\ \A i \in 1..h : blocks'[i] = blocks[i]
  BY <1>1, PopLine
<1>3. Len(blocks') \in 0..Len(blocks) /\ \A i \in 1..Len(blocks') : blocks'[i] = blocks[i]
  BY <1>1, <1>2
<1> QED BY <1>1, <1>3, AgreesPrefix

\* Initially and in every step, the main chain agrees with the checkpoints.
LEMMA InitPoints == Init => PointsOK /\ PanicOK
  BY DEF Init, PointsOK, PanicOK, Agrees, AimOK, NoPanic, Idle

\* Nothing the checkpoints are compared with has changed.
LEMMA SamePoints ==
  ASSUME PointsOK,
         UNCHANGED <<blocks, m_points, batch, saved, phase, alt_chain, discard, before>>
  PROVE  PointsOK'
  BY DEF PointsOK, AimOK, Agrees, Idle, NewTip, OldTip

\* Steps that do not change the switch, and those that are not in one.
LEMMA SameAim ==
  ASSUME AimOK, UNCHANGED <<m_points, phase, alt_chain, discard, before>> \/ phase' = "idle"
  PROVE  AimOK'
  BY DEF AimOK, Agrees, Idle, NewTip, OldTip

\* The checkpoints that a rollback enforces.
LEMMA UpdatePoints ==
  ASSUME PointsAbove, Inv, PointsOK, NEW pts \in SUBSET Points, update_checkpoints(pts)
  PROVE  PointsOK'
<1>1. batch = "none" /\ Idle /\ DbOK /\ ControlOK /\ m_points \in SUBSET Points
  BY DEF Inv, ControlOK, Idle, update_checkpoints
<1> DEFINE points == m_points \cup pts
           failing == {p \in points : p.height < DbHeight /\ blocks[p.height + 1] # p.id}
           effective == {p.height : p \in {q \in failing :
                                             RollbackHeight(q.height) <= DbHeight}}
           first == Min(effective)
           target == RollbackHeight(first)
           height == IF target = 0 THEN 1 ELSE target
<1>2. /\ m_points' = points /\ phase' = phase
      /\ effective = {} => UNCHANGED <<db, batch, saved>>
      /\ effective # {} => PoppedTo(height, TxsAbove(height)) /\ batch' \in {"left", "none"}
  BY DEF update_checkpoints, switch
<1>3. \A p \in points : p.height \in Nat /\ p.height > 1
  <2>1. \A p \in points : p \in Points /\ p.height \in Nat \ {0}
    BY <1>1, PointAssumption
  <2> QED BY <2>1 DEF PointsAbove
<1>4. DbHeight = Len(blocks) /\ Len(blocks) \in Nat \ {0} /\ Len(blocks) + 1 < HeightLimit
      /\ HeightLimit \in Nat
  <2>1. LineOK(blocks) /\ DbHeight = Len(blocks)
    BY <1>1 DEF DbOK, DbHeight
  <2>2. /\ Len(blocks) \in Nat \ {0} /\ blocks[Len(blocks)] \in Blocks
        /\ Height(blocks[Len(blocks)]) = Len(blocks) - 1
    BY <2>1, LineFacts
  <2>3. Height(blocks[Len(blocks)]) + 2 < HeightLimit /\ HeightLimit \in Nat
    BY <2>2, PointAssumption
  <2> QED BY <2>1, <2>2, <2>3
<1>5. \A p \in failing : RollbackHeight(p.height) = p.height - 2 /\ p.height \in effective
  <2>1. SUFFICES ASSUME NEW p \in failing
                 PROVE  RollbackHeight(p.height) = p.height - 2 /\ p.height \in effective
    OBVIOUS
  <2>2. p.height \in Nat /\ p.height > 1 /\ p.height < Len(blocks)
    BY <1>3, <1>4
  <2>3. RollbackHeight(p.height) = p.height - 2
    BY <2>2, <1>4, SMTT(30) DEF RollbackHeight
  <2>4. RollbackHeight(p.height) <= DbHeight
    BY <2>2, <2>3, <1>4
  <2> QED BY <2>3, <2>4
<1>6. AimOK'
  BY <1>1, <1>2 DEF AimOK, Idle
<1>7. CASE effective = {}
  <2>1. failing = {}
    BY <1>5, <1>7
  <2>2. Agrees(points, blocks)
    BY <2>1 DEF Agrees, DbHeight
  <2>3. m_points' = points /\ blocks' = blocks /\ batch' = "none"
    BY <1>1, <1>2, <1>7 DEF db
  <2> HIDE DEF points
  <2> QED BY <2>2, <2>3, <1>6 DEF PointsOK
<1>8. CASE effective # {}
  <2>1. effective \in SUBSET Nat
    BY <1>3
  <2>2. first \in effective /\ \A y \in effective : first <= y
    <3> HIDE DEF effective
    <3> QED BY <2>1, <1>8, MinNat
  <2>3. PICK q \in failing : q.height = first /\ RollbackHeight(q.height) <= DbHeight
    BY <2>2
  <2>4. q.height \in Nat /\ q.height > 1 /\ q.height < Len(blocks)
    BY <2>3, <1>3, <1>4
  <2>5. target = q.height - 2
    BY <2>3, <1>5
  <2>6. height \in 1..Len(blocks) /\ height < q.height /\ height \in Nat
    BY <2>4, <2>5
  <2>7. Len(blocks') = height /\ \A i \in 1..height : blocks'[i] = blocks[i]
    <3>1. LineOK(blocks) /\ blocks' = SubSeq(blocks, 1, height)
      BY <1>1, <1>2, <1>8 DEF DbOK, PoppedTo
    <3> HIDE DEF height
    <3> QED BY <3>1, <2>6, PopLine
  <2>8. Agrees(points, blocks')
    <3>1. SUFFICES ASSUME NEW p \in points, p.height < Len(blocks')
                   PROVE  blocks'[p.height + 1] = p.id
      BY DEF Agrees
    <3>2. p.height \in Nat /\ p.height + 1 \in 1..height /\ p.height < first
      <4>1. p.height \in Nat /\ p.height < height
        BY <3>1, <2>7, <1>3
      <4> HIDE DEF height, first
      <4> QED BY <4>1, <2>3, <2>4, <2>6
    <3>3. p \notin failing
      <4>1. SUFFICES ASSUME p \in failing PROVE FALSE
        OBVIOUS
      <4>2. first <= p.height /\ first \in Nat
        BY <4>1, <2>1, <2>2, <1>5
      <4> HIDE DEF first
      <4> QED BY <4>2, <3>2
    <3>4. p.height < DbHeight
      BY <3>2, <2>6, <1>4
    <3> QED BY <3>2, <3>3, <3>4, <2>7
  <2>9. m_points' = points /\ batch' # "blocks"
    BY <1>2, <1>8
  <2> HIDE DEF points
  <2> QED BY <2>8, <2>9, <1>6 DEF PointsOK
<1> QED BY <1>7, <1>8

\* A switch begins with a block that goes past the checkpoints.
LEMMA StartPoints ==
  ASSUME Inv, PointsOK, NEW b \in Blocks, b # Genesis, NEW extra, start_switch(b, extra)
  PROVE  PointsOK'
<1> DEFINE chain == Append(AltBranch(b), b)
           split == Height(chain[1])
<1>1. /\ Idle /\ batch = "blocks" /\ DbOK /\ ControlOK /\ m_points \in SUBSET Points
      /\ ~InMain(b) /\ AltAccepted(b) /\ MustSwitch(b)
      /\ is_alternative_block_allowed(Len(blocks), Height(b))
  BY DEF Inv, ControlOK, start_switch, Arrives, have_block, AltAccepted, DbHeight
<1>2. /\ PoppedTo(split, Supplement(extra) \cup TxsAbove(split)) /\ alt_chain' = chain
      /\ discard' = IsCheckpoint(Height(b)) /\ before' = blocks /\ phase' = "connect"
      /\ UNCHANGED <<m_points, batch, saved>>
  BY DEF start_switch, transaction
<1>3. Len(chain) \in Nat \ {0} /\ chain[Len(chain)] = b /\ split \in 1..Len(blocks)
  BY <1>1, SplitFacts
<1> HIDE DEF chain, split
<1>4. Agrees(m_points, blocks) /\ Agrees(m_points, saved[1])
  BY <1>1 DEF PointsOK
<1>5. Agrees(m_points, blocks')
  BY <1>1, <1>2, <1>3, <1>4, AgreesPop
<1>6. NewTip' = b /\ OldTip' = blocks[Len(blocks)]
  BY <1>2, <1>3 DEF NewTip, OldTip
<1>7. \A p \in m_points : p.height <= Len(blocks) => p.height < Height(b)
  BY <1>1 DEF is_alternative_block_allowed
<1>8. ~discard' => Work[blocks[Len(blocks)]] < Work[b]
  <2>1. SUFFICES ASSUME ~discard' PROVE Work[blocks[Len(blocks)]] < Work[b]
    OBVIOUS
  <2>2. cumulative_difficulty[Len(blocks)] < AltDifficulty(b)
    BY <2>1, <1>1, <1>2 DEF MustSwitch, DbHeight
  <2>3. AltDifficulty(b) = Work[b]
    BY <1>1, AltFacts
  <2>4. Len(blocks) \in 1..Len(blocks)
    BY <1>1, LineFacts DEF DbOK
  <2>5. cumulative_difficulty[Len(blocks)] = Work[blocks[Len(blocks)]]
    BY <2>4, <1>1 DEF DbOK, SumsOK
  <2> QED BY <2>2, <2>3, <2>5
<1>9. Agrees(m_points', before') /\ Agrees(m_points', blocks') /\ Agrees(m_points', saved'[1])
  BY <1>2, <1>4, <1>5
<1>10. AimOK'
  BY <1>2, <1>6, <1>7, <1>8, <1>9 DEF AimOK
<1> QED BY <1>9, <1>10 DEF PointsOK

\* The steps that connect a block, or refuse it.
LEMMA ConnectPoints ==
  ASSUME Inv, PointsOK, NEW b \in Blocks, b # Genesis, NEW extra,
         IF Connects(b, extra) THEN Connect(b) ELSE Refuse(b, extra), UNCHANGED m_points
  PROVE  Agrees(m_points', blocks')
<1>1. DbOK /\ ControlOK /\ Agrees(m_points, blocks)
  BY DEF Inv, PointsOK
<1>2. CASE Connects(b, extra)
  BY <1>1, <1>2, AgreesConnect
<1>3. CASE ~Connects(b, extra)
  BY <1>1, <1>3 DEF Refuse
<1> QED BY <1>2, <1>3

\* The branch that is removed after a failure still ends with the block that
\* made it the best.
LEMMA ConnectAlternativePoints ==
  ASSUME Inv, PointsOK, connect_alternative
  PROVE  PointsOK' /\ NewTip' = NewTip
<1> DEFINE k == Len(blocks) - split_height + 1
           b == alt_chain[k]
<1>1. phase = "connect" /\ ~Idle /\ BranchOK
  BY DEF Inv, Idle, connect_alternative
<1>2. /\ DbHeight = Len(blocks) /\ Len(blocks) \in Nat \ {0} /\ split_height \in Nat
      /\ split_height <= Len(blocks)
      /\ alt_chain \in Seq(Blocks) /\ Len(alt_chain) \in Nat \ {0}
      /\ \A i \in 1..Len(alt_chain) : alt_chain[i] \in Blocks /\ alt_chain[i] # Genesis
  BY <1>1, SwitchFacts
<1>3. k \in 1..Len(alt_chain) /\ b \in Blocks /\ b # Genesis
  <2>1. Len(blocks) < split_height + Len(alt_chain)
    BY <1>1, <1>2 DEF BranchOK
  <2> QED BY <2>1, <1>2
<1>4. /\ IF Connects(b, {}) THEN Connect(b) ELSE Refuse(b, {})
      /\ alt_chain' = alt_chain \/ alt_chain' = SubSeq(alt_chain, k, Len(alt_chain))
      /\ phase' \in {"connect", "push", "rollback"}
      /\ UNCHANGED <<m_points, batch, saved, discard, before>>
  BY DEF connect_alternative, ToRemove, DbHeight
<1> HIDE DEF b
<1>5. Agrees(m_points', blocks')
  BY <1>3, <1>4, ConnectPoints
<1>6. NewTip' = NewTip
  <2>1. CASE alt_chain' = alt_chain
    BY <2>1 DEF NewTip
  <2>2. CASE alt_chain' = SubSeq(alt_chain, k, Len(alt_chain))
    <3>1. Len(alt_chain') = Len(alt_chain) - k + 1
          /\ \A i \in 1..Len(alt_chain') : alt_chain'[i] = alt_chain[k + i - 1]
      BY <2>2, <1>2, <1>3
    <3>2. Len(alt_chain') \in 1..Len(alt_chain') /\ k + Len(alt_chain') - 1 = Len(alt_chain)
      BY <3>1, <1>2, <1>3
    <3> QED BY <3>1, <3>2 DEF NewTip
  <2> QED BY <2>1, <2>2, <1>4
<1>7. AimOK'
  <2>1. ~Idle' /\ OldTip' = OldTip
    BY <1>4 DEF OldTip, Idle
  <2>2. AimOK
    BY DEF PointsOK
  <2> QED BY <2>1, <2>2, <1>1, <1>4, <1>6 DEF AimOK, Agrees
<1>8. batch' = "blocks" => Agrees(m_points', saved'[1])
  BY <1>4 DEF PointsOK, Agrees
<1> QED BY <1>5, <1>6, <1>7, <1>8 DEF PointsOK

\* Every step keeps the chains in agreement with the checkpoints.
LEMMA NextPoints ==
  ASSUME PointsAbove, Inv, PointsOK, [Next]_vars
  PROVE  PointsOK'
<1>1. DbOK /\ ControlOK /\ AimOK /\ Agrees(m_points, blocks) /\ m_points \in SUBSET Points
  BY DEF Inv, PointsOK, ControlOK
<1>2. CASE prepare_handle_incoming_blocks
  <2>1. /\ UNCHANGED <<blocks, m_points, phase, alt_chain, discard, before>>
        /\ saved' = <<blocks, cumulative_difficulty, alt_blocks, pool, kept, partial>>
    BY <1>2 DEF prepare_handle_incoming_blocks, db, switch
  <2>2. saved'[1] = blocks
    BY <2>1
  <2>3. AimOK'
    BY <2>1, <1>1, SameAim
  <2> QED BY <2>1, <2>2, <2>3, <1>1 DEF PointsOK
<1>3. CASE cleanup_handle_incoming_blocks
  <2>1. /\ blocks' = blocks \/ blocks' = saved[1]
        /\ m_points' = m_points /\ batch' = "none" /\ batch = "blocks" /\ phase' = "idle"
    BY <1>3 DEF cleanup_handle_incoming_blocks, RestoreDb, db, Idle
  <2>2. AimOK'
    BY <2>1, <1>1, SameAim
  <2> QED BY <2>1, <2>2, <1>1 DEF PointsOK
<1>4. ASSUME NEW b \in Blocks \ {Genesis}, NEW extra, handle_block_to_main_chain(b, extra)
      PROVE  PointsOK'
  <2>1. /\ IF Connects(b, extra) THEN Connect(b) ELSE Refuse(b, extra)
        /\ UNCHANGED <<m_points, batch, saved, phase, alt_chain, discard, before>>
    BY <1>4 DEF handle_block_to_main_chain, switch
  <2>2. Agrees(m_points', blocks')
    BY <2>1, ConnectPoints
  <2>3. AimOK'
    BY <2>1, <1>1, SameAim
  <2> QED BY <2>1, <2>2, <2>3 DEF PointsOK
<1>5. ASSUME NEW b \in Blocks \ {Genesis}, NEW extra, store_alternative(b, extra)
      PROVE  PointsOK'
  BY <1>5, SamePoints DEF store_alternative, transaction, switch
<1>6. CASE \E b \in Blocks \ {Genesis} : add_new_block(b)
  BY <1>4, <1>5, <1>6, StartPoints DEF add_new_block
<1>7. CASE connect_alternative
  BY <1>7, ConnectAlternativePoints
<1>8. CASE rollback_blockchain_switching
  <2>1. /\ PoppedTo(split_height, TxsAbove(split_height))
        /\ UNCHANGED <<m_points, batch, saved, alt_chain, discard, before>>
        /\ phase' = "restore" /\ ~Idle
    BY <1>8 DEF rollback_blockchain_switching, transaction, Idle
  <2>2. split_height \in 1..Len(blocks)
    BY <2>1, SwitchFacts
  <2>3. Agrees(m_points, blocks')
    BY <2>1, <2>2, <1>1, AgreesPop
  <2>4. AimOK'
    BY <2>1, <1>1 DEF AimOK, Agrees, Idle, NewTip, OldTip
  <2> QED BY <2>1, <2>3, <2>4 DEF PointsOK
<1>9. CASE restore_original
  <2> DEFINE b == disconnected_chain[DbHeight - split_height + 1]
  <2>1. /\ IF Connects(b, {}) THEN Connect(b) ELSE Refuse(b, {})
        /\ UNCHANGED <<m_points, batch, saved, alt_chain, discard, before>>
        /\ phase = "restore" /\ phase' \in {"restore", "drop"}
        /\ DbHeight - split_height + 1 <= Len(disconnected_chain)
    BY <1>9 DEF restore_original
  <2>2. b \in Blocks /\ b # Genesis
    BY <2>1, RestoreFacts
  <2> HIDE DEF b
  <2>3. Agrees(m_points', blocks')
    BY <2>1, <2>2, ConnectPoints
  <2>4. AimOK'
    BY <2>1, <1>1 DEF AimOK, Agrees, Idle, NewTip, OldTip
  <2> QED BY <2>1, <2>3, <2>4 DEF PointsOK
<1>10. CASE push_disconnected
  BY <1>10, SamePoints DEF push_disconnected, transaction
<1>11. CASE end_switch
  <2>1. UNCHANGED <<blocks, m_points, batch, saved>> /\ phase' = "idle"
    BY <1>11 DEF end_switch, NoSwitch, transaction
  <2>2. AimOK'
    BY <2>1, <1>1, SameAim
  <2> QED BY <2>1, <2>2, <1>1 DEF PointsOK
<1>12. CASE \E t \in Txs : pool_add(t) \/ pool_remove(t)
  BY <1>12, SamePoints DEF pool_add, pool_remove, transaction, switch
<1>13. ASSUME NEW nblocks \in 1..DbHeight, NEW keep_txs, pop_blocks(nblocks, keep_txs)
       PROVE  PointsOK'
  <2>1. /\ PoppedTo(DbHeight - nblocks, IF keep_txs THEN TxsAbove(DbHeight - nblocks) ELSE {})
        /\ UNCHANGED <<m_points, batch, saved, phase, alt_chain, discard, before>>
        /\ nblocks < DbHeight /\ batch = "none"
    BY <1>13 DEF pop_blocks, transaction, switch
  <2>2. DbHeight - nblocks \in 1..Len(blocks)
    BY <2>1, <1>1, LineFacts DEF DbOK, DbHeight
  <2>3. Agrees(m_points, blocks')
    BY <2>1, <2>2, <1>1, AgreesPop
  <2>4. AimOK'
    BY <2>1, <1>1, SameAim
  <2> QED BY <2>1, <2>3, <2>4 DEF PointsOK
<1>14. CASE flush_invalid_blocks
  BY <1>14, SamePoints DEF flush_invalid_blocks, db, transaction, switch
<1>15. CASE \E pts \in SUBSET Points : update_checkpoints(pts)
  BY <1>15, UpdatePoints
<1>16. CASE \E keep_alt_blocks \in BOOLEAN : restart(keep_alt_blocks)
  BY <1>16 DEF restart, NoSwitch, PointsOK, AimOK, Agrees, Idle
<1>17. CASE UNCHANGED vars
  BY <1>17, SamePoints DEF vars
<1> QED BY <1>2, <1>3, <1>6, <1>7, <1>8, <1>9, <1>10, <1>11, <1>12, <1>13, <1>14, <1>15, <1>16,
           <1>17 DEF Next, SwitchStep

\* The old chain can be put back, unless an exception has made the batch fail:
\* its transactions are kept in the pool, and it passed the checkpoints before.
LEMMA RestoreConnects ==
  ASSUME Inv, PointsOK, m_batch_success, phase = "restore",
         DbHeight - split_height + 1 <= Len(disconnected_chain),
         NEW b, b = disconnected_chain[DbHeight - split_height + 1]
  PROVE  Connects(b, {})
<1>1. ~Idle /\ RestoreOK /\ DbOK /\ ControlOK /\ AimOK
  BY DEF Inv, PointsOK, Idle
<1>2. /\ Len(blocks) + 1 \in 1..Len(before) /\ b = before[Len(blocks) + 1]
      /\ b \in Blocks /\ b # Genesis /\ Parent(b) = Tip
  BY RestoreFacts
<1>3. /\ LineOK(before) /\ before \in Seq(Blocks) /\ Len(before) \in Nat \ {0}
      /\ DbHeight = Len(blocks) /\ Len(blocks) \in Nat \ {0}
      /\ TxsIn(before) \subseteq TxsIn(blocks) \cup kept
  BY <1>1, SwitchFacts
<1>4. Flaw[b] = "none"
  BY <1>2, <1>3 DEF LineOK
<1>5. check_block(DbHeight, b)
  <2>1. SUFFICES ASSUME NEW p \in m_points, p.height = Len(blocks) PROVE p.id = b
    BY <1>3 DEF check_block
  <2>2. p.height < Len(before)
    BY <2>1, <1>2, <1>3
  <2>3. before[p.height + 1] = p.id
    BY <2>2, <1>1 DEF AimOK, Agrees
  <2> QED BY <2>1, <2>3, <1>2
<1>6. AllFound(b, {})
  <2>1. SUFFICES ASSUME NEW k \in 1..Len(TxsOf[b])
                 PROVE  ~tx_exists(TxsOf[b][k]) /\ TxsOf[b][k] \in pool
    BY <1>2, StopsFacts
  <2>2. TxsOf[b][k] \in ToSet(TxsOf[b])
    BY <1>2, TxsOfType DEF ToSet
  <2>3. TxsOf[b][k] \notin TxsIn(blocks)
    <3>1. SUFFICES ASSUME TxsOf[b][k] \in TxsIn(blocks) PROVE FALSE
      OBVIOUS
    <3>2. PICK i \in 1..Len(blocks) : TxsOf[b][k] \in ToSet(TxsOf[blocks[i]])
      BY <3>1, TxsInOf
    <3>3. blocks[i] = before[i] /\ i \in 1..Len(before) /\ i # Len(blocks) + 1
      BY <1>1, <1>2, <1>3 DEF RestoreOK
    <3>4. ToSet(TxsOf[before[i]]) \cap ToSet(TxsOf[before[Len(blocks) + 1]]) = {}
      BY <3>3, <1>2, <1>3 DEF LineOK
    <3> QED BY <3>2, <3>3, <3>4, <2>2, <1>2
  <2>4. TxsOf[b][k] \in TxsIn(before)
    BY <2>2, <1>2, TxsInOf
  <2>5. partial = {} /\ kept \subseteq pool
    BY <1>1 DEF ControlOK, DbOK, PoolOK
  <2> QED BY <2>3, <2>4, <2>5, <1>3 DEF tx_exists
<1> QED BY <1>2, <1>4, <1>5, <1>6 DEF Connects, RefusedEarly

\* When the branch is connected, its last block is the tip.
LEMMA PushTip ==
  ASSUME Inv, phase = "push"
  PROVE  NewTip = blocks[Len(blocks)]
<1>1. ~Idle /\ BranchOK
  BY DEF Inv, Idle
<1>2. /\ DbHeight = Len(blocks) /\ Len(blocks) \in Nat \ {0} /\ split_height \in Nat
      /\ Len(alt_chain) \in Nat \ {0}
  BY <1>1, SwitchFacts
<1>3. /\ Len(blocks) = split_height + Len(alt_chain)
      /\ \A m \in 1..(Len(blocks) - split_height) : blocks[split_height + m] = alt_chain[m]
  BY <1>1, <1>2 DEF BranchOK
<1>4. Len(alt_chain) \in 1..(Len(blocks) - split_height)
  BY <1>2, <1>3
<1> QED BY <1>3, <1>4 DEF NewTip

\* Pushing the old chain among the alternatives starts no other switch.
LEMMA PushStays ==
  ASSUME Inv, PointsOK, phase = "push", ~discard, disconnected_chain # <<>>,
         NEW b, b = disconnected_chain[1], AltAccepted(b)
  PROVE  ~MustSwitch(b)
<1>1. ~Idle /\ DbOK /\ AimOK /\ Agrees(m_points, blocks) /\ m_points \subseteq Points
  BY DEF Inv, PointsOK, ControlOK, Idle
<1>2. /\ b \in Blocks /\ b # Genesis /\ \A i \in 1..Len(blocks) : blocks[i] # b
      /\ \E j \in (split_height + 1)..Len(before) : b = before[j]
  BY PushFacts
<1>3. /\ LineOK(before) /\ Len(before) \in Nat \ {0} /\ split_height \in Nat
      /\ LineOK(blocks) /\ DbHeight = Len(blocks) /\ Len(blocks) \in Nat \ {0}
  BY <1>1, SwitchFacts
<1>4. PICK j \in 1..Len(before) : b = before[j]
  <2>1. PICK j \in (split_height + 1)..Len(before) : b = before[j]
    BY <1>2
  <2>2. j \in 1..Len(before)
    BY <1>3
  <2> QED BY <2>1, <2>2
<1>5. Height(b) = j - 1 /\ Work[b] <= Work[OldTip]
  BY <1>3, <1>4, LineFacts DEF OldTip
<1>6. /\ NewTip = blocks[Len(blocks)] /\ NewTip \in Blocks /\ Height(NewTip) = Len(blocks) - 1
  <2>1. NewTip = blocks[Len(blocks)]
    BY PushTip
  <2> QED BY <2>1, <1>3, LineFacts
<1>7. ~IsCheckpoint(Height(b))
  <2>1. SUFFICES ASSUME NEW p \in m_points, p.height = j - 1 PROVE FALSE
    BY <1>5 DEF IsCheckpoint
  <2>2. p.height < Len(before) /\ p.height <= Len(before)
    BY <2>1, <1>3
  <2>3. before[p.height + 1] = p.id
    BY <2>2, <1>1 DEF AimOK, Agrees
  <2>4. p.height < Len(blocks) /\ p.height + 1 \in 1..Len(blocks)
    <3>1. p.height < Len(blocks) - 1
      BY <2>2, <1>1, <1>6 DEF AimOK
    <3> QED BY <3>1, <2>1, <1>3
  <2>5. blocks[p.height + 1] = p.id
    BY <2>4, <1>1 DEF Agrees
  <2>6. p.height + 1 = j
    BY <2>1, <1>4
  <2> QED BY <2>3, <2>4, <2>5, <2>6, <1>2, <1>4
<1>8. ~(cumulative_difficulty[DbHeight] < AltDifficulty(b))
  <2>1. AltDifficulty(b) = Work[b]
    BY <1>1, <1>2, AltFacts
  <2>2. Len(blocks) \in 1..Len(blocks)
    BY <1>3
  <2>3. cumulative_difficulty[DbHeight] = Work[NewTip]
    BY <2>2, <1>1, <1>3, <1>6 DEF DbOK, SumsOK
  <2>4. Work[OldTip] < Work[NewTip]
    BY <1>1 DEF AimOK
  <2>5. OldTip \in Blocks
    BY <1>3, LineFacts DEF OldTip
  <2>6. Work[OldTip] \in Nat /\ Work[NewTip] \in Nat /\ Work[b] \in Nat
    BY <2>5, <1>2, <1>6, TreeAssumption
  <2> QED BY <2>1, <2>3, <2>4, <2>6, <1>5
<1> QED BY <1>7, <1>8 DEF MustSwitch

\* The flags that say a batch will be undone are only reset with the batch.
LEMMA SamePanic ==
  ASSUME PanicOK, trouble' = trouble, m_batch_success' => m_batch_success,
         phase' = phase \/ phase' # "drop"
  PROVE  PanicOK'
  BY DEF PanicOK, NoPanic

\* Every step, in a state where the chains agree with the checkpoints.
LEMMA NextPanic ==
  ASSUME Inv, PointsOK, PanicOK, [Next]_vars
  PROVE  PanicOK'
<1>1. DbOK /\ ControlOK
  BY DEF Inv
<1>2. CASE prepare_handle_incoming_blocks
  <2>1. UNCHANGED <<trouble, phase>> /\ m_batch_success
    BY <1>1, <1>2 DEF prepare_handle_incoming_blocks, ControlOK, switch
  <2> QED BY <2>1, SamePanic
<1>3. CASE cleanup_handle_incoming_blocks
  <2>1. /\ phase' = "idle"
        /\ trouble' = "none" \/ (m_batch_success /\ trouble' = trouble)
    BY <1>3 DEF cleanup_handle_incoming_blocks, BatchKept, Idle
  <2> QED BY <2>1 DEF PanicOK, NoPanic
<1>4. ASSUME NEW b \in Blocks \ {Genesis}, NEW extra,
             handle_block_to_main_chain(b, extra) \/ store_alternative(b, extra)
               \/ start_switch(b, extra)
      PROVE  PanicOK'
  <2>1. CASE handle_block_to_main_chain(b, extra)
    <3>1. UNCHANGED <<trouble, phase>>
      BY <2>1 DEF handle_block_to_main_chain, switch
    <3>2. m_batch_success' => m_batch_success
      BY <2>1, <1>1, RefuseFacts DEF handle_block_to_main_chain, Connect
    <3> QED BY <3>1, <3>2, SamePanic
  <2>2. CASE store_alternative(b, extra)
    BY <2>2, SamePanic DEF store_alternative, transaction, switch
  <2>3. CASE start_switch(b, extra)
    BY <2>3, SamePanic DEF start_switch, transaction
  <2> QED BY <2>1, <2>2, <2>3, <1>4
<1>5. CASE \E b \in Blocks \ {Genesis} : add_new_block(b)
  BY <1>4, <1>5 DEF add_new_block
<1>6. CASE connect_alternative
  <2> DEFINE b == alt_chain[DbHeight - split_height + 1]
  <2>1. /\ IF Connects(b, {}) THEN Connect(b) ELSE Refuse(b, {})
        /\ phase' # "drop" /\ trouble' = trouble
    BY <1>6 DEF connect_alternative
  <2> HIDE DEF b
  <2>2. m_batch_success' => m_batch_success
    BY <2>1, <1>1 DEF Connect, Refuse, ControlOK
  <2> QED BY <2>1, <2>2, SamePanic
<1>7. CASE rollback_blockchain_switching
  BY <1>7, SamePanic DEF rollback_blockchain_switching, transaction
<1>8. CASE restore_original
  <2> DEFINE b == disconnected_chain[DbHeight - split_height + 1]
  <2>1. /\ phase = "restore" /\ DbHeight - split_height + 1 <= Len(disconnected_chain)
        /\ IF Connects(b, {}) THEN Connect(b) /\ UNCHANGED <<phase, trouble>>
           ELSE Refuse(b, {}) /\ phase' = "drop" /\ trouble' = "panic"
    BY <1>8 DEF restore_original
  <2>2. m_batch_success => Connects(b, {})
    BY <2>1, RestoreConnects
  <2> HIDE DEF b
  <2>3. CASE Connects(b, {})
    BY <2>1, <2>3, SamePanic DEF Connect
  <2>4. CASE ~Connects(b, {})
    <3>1. ~m_batch_success' /\ trouble' = "panic"
      BY <2>1, <2>2, <2>4 DEF Refuse
    <3> QED BY <3>1 DEF PanicOK, NoPanic
  <2> QED BY <2>3, <2>4
<1>9. CASE push_disconnected
  <2>1. /\ trouble' = trouble /\ UNCHANGED <<phase, m_batch_success>>
    BY <1>9, PushStays DEF push_disconnected, transaction
  <2> QED BY <2>1, SamePanic
<1>10. CASE end_switch
  BY <1>10, SamePanic DEF end_switch, NoSwitch, transaction
<1>11. CASE \E t \in Txs : pool_add(t) \/ pool_remove(t)
  BY <1>11, SamePanic DEF pool_add, pool_remove, transaction, switch
<1>12. CASE \E nblocks \in 1..DbHeight, keep_txs \in BOOLEAN : pop_blocks(nblocks, keep_txs)
  BY <1>12, SamePanic DEF pop_blocks, transaction, switch
<1>13. CASE flush_invalid_blocks
  BY <1>13, SamePanic DEF flush_invalid_blocks, transaction, switch
<1>14. CASE \E pts \in SUBSET Points : update_checkpoints(pts)
  BY <1>14, SamePanic DEF update_checkpoints, switch
<1>15. CASE \E keep_alt_blocks \in BOOLEAN : restart(keep_alt_blocks)
  BY <1>15 DEF restart, NoSwitch, PanicOK, NoPanic
<1>16. CASE UNCHANGED vars
  BY <1>16, SamePanic DEF vars
<1> QED BY <1>2, <1>3, <1>5, <1>6, <1>7, <1>8, <1>9, <1>10, <1>11, <1>12, <1>13, <1>14, <1>15,
           <1>16 DEF Next, SwitchStep

\* Both invariants hold in every state, without a checkpoint at height 1.
LEMMA AlwaysPoints ==
  ASSUME PointsAbove
  PROVE  Spec => [](Inv /\ PointsOK /\ PanicOK)
<1>1. Init => Inv /\ PointsOK /\ PanicOK
  BY InitInv, InitPoints
<1>2. Inv /\ PointsOK /\ PanicOK /\ [Next]_vars => (Inv /\ PointsOK /\ PanicOK)'
  BY NextInv, NextPoints, NextPanic
<1> QED BY <1>1, <1>2, PTL DEF Spec

\* No block of the main chain contradicts a checkpoint in force, in whichever
\* order blocks and checkpoints arrive, for all checkpoints above height 1.
THEOREM CheckpointsAreHeld ==
  ASSUME PointsAbove
  PROVE  Spec => []CheckpointsHold
<1>1. PointsOK => CheckpointsHold
  BY DEF PointsOK, Agrees, CheckpointsHold, DbHeight
<1> QED BY <1>1, AlwaysPoints, PTL

\* Nothing of a block that was given up half-way is committed, an old chain that
\* cannot be put back is brought back with the batch, and pushing it among the
\* alternatives never starts another switch, for all checkpoints above height 1.
THEOREM CommitsAreWhole ==
  ASSUME PointsAbove
  PROVE  Spec => []CommittedWhole
<1>1. Inv /\ PanicOK => CommittedWhole
  BY DEF Inv, ControlOK, PanicOK, CommittedWhole
<1> QED BY <1>1, AlwaysPoints, PTL

-----------------------------------------------------------------------------
(* A node without pops and checkpoints *)

Undisturbed == Points = {} /\ "pop" \notin Events

\* No alternative block has more work than a block.
Lighter(a, b) == \A x \in Blocks : a[x] # 0 => Work[x] <= Work[b]

\* The main chain has the most work, the one to fall back to likewise, and during
\* a switch only the block that began it has more than the old chain.
WorkOK ==
  /\ m_points = {} /\ ~discard
  /\ Idle /\ m_batch_success => Lighter(alt_blocks, Tip)
  /\ saved # <<>> => Lighter(saved[3], saved[1][Len(saved[1])])
  /\ ~Idle /\ m_batch_success =>
       \A x \in Blocks : InAlt(x) => x = NewTip \/ Work[x] <= Work[OldTip]

\* Initially.
LEMMA InitWork == Init => WorkOK
<1> SUFFICES ASSUME Init PROVE WorkOK
  OBVIOUS
<1>1. Lighter(alt_blocks, Tip)
  BY DEF Init, Lighter
<1> QED BY <1>1 DEF Init, WorkOK, Idle

\* Nothing that is compared has changed.
LEMMA SameWork ==
  ASSUME WorkOK, m_batch_success' => m_batch_success,
         UNCHANGED <<blocks, alt_blocks, m_points, saved, phase, alt_chain, discard, before>>
  PROVE  WorkOK'
  BY DEF WorkOK, Lighter, Idle, InAlt, NewTip, OldTip, Tip, DbHeight

\* The works of blocks are numbers.
LEMMA WorkType ==
  ASSUME NEW b \in Blocks
  PROVE  Work[b] \in Nat /\ Work[b] > 0
  BY TreeAssumption

\* What is said of the tip.
LEMMA TipFacts ==
  ASSUME DbOK
  PROVE  /\ Tip = blocks[Len(blocks)] /\ Tip \in Blocks /\ Work[Tip] \in Nat
         /\ cumulative_difficulty[DbHeight] = Work[Tip]
<1>1. LineOK(blocks) /\ SumsOK(blocks, cumulative_difficulty) /\ Tip = blocks[Len(blocks)]
      /\ DbHeight = Len(blocks)
  BY DEF DbOK, Tip, DbHeight
<1>2. Tip \in Blocks /\ Len(blocks) \in 1..Len(blocks)
  BY <1>1, LineFacts
<1> QED BY <1>1, <1>2, WorkType DEF SumsOK

\* A block that continues the main chain makes it heavier.
LEMMA HandleWork ==
  ASSUME Inv, WorkOK, NEW b \in Blocks, b # Genesis, NEW extra,
         handle_block_to_main_chain(b, extra)
  PROVE  WorkOK'
<1>1. DbOK /\ ControlOK /\ Idle
  BY DEF Inv, handle_block_to_main_chain, Arrives
<1>2. UNCHANGED <<alt_blocks, m_points, saved, phase, alt_chain, discard, before>>
  BY DEF handle_block_to_main_chain, switch
<1>3. CASE Connects(b, extra)
  <2>1. Connect(b) /\ m_batch_success' = m_batch_success
    BY <1>3 DEF handle_block_to_main_chain, Connect
  <2>2. Tip' = b
    BY <2>1, <1>1, <1>3, ConnectFacts DEF Tip, DbHeight
  <2>3. Work[b] = Work[Tip] + Difficulty[b] /\ Difficulty[b] \in Nat
    BY <1>3, ParentLine, TreeAssumption DEF Connects, RefusedEarly
  <2>4. ASSUME m_batch_success PROVE Lighter(alt_blocks', Tip')
    <3>1. Lighter(alt_blocks, Tip)
      BY <2>4, <1>1 DEF WorkOK
    <3> QED BY <3>1, <2>2, <2>3, <1>1, <1>2, TipFacts, WorkType DEF Lighter
  <2> QED BY <2>1, <2>4, <1>1, <1>2 DEF WorkOK, Idle
<1>4. CASE ~Connects(b, extra)
  <2>1. Refuse(b, extra)
    BY <1>4 DEF handle_block_to_main_chain
  <2>2. blocks' = blocks /\ (m_batch_success' => m_batch_success)
    BY <2>1, <1>1, RefuseFacts
  <2> QED BY <2>2, <1>2, SameWork
<1> QED BY <1>3, <1>4

\* A block that stays an alternative is not heavier.
LEMMA StoreWork ==
  ASSUME Inv, WorkOK, NEW b \in Blocks, b # Genesis, NEW extra, store_alternative(b, extra)
  PROVE  WorkOK'
<1>1. DbOK /\ Idle /\ AltAccepted(b) /\ ~MustSwitch(b) /\ AltsOK(alt_blocks)
  BY DEF Inv, DbOK, store_alternative, Arrives
<1>2. /\ alt_blocks' = [alt_blocks EXCEPT ![b] = AltDifficulty(b)] /\ blocks' = blocks
      /\ UNCHANGED <<m_points, saved, m_batch_success, phase, alt_chain, discard, before>>
  BY DEF store_alternative, StoreAlternative, switch, transaction
<1>3. Work[b] <= Work[Tip]
  <2>1. ~(Work[Tip] < Work[b])
    BY <1>1, AltFacts, TipFacts DEF MustSwitch
  <2> QED BY <2>1, <1>1, TipFacts, WorkType
<1>4. ASSUME m_batch_success PROVE Lighter(alt_blocks', Tip')
  <2>1. Lighter(alt_blocks, Tip) /\ Tip' = Tip
    BY <1>1, <1>2, <1>4 DEF WorkOK, Tip, DbHeight
  <2>2. \A x \in Blocks : x # b => alt_blocks'[x] = alt_blocks[x]
    BY <1>1, <1>2 DEF AltsOK
  <2> QED BY <2>1, <2>2, <1>3 DEF Lighter
<1> QED BY <1>1, <1>2, <1>4 DEF WorkOK, Idle

\* When a switch begins, only its block is heavier than the old chain.
LEMMA StartWork ==
  ASSUME Inv, WorkOK, NEW b \in Blocks, b # Genesis, NEW extra, start_switch(b, extra)
  PROVE  WorkOK'
<1> DEFINE chain == Append(AltBranch(b), b)
<1>1. DbOK /\ Idle /\ AltAccepted(b) /\ ~InMain(b) /\ AltsOK(alt_blocks)
  BY DEF Inv, DbOK, start_switch, Arrives, have_block
<1>2. /\ alt_blocks' = [alt_blocks EXCEPT ![b] = AltDifficulty(b)]
      /\ alt_chain' = chain /\ discard' = IsCheckpoint(Height(b)) /\ before' = blocks
      /\ phase' = "connect" /\ UNCHANGED <<m_points, saved, m_batch_success>>
  BY DEF start_switch, StoreAlternative, transaction
<1>3. Len(chain) \in Nat \ {0} /\ chain[Len(chain)] = b
  BY <1>1, SplitFacts
<1> HIDE DEF chain
<1>4. NewTip' = b /\ OldTip' = Tip
  BY <1>2, <1>3 DEF NewTip, OldTip, Tip, DbHeight
<1>5. ~discard' /\ m_points' = {}
  BY <1>2 DEF WorkOK, IsCheckpoint
<1>6. ASSUME m_batch_success, NEW x \in Blocks, alt_blocks'[x] # 0
      PROVE  x = b \/ Work[x] <= Work[Tip]
  <2>1. Lighter(alt_blocks, Tip)
    BY <1>1, <1>6 DEF WorkOK
  <2>2. x # b => alt_blocks'[x] = alt_blocks[x]
    BY <1>1, <1>2 DEF AltsOK
  <2> QED BY <2>1, <2>2, <1>6 DEF Lighter
<1> QED BY <1>2, <1>4, <1>5, <1>6 DEF WorkOK, Idle, InAlt

\* The old chain becomes an alternative that is not heavier.
LEMMA PushWork ==
  ASSUME Inv, WorkOK, push_disconnected
  PROVE  WorkOK'
<1> DEFINE b == disconnected_chain[1]
<1>1. /\ DbOK /\ phase = "push" /\ disconnected_chain # <<>> /\ ~Idle /\ AltsOK(alt_blocks)
  BY DEF Inv, DbOK, push_disconnected, Idle
<1>2. /\ alt_blocks' = alt_blocks \/ alt_blocks' = [alt_blocks EXCEPT ![b] = AltDifficulty(b)]
      /\ UNCHANGED <<m_points, saved, m_batch_success, phase, alt_chain, discard, before>>
  BY DEF push_disconnected, StoreAlternative, transaction
<1>3. b \in Blocks /\ Work[b] <= Work[OldTip]
  <2>1. LineOK(before) /\ split_height \in Nat
    BY <1>1, SwitchFacts
  <2>2. PICK j \in (split_height + 1)..Len(before) : b = before[j]
    BY <1>1, PushFacts
  <2>3. j \in 1..Len(before)
    BY <2>1, <2>2, LineFacts
  <2> QED BY <2>1, <2>2, <2>3, LineFacts DEF OldTip
<1> HIDE DEF b
<1>4. NewTip' = NewTip /\ OldTip' = OldTip /\ ~Idle'
  BY <1>1, <1>2 DEF NewTip, OldTip, Idle
<1>5. ASSUME m_batch_success, NEW x \in Blocks, alt_blocks'[x] # 0
      PROVE  x = NewTip \/ Work[x] <= Work[OldTip]
  <2>1. x # b => alt_blocks'[x] = alt_blocks[x]
    BY <1>1, <1>2 DEF AltsOK
  <2> QED BY <2>1, <1>1, <1>3, <1>5 DEF WorkOK, InAlt
<1> QED BY <1>2, <1>4, <1>5 DEF WorkOK, InAlt

\* What the main chain is when a switch is over.
LEMMA EndTip ==
  ASSUME Inv, AimOK, PanicOK, ~discard, end_switch
  PROVE  /\ phase = "push" => Tip = NewTip /\ Work[OldTip] < Work[NewTip]
         /\ phase = "restore" => blocks = before /\ Tip = OldTip
         /\ phase \notin {"push", "restore"} => ~m_batch_success
         /\ OldTip \in Blocks /\ NewTip \in Blocks
<1>1. ~Idle /\ DbOK /\ OldOK /\ RestoreOK
  BY DEF Inv, end_switch, Idle
<1>2. /\ LineOK(before) /\ before \in Seq(Blocks) /\ Len(before) \in Nat \ {0}
      /\ LineOK(blocks) /\ DbHeight = Len(blocks) /\ Len(blocks) \in Nat \ {0}
      /\ split_height \in Nat /\ alt_chain \in Seq(Blocks) /\ Len(alt_chain) \in Nat \ {0}
  BY <1>1, SwitchFacts
<1>3. ASSUME phase = "push" PROVE Tip = NewTip /\ Work[OldTip] < Work[NewTip]
  BY <1>1, <1>3, PushTip, TipFacts DEF AimOK
<1>4. ASSUME phase = "restore" PROVE blocks = before /\ Tip = OldTip
  <2>1. DbHeight = split_height + Len(disconnected_chain)
    BY <1>4 DEF end_switch
  <2>2. Len(blocks) = Len(before) /\ \A i \in 1..Len(blocks) : blocks[i] = before[i]
    BY <2>1, <1>1, <1>2, <1>4 DEF OldOK, RestoreOK
  <2>3. blocks \in Seq(Blocks)
    BY <1>2 DEF LineOK
  <2>4. blocks = before
    BY <2>2, <2>3, <1>2, SeqEqual
  <2> QED BY <2>4 DEF Tip, OldTip, DbHeight
<1>5. phase \notin {"push", "restore"} => ~m_batch_success
  BY DEF end_switch, PanicOK
<1>6. OldTip \in Blocks /\ NewTip \in Blocks
  BY <1>2 DEF OldTip, NewTip
<1> QED BY <1>3, <1>4, <1>5, <1>6

\* The main chain has the most work when a switch is over.
LEMMA EndWork ==
  ASSUME Inv, AimOK, PanicOK, WorkOK, end_switch
  PROVE  WorkOK'
<1>1. ~Idle /\ DbOK /\ ~discard
  BY DEF Inv, end_switch, Idle, WorkOK
<1>2. /\ alt_blocks' = WithoutBranch /\ phase' = "idle" /\ discard' = FALSE
      /\ UNCHANGED <<blocks, m_points, saved, m_batch_success>> /\ Tip' = Tip
  BY DEF end_switch, NoSwitch, transaction, Tip, DbHeight
<1>3. ASSUME m_batch_success PROVE Lighter(alt_blocks', Tip')
  <2>1. SUFFICES ASSUME NEW x \in Blocks, alt_blocks'[x] # 0 PROVE Work[x] <= Work[Tip]
    BY <1>2 DEF Lighter
  <2>2. alt_blocks[x] # 0 /\ x \notin ToSet(alt_chain)
    BY <2>1, <1>2 DEF WithoutBranch
  <2>3. NewTip \in ToSet(alt_chain)
    <3>1. alt_chain \in Seq(Blocks) /\ Len(alt_chain) \in Nat \ {0}
      BY <1>1, SwitchFacts
    <3> QED BY <3>1 DEF NewTip, ToSet
  <2>4. Work[x] <= Work[OldTip]
    BY <2>2, <2>3, <1>1, <1>3 DEF WorkOK, InAlt
  <2>5. OldTip \in Blocks /\ NewTip \in Blocks
        /\ (Tip = OldTip \/ (Tip = NewTip /\ Work[OldTip] < Work[NewTip]))
    BY <1>1, <1>3, EndTip
  <2> QED BY <2>4, <2>5, WorkType
<1> QED BY <1>2, <1>3 DEF WorkOK, Idle

\* Every step keeps the most work on the main chain.
LEMMA NextWork ==
  ASSUME Undisturbed, Inv, AimOK, PanicOK, WorkOK, [Next]_vars
  PROVE  WorkOK'
<1>1. DbOK /\ ControlOK
  BY DEF Inv
<1>2. CASE prepare_handle_incoming_blocks
  <2>1. /\ UNCHANGED <<blocks, alt_blocks, m_points, phase, alt_chain, discard, before>>
        /\ saved' = <<blocks, cumulative_difficulty, alt_blocks, pool, kept, partial>>
        /\ Idle /\ m_batch_success
    BY <1>1, <1>2 DEF prepare_handle_incoming_blocks, db, switch, ControlOK, Idle
  <2>2. saved'[1] = blocks /\ saved'[3] = alt_blocks
    BY <2>1
  <2>3. Lighter(alt_blocks, Tip)
    BY <2>1 DEF WorkOK
  <2> QED BY <2>1, <2>2, <2>3 DEF WorkOK, Idle, Tip, DbHeight
<1>3. CASE cleanup_handle_incoming_blocks
  <2>1. /\ Idle /\ saved # <<>> /\ saved' = <<>>
        /\ UNCHANGED <<m_points, phase, alt_chain, discard, before>>
    BY <1>1, <1>3 DEF cleanup_handle_incoming_blocks, ControlOK
  <2>2. CASE m_batch_success
    <3>1. UNCHANGED <<blocks, alt_blocks>>
      BY <2>2, <1>3 DEF cleanup_handle_incoming_blocks, BatchKept, db
    <3>2. Lighter(alt_blocks, Tip)
      BY <2>1, <2>2 DEF WorkOK
    <3> QED BY <3>1, <3>2, <2>1 DEF WorkOK, Idle, Tip, DbHeight
  <2>3. CASE ~m_batch_success
    <3>1. blocks' = saved[1] /\ alt_blocks' = saved[3]
      BY <2>3, <1>3 DEF cleanup_handle_incoming_blocks, BatchKept, RestoreDb
    <3>2. Lighter(saved[3], saved[1][Len(saved[1])])
      BY <2>1 DEF WorkOK
    <3> QED BY <3>1, <3>2, <2>1 DEF WorkOK, Idle, Tip, DbHeight
  <2> QED BY <2>2, <2>3
<1>4. CASE \E b \in Blocks \ {Genesis} : add_new_block(b)
  BY <1>4, HandleWork, StoreWork, StartWork DEF add_new_block
<1>5. CASE connect_alternative
  <2> DEFINE b == alt_chain[DbHeight - split_height + 1]
  <2>1. /\ IF Connects(b, {}) THEN Connect(b) ELSE Refuse(b, {})
        /\ UNCHANGED <<alt_blocks, m_points, saved, discard, before>>
        /\ ~Idle /\ ~Idle'
    BY <1>5 DEF connect_alternative, Idle
  <2> HIDE DEF b
  <2>2. m_batch_success' => m_batch_success
    BY <2>1, <1>1 DEF Connect, Refuse, ControlOK
  <2>3. NewTip' = NewTip /\ OldTip' = OldTip
    <3>1. PointsOK
      BY <1>1, PointAssumption DEF PointsOK, Agrees, WorkOK
    <3> QED BY <3>1, <2>1, <1>5, ConnectAlternativePoints DEF OldTip
  <2> QED BY <2>1, <2>2, <2>3 DEF WorkOK, InAlt
<1>6. CASE rollback_blockchain_switching
  <2>1. /\ UNCHANGED <<alt_blocks, m_points, saved, m_batch_success, alt_chain, discard, before>>
        /\ ~Idle /\ ~Idle'
    BY <1>6 DEF rollback_blockchain_switching, Idle, transaction
  <2> QED BY <2>1 DEF WorkOK, InAlt, NewTip, OldTip
<1>7. CASE restore_original
  <2> DEFINE b == disconnected_chain[DbHeight - split_height + 1]
  <2>1. /\ IF Connects(b, {}) THEN Connect(b) ELSE Refuse(b, {})
        /\ UNCHANGED <<alt_blocks, m_points, saved, alt_chain, discard, before>>
        /\ ~Idle /\ ~Idle'
    BY <1>7 DEF restore_original, Idle
  <2> HIDE DEF b
  <2>2. m_batch_success' => m_batch_success
    BY <2>1, <1>1 DEF Connect, Refuse, ControlOK
  <2> QED BY <2>1, <2>2 DEF WorkOK, InAlt, NewTip, OldTip
<1>8. CASE push_disconnected
  BY <1>8, PushWork
<1>9. CASE end_switch
  BY <1>9, EndWork
<1>10. CASE \E t \in Txs : pool_add(t) \/ pool_remove(t)
  BY <1>10, SameWork DEF pool_add, pool_remove, transaction, switch
<1>11. CASE \E nblocks \in 1..DbHeight, keep_txs \in BOOLEAN : pop_blocks(nblocks, keep_txs)
  BY <1>11 DEF Undisturbed, pop_blocks
<1>12. CASE flush_invalid_blocks
  BY <1>12, SameWork DEF flush_invalid_blocks, transaction, switch, db
<1>13. CASE \E pts \in SUBSET Points : update_checkpoints(pts)
  BY <1>13 DEF Undisturbed, update_checkpoints
<1>14. ASSUME NEW keep_alt_blocks, restart(keep_alt_blocks) PROVE WorkOK'
  <2>1. phase' = "idle" /\ m_points' = {} /\ discard' = FALSE /\ saved' = <<>>
    BY <1>14 DEF restart, NoSwitch
  <2>2. Lighter(alt_blocks', Tip')
    <3>1. CASE saved = <<>>
      <4>1. /\ blocks' = blocks
            /\ alt_blocks' = IF keep_alt_blocks THEN alt_blocks ELSE [b \in Blocks |-> 0]
        BY <3>1, <1>14 DEF restart, db
      <4>2. Idle /\ m_batch_success
        BY <3>1, <1>1 DEF ControlOK, Idle
      <4>3. Lighter(alt_blocks, Tip) /\ Tip' = Tip
        BY <4>1, <4>2 DEF WorkOK, Tip, DbHeight
      <4> QED BY <4>1, <4>3 DEF Lighter
    <3>2. CASE saved # <<>>
      <4>1. /\ blocks' = saved[1]
            /\ alt_blocks' = IF keep_alt_blocks THEN saved[3] ELSE [b \in Blocks |-> 0]
        BY <3>2, <1>14 DEF restart
      <4>2. Lighter(saved[3], saved[1][Len(saved[1])])
        BY <3>2 DEF WorkOK
      <4> QED BY <4>1, <4>2 DEF Lighter, Tip, DbHeight
    <3> QED BY <3>1, <3>2
  <2> QED BY <2>1, <2>2 DEF WorkOK, Idle
<1>15. CASE UNCHANGED vars
  BY <1>15, SameWork DEF vars
<1> QED BY <1>2, <1>3, <1>4, <1>5, <1>6, <1>7, <1>8, <1>9, <1>10, <1>11, <1>12, <1>13, <1>14,
           <1>15 DEF Next, SwitchStep

\* All the invariants of an undisturbed node.
LEMMA AlwaysWork ==
  ASSUME Undisturbed
  PROVE  Spec => [](Inv /\ AimOK /\ PanicOK /\ WorkOK)
<1>1. PointsAbove
  BY DEF Undisturbed, PointsAbove
<1>2. Spec => [](Inv /\ PointsOK /\ PanicOK)
  BY <1>1, AlwaysPoints
<1>3. Init => WorkOK
  BY InitWork
<1>4. (Inv /\ PointsOK /\ PanicOK) /\ WorkOK /\ [Next]_vars => WorkOK'
  BY NextWork DEF PointsOK
<1>5. PointsOK => AimOK
  BY DEF PointsOK
<1> QED BY <1>2, <1>3, <1>4, <1>5, PTL DEF Spec

\* Without pops and checkpoints no alternative block has more work than the main
\* chain, whatever switches fail and batches are aborted in between.
THEOREM MainHasMostWork ==
  ASSUME Undisturbed
  PROVE  Spec => []MostWork
<1>1. WorkOK => MostWork
  BY DEF WorkOK, Lighter, MostWork, InAlt
<1> QED BY <1>1, AlwaysWork, PTL

-----------------------------------------------------------------------------
(* The fork choice that an undisturbed node implements *)

Durable == IF saved = <<>> THEN Main ELSE saved[1]

\* What a step of the fork choice is.
LEMMA ForkAdopts ==
  ASSUME NEW b \in Blocks, LineOK(Line[b]), Work[b] > Work[Main[Len(Main)]], Main' = Line[b],
         Durable' = Durable
  PROVE  Choice!Next
<1>1. Choice!IsValid(b)
  BY DEF LineOK, Choice!IsValid
<1> QED BY <1>1 DEF Choice!Next, Choice!Adopt, Choice!WorkOf, Durable

\* The initial chain.
LEMMA ForkInit == Init => Choice!Init
  BY DEF Init, Choice!Init, Main, Idle

\* While no batch is open, all chains are the same.
LEMMA Outside ==
  ASSUME Inv
  PROVE  /\ saved = <<>> => Main = blocks /\ Durable = blocks /\ Idle /\ m_batch_success
         /\ saved # <<>> => Durable = saved[1]
         /\ ~m_batch_success => Main = saved[1] /\ saved # <<>>
         /\ m_batch_success /\ Idle => Main = blocks
         /\ m_batch_success /\ ~Idle => Main = before /\ saved # <<>>
  BY DEF Inv, ControlOK, Idle, Main, Durable

\* The same after a step.
LEMMA OutsideNext ==
  ASSUME Inv'
  PROVE  /\ saved' = <<>> => Main' = blocks' /\ Durable' = blocks' /\ Idle' /\ m_batch_success'
         /\ saved' # <<>> => Durable' = saved'[1]
         /\ ~m_batch_success' => Main' = saved'[1] /\ saved' # <<>>
         /\ m_batch_success' /\ Idle' => Main' = blocks'
         /\ m_batch_success' /\ ~Idle' => Main' = before' /\ saved' # <<>>
  BY DEF Inv, ControlOK, Idle, Main, Durable

\* A step in a batch that leaves the chain as others see it.
LEMMA ForkStutters ==
  ASSUME Main' = Main, Durable' = Durable
  PROVE  [Choice!Next]_<<Main, IF saved = <<>> THEN Main ELSE saved[1]>>
  BY DEF Durable

\* Losing the batch.
LEMMA ForkLoses ==
  ASSUME Main' = Durable, Durable' = Durable
  PROVE  Choice!Next
  BY DEF Choice!Next, Choice!Lose, Durable

\* A block that continues the main chain is adopted; one that makes the batch
\* fail loses it.
LEMMA ForkHandle ==
  ASSUME Inv, Inv', NEW b \in Blocks, b # Genesis, NEW extra,
         handle_block_to_main_chain(b, extra)
  PROVE  Choice!Next \/ (Main' = Main /\ Durable' = Durable)
<1>1. DbOK /\ ControlOK /\ Idle /\ saved # <<>>
  BY DEF Inv, ControlOK, handle_block_to_main_chain, Arrives
<1>2. saved' = saved /\ Idle'
  BY <1>1 DEF handle_block_to_main_chain, switch, Idle
<1>3. Durable' = Durable /\ Durable = saved[1]
  BY <1>1, <1>2, Outside, OutsideNext
<1>4. CASE Connects(b, extra)
  <2>1. Connect(b) /\ m_batch_success' = m_batch_success
    BY <1>4 DEF handle_block_to_main_chain, Connect
  <2>2. /\ LineOK(blocks') /\ Len(blocks') = Len(blocks) + 1 /\ blocks'[Len(blocks) + 1] = b
    BY <2>1, <1>1, <1>4, ConnectFacts DEF DbHeight
  <2>3. blocks' = Line[b]
    BY <2>2 DEF LineOK
  <2>4. Work[b] > Work[blocks[Len(blocks)]]
    <3>1. Parent(b) = Tip /\ Tip = blocks[Len(blocks)] /\ Work[Tip] \in Nat
      BY <1>1, <1>4, TipFacts DEF Connects, RefusedEarly
    <3>2. Work[b] = Work[Tip] + Difficulty[b] /\ Difficulty[b] \in Nat \ {0}
      BY <3>1, ParentLine, TreeAssumption
    <3> QED BY <3>1, <3>2
  <2>5. CASE m_batch_success
    <3>1. Main = blocks /\ Main' = blocks'
      BY <2>1, <2>5, <1>1, <1>2, Outside, OutsideNext
    <3> QED BY <3>1, <2>2, <2>3, <2>4, <1>3, ForkAdopts
  <2>6. CASE ~m_batch_success
    BY <2>1, <2>6, <1>2, <1>3, Outside, OutsideNext
  <2> QED BY <2>5, <2>6
<1>5. CASE ~Connects(b, extra)
  <2>1. blocks' = blocks /\ (m_batch_success' => m_batch_success)
    BY <1>1, <1>5, RefuseFacts DEF handle_block_to_main_chain
  <2>2. CASE m_batch_success'
    BY <2>1, <2>2, <1>1, <1>2, <1>3, Outside, OutsideNext
  <2>3. CASE ~m_batch_success'
    BY <2>3, <1>2, <1>3, OutsideNext, ForkLoses
  <2> QED BY <2>2, <2>3
<1> QED BY <1>4, <1>5

\* A switch shows only when it is over: as a heavier valid chain or not at all.
LEMMA ForkSwitch ==
  ASSUME Inv, Inv', AimOK, PanicOK, WorkOK, SwitchStep
  PROVE  Choice!Next \/ (Main' = Main /\ Durable' = Durable)
<1>1. DbOK /\ ControlOK /\ ~Idle /\ saved # <<>> /\ LineOK(blocks) /\ ~discard
  BY DEF Inv, DbOK, ControlOK, WorkOK, Idle, SwitchStep, connect_alternative,
         rollback_blockchain_switching, restore_original, push_disconnected, end_switch
<1>2. saved' = saved
  BY DEF SwitchStep, connect_alternative, rollback_blockchain_switching, restore_original,
         push_disconnected, end_switch, transaction
<1>3. Durable' = Durable /\ Durable = saved[1]
  BY <1>1, <1>2, Outside, OutsideNext
<1>4. CASE ~m_batch_success'
  BY <1>2, <1>3, <1>4, OutsideNext, ForkLoses
<1>5. CASE m_batch_success' /\ ~end_switch
  <2>1. ~Idle' /\ before' = before
    BY <1>1, <1>5 DEF SwitchStep, connect_alternative, rollback_blockchain_switching,
                      restore_original, push_disconnected, Idle
  <2>2. m_batch_success
    BY <1>1, <1>5 DEF SwitchStep, connect_alternative, rollback_blockchain_switching,
                      restore_original, push_disconnected, transaction, Connect, Refuse,
                      ControlOK
  <2> QED BY <2>1, <2>2, <1>1, <1>3, <1>5, Outside, OutsideNext
<1>6. CASE m_batch_success' /\ end_switch
  <2>1. m_batch_success /\ blocks' = blocks /\ Idle'
    BY <1>6 DEF end_switch, NoSwitch, transaction, Idle
  <2>2. Main = before /\ Main' = blocks
    BY <2>1, <1>1, <1>6, Outside, OutsideNext
  <2>3. CASE phase = "restore"
    BY <2>2, <2>3, <1>1, <1>3, <1>6, EndTip
  <2>4. CASE phase # "restore"
    <3>1. Tip = NewTip /\ Work[OldTip] < Work[NewTip] /\ NewTip \in Blocks /\ OldTip \in Blocks
      BY <2>1, <2>4, <1>1, <1>6, EndTip
    <3>2. blocks = Line[NewTip] /\ Work[NewTip] > Work[before[Len(before)]]
      BY <3>1, <1>1, WorkType DEF LineOK, OldTip, Tip, DbHeight
    <3> QED BY <3>1, <3>2, <2>2, <1>1, <1>3, ForkAdopts
  <2> QED BY <2>3, <2>4
<1> QED BY <1>4, <1>5, <1>6

\* Every step is a step of the fork choice, or none.
LEMMA ForkNext ==
  ASSUME Undisturbed, Inv, Inv', AimOK, PanicOK, WorkOK, [Next]_vars
  PROVE  Choice!Next \/ (Main' = Main /\ Durable' = Durable)
<1>1. DbOK /\ ControlOK
  BY DEF Inv
<1>2. CASE prepare_handle_incoming_blocks
  <2>1. /\ blocks' = blocks /\ saved = <<>> /\ m_batch_success' /\ Idle'
        /\ saved' = <<blocks, cumulative_difficulty, alt_blocks, pool, kept, partial>>
    BY <1>1, <1>2 DEF prepare_handle_incoming_blocks, db, switch, ControlOK, Idle
  <2>2. saved'[1] = blocks /\ saved' # <<>>
    BY <2>1
  <2> QED BY <2>1, <2>2, Outside, OutsideNext
<1>3. CASE cleanup_handle_incoming_blocks
  <2>1. Idle /\ saved # <<>> /\ saved' = <<>>
    BY <1>1, <1>3 DEF cleanup_handle_incoming_blocks, ControlOK
  <2>2. CASE m_batch_success
    <3>1. blocks' = blocks
      BY <2>2, <1>3 DEF cleanup_handle_incoming_blocks, BatchKept, db
    <3>2. Main' = Main /\ Durable' = Main
      BY <3>1, <2>1, <2>2, Outside, OutsideNext
    <3> QED BY <3>2 DEF Choice!Next, Choice!Commit, Durable
  <2>3. CASE ~m_batch_success
    <3>1. blocks' = saved[1]
      BY <2>3, <1>3 DEF cleanup_handle_incoming_blocks, BatchKept, RestoreDb
    <3> QED BY <3>1, <2>1, <2>3, Outside, OutsideNext
  <2> QED BY <2>2, <2>3
<1>4. ASSUME NEW b \in Blocks \ {Genesis}, NEW extra, store_alternative(b, extra)
      PROVE  Main' = Main /\ Durable' = Durable
  <2>1. UNCHANGED <<blocks, saved, m_batch_success, phase, before>>
    BY <1>4 DEF store_alternative, transaction, switch
  <2> QED BY <2>1 DEF Main, Durable, Idle
<1>5. ASSUME NEW b \in Blocks \ {Genesis}, NEW extra, start_switch(b, extra)
      PROVE  Main' = Main /\ Durable' = Durable
  <2>1. UNCHANGED <<saved, m_batch_success>> /\ before' = blocks /\ Idle /\ ~Idle'
        /\ saved # <<>>
    BY <1>1, <1>5 DEF start_switch, Arrives, transaction, Idle, ControlOK
  <2> QED BY <2>1, Outside, OutsideNext
<1>6. CASE \E b \in Blocks \ {Genesis} : add_new_block(b)
  BY <1>4, <1>5, <1>6, ForkHandle DEF add_new_block
<1>7. CASE SwitchStep
  BY <1>7, ForkSwitch
<1>8. CASE \E t \in Txs : pool_add(t) \/ pool_remove(t)
  <2>1. UNCHANGED <<blocks, saved, m_batch_success, phase, before>>
    BY <1>8 DEF pool_add, pool_remove, transaction, switch
  <2> QED BY <2>1 DEF Main, Durable, Idle
<1>9. CASE \E nblocks \in 1..DbHeight, keep_txs \in BOOLEAN : pop_blocks(nblocks, keep_txs)
  BY <1>9 DEF Undisturbed, pop_blocks
<1>10. CASE flush_invalid_blocks
  <2>1. UNCHANGED <<blocks, saved, m_batch_success, phase, before>>
    BY <1>10 DEF flush_invalid_blocks, db, transaction, switch
  <2> QED BY <2>1 DEF Main, Durable, Idle
<1>11. CASE \E pts \in SUBSET Points : update_checkpoints(pts)
  BY <1>11 DEF Undisturbed, update_checkpoints
<1>12. ASSUME NEW keep_alt_blocks, restart(keep_alt_blocks)
       PROVE  Choice!Next
  <2>1. saved' = <<>> /\ blocks' = IF saved = <<>> THEN blocks ELSE saved[1]
    BY <1>12 DEF restart, db
  <2>2. Main' = Durable /\ Durable' = Durable
    BY <2>1, Outside, OutsideNext
  <2> QED BY <2>2, ForkLoses
<1>13. CASE UNCHANGED vars
  BY <1>13 DEF vars, Main, Durable, Idle
<1> QED BY <1>2, <1>3, <1>6, <1>7, <1>8, <1>9, <1>10, <1>11, <1>12, <1>13 DEF Next

\* Without pops and checkpoints the blockchain implements ForkChoice: as others
\* see it, the main chain is only ever replaced by valid chains with more work,
\* as a whole, and only what was not committed is lost.
THEOREM ForkChoiceImplemented ==
  ASSUME Undisturbed
  PROVE  Spec => ImplementsForkChoice
<1> DEFINE I == Inv /\ AimOK /\ PanicOK /\ WorkOK
<1>1. Spec => []I
  BY AlwaysWork
<1>2. Init => Choice!Init
  BY ForkInit
<1>3. I /\ I' /\ [Next]_vars => [Choice!Next]_<<Main, IF saved = <<>> THEN Main ELSE saved[1]>>
  BY ForkNext, ForkStutters
<1> QED BY <1>1, <1>2, <1>3, PTL DEF Spec, ImplementsForkChoice, Choice!Spec

=============================================================================
