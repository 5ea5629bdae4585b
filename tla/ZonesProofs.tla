----------------------------- MODULE ZonesProofs -----------------------------
(***************************************************************************)
(* Theorems of Zones, for any machines of the subnet and the Internet, and *)
(* either policy of the chain.                                             *)
(***************************************************************************)
EXTENDS Zones, SequenceTheorems, TLAPS

Rules == [from : SUBSET Int, to : SUBSET Int, new : BOOLEAN, target : {"DROP", "ACCEPT"}]

\* What the proofs use of the eight lines of PostUp: seven DROPs of new connections, then
\* the ACCEPT, no two alike.
LEMMA TheLines ==
    /\ PostUp \in Seq(Rules) /\ Len(PostUp) = 8
    /\ PostDown = PostUp
    /\ \A i \in 1 .. 7 : PostUp[i] = Drops[i] /\ PostUp[i].target = "DROP" /\ PostUp[i].new
    /\ PostUp[8] = AcceptAll /\ PostUp[8].target = "ACCEPT"
    /\ \A i, j \in 1 .. 8 : PostUp[i] = PostUp[j] => i = j
<1>1. /\ Drops \in Seq(Rules) /\ Len(Drops) = 7
      /\ \A i \in 1 .. 7 : Drops[i].target = "DROP" /\ Drops[i].new
  BY DEF Drops, Drop, Rules, Subnet
<1>2. AcceptAll \in Rules /\ AcceptAll.target = "ACCEPT"
  BY DEF AcceptAll, Rules, Subnet, Internet
<1>3. /\ PostUp \in Seq(Rules) /\ Len(PostUp) = 8
      /\ \A i \in 1 .. 7 : PostUp[i] = Drops[i]
      /\ PostUp[8] = AcceptAll
  <2>1. /\ Append(Drops, AcceptAll) \in Seq(Rules)
        /\ Len(Append(Drops, AcceptAll)) = Len(Drops) + 1
        /\ \A i \in 1 .. Len(Drops) : Append(Drops, AcceptAll)[i] = Drops[i]
        /\ Append(Drops, AcceptAll)[Len(Drops) + 1] = AcceptAll
    <3>1. Drops \in Seq(Rules) /\ AcceptAll \in Rules
      BY <1>1, <1>2
    <3> QED
      BY <3>1, AppendProperties
  <2> QED
    BY <1>1, <2>1 DEF PostUp
<1>4. \A i, j \in 1 .. 7 : Drops[i] = Drops[j] => i = j
  <2>1. /\ Drops[1].from = 200 .. 254
        /\ Drops[2].from = 150 .. 199 /\ Drops[2].to = 2 .. 149
        /\ Drops[3].from = 150 .. 199 /\ Drops[3].to = 200 .. 254
        /\ Drops[4].from = 100 .. 149 /\ Drops[4].to = 2 .. 49
        /\ Drops[5].from = 100 .. 149 /\ Drops[5].to = 100 .. 254
        /\ Drops[6].from = 16 .. 99 /\ Drops[6].to = 2 .. 15
        /\ Drops[7].from = 16 .. 99 /\ Drops[7].to = 100 .. 254
    BY DEF Drops, Drop
  <2>2. \A i \in 1 .. 7 : 254 \in Drops[i].from <=> i = 1
    BY <2>1
  <2>3. \A i \in 1 .. 7 : 150 \in Drops[i].from <=> i \in {2, 3}
    BY <2>1
  <2>4. \A i \in 1 .. 7 : 149 \in Drops[i].from <=> i \in {4, 5}
    BY <2>1
  <2>5. \A i \in 1 .. 7 : 2 \in Drops[i].to <=> i \in {1, 2, 4, 6}
    <3>1. Drops[1].to = Subnet
      BY DEF Drops, Drop
    <3> QED
      BY <2>1, <3>1 DEF Subnet
  <2>6. SUFFICES ASSUME NEW i \in 1 .. 7, NEW j \in 1 .. 7, Drops[i] = Drops[j]
                 PROVE  i = j
    OBVIOUS
  <2>7. /\ (i = 1 <=> j = 1) /\ (i \in {2, 3} <=> j \in {2, 3})
        /\ (i \in {4, 5} <=> j \in {4, 5})
        /\ (i \in {1, 2, 4, 6} <=> j \in {1, 2, 4, 6})
    <3>1. i = 1 <=> j = 1
      BY <2>2, <2>6
    <3>2. i \in {2, 3} <=> j \in {2, 3}
      BY <2>3, <2>6
    <3>3. i \in {4, 5} <=> j \in {4, 5}
      BY <2>4, <2>6
    <3>4. i \in {1, 2, 4, 6} <=> j \in {1, 2, 4, 6}
      BY <2>5, <2>6
    <3> QED
      BY <3>1, <3>2, <3>3, <3>4
  <2> QED
    BY <2>7
<1>5. \A i \in 1 .. 7 : PostUp[i] # PostUp[8]
  BY <1>1, <1>2, <1>3
<1> QED
  BY <1>1, <1>2, <1>3, <1>4, <1>5 DEF PostDown, PostUp

\* A nonempty set of positions of the chain has a first one.
LEMMA FirstExists ==
    ASSUME NEW S, S \subseteq 1 .. 8, S # {}
    PROVE  \E i \in S : \A j \in S : i <= j
<1>1. CASE 1 \in S
  BY <1>1
<1>2. CASE 1 \notin S /\ 2 \in S
  BY <1>2
<1>3. CASE 1 \notin S /\ 2 \notin S /\ 3 \in S
  BY <1>3
<1>4. CASE 1 \notin S /\ 2 \notin S /\ 3 \notin S /\ 4 \in S
  BY <1>4
<1>5. CASE 1 \notin S /\ 2 \notin S /\ 3 \notin S /\ 4 \notin S /\ 5 \in S
  BY <1>5
<1>6. CASE S \subseteq 6 .. 8 /\ 6 \in S
  BY <1>6
<1>7. CASE S \subseteq 7 .. 8 /\ 7 \in S
  BY <1>7
<1>8. CASE S \subseteq 8 .. 8
  <2>1. \A i \in S : i = 8
    BY <1>8
  <2>2. PICK x \in S : TRUE
    BY Zenon
  <2>3. 8 \in S /\ \A j \in S : 8 <= j
    BY <2>1, <2>2
  <2> QED
    BY <2>3
<1> QED
  BY <1>1, <1>2, <1>3, <1>4, <1>5, <1>6, <1>7, <1>8

-----------------------------------------------------------------------------
\* Between the hooks: after k lines of PostUp, the last line added comes first.
Built(k) ==
    /\ Len(chain) = k
    /\ \A i \in 1 .. k : chain[i] = IF k = 8 THEN IF i = 8 THEN PostUp[8] ELSE PostUp[8 - i]
                                             ELSE PostUp[k + 1 - i]

\* After k lines of PostDown, the first k lines of PostUp are gone.
Left(k) ==
    /\ Len(chain) = 8 - k
    /\ \A i \in 1 .. (8 - k) : chain[i] = IF i = 8 - k THEN PostUp[8] ELSE PostUp[8 - i]

ChainInv ==
    /\ a \in Machines /\ b \in Machines /\ a # b
    /\ policy \in {"ACCEPT", "DROP"}
    /\ chain \in Seq(Rules)
    /\ phase \in {"down", "up", "stopping"}
    /\ hook \in 0 .. 8
    /\ flow \in {<<>>, <<a, b>>, <<b, a>>}
    /\ phase = "down" => chain = <<>>
    /\ phase = "up" => Built(hook)
    /\ phase = "stopping" => Left(hook)

LEMMA ChainInitially == Init => ChainInv
  BY DEF Init, ChainInv

\* -D finds exactly one rule, and removes it.
LEMMA Removed ==
    ASSUME NEW CONSTANT k \in 0 .. 7, chain \in Seq(Rules), Left(k), hook = k, RunPostDown
    PROVE  chain' \in Seq(Rules) /\ Left(k + 1)'
<1> DEFINE found == {i \in 1 .. Len(chain) : chain[i] = PostDown[k + 1]}
           at == IF k = 7 THEN 1 ELSE 7 - k
<1>1. at \in 1 .. Len(chain) /\ found = {at}
  <2>1. ASSUME NEW i \in 1 .. Len(chain) PROVE chain[i] = PostDown[k + 1] <=> i = at
    <3>1. CASE i = 8 - k
      BY <3>1, TheLines DEF Left
    <3>2. CASE i # 8 - k
      BY <3>2, TheLines, SMTT(30) DEF Left
    <3> QED
      BY <3>1, <3>2
  <2>2. at \in 1 .. Len(chain)
    BY DEF Left
  <2> QED
    BY <2>1, <2>2
<1>2. chain' = RemoveAt(chain, at)
  <2>1. (CHOOSE i \in found : \A j \in found : i <= j) = at
    BY <1>1
  <2>2. chain' = RemoveAt(chain, CHOOSE i \in found : \A j \in found : i <= j)
    <3>1. found # {}
      BY <1>1
    <3> QED
      BY <3>1 DEF RunPostDown
  <2> QED
    BY <2>1, <2>2
<1> HIDE DEF found, at
<1>3. chain' = SubSeq(chain, 1, at - 1) \o SubSeq(chain, at + 1, Len(chain))
  BY <1>2 DEF RemoveAt
<1>4. /\ chain' \in Seq(Rules) /\ Len(chain') = Len(chain) - 1
      /\ \A i \in 1 .. (Len(chain) - 1) : chain'[i] = IF i < at THEN chain[i] ELSE chain[i + 1]
  <2> DEFINE front == SubSeq(chain, 1, at - 1)
             back == SubSeq(chain, at + 1, Len(chain))
  <2>1. \A i \in 1 .. Len(chain) : chain[i] \in Rules
    BY ElementOfSeq
  <2>2. /\ front \in Seq(Rules) /\ Len(front) = at - 1
        /\ \A i \in 1 .. (at - 1) : front[i] = chain[i]
    <3>1. 1 \in Int /\ at - 1 \in Int /\ \A i \in 1 .. (at - 1) : chain[i] \in Rules
      BY <1>1, <2>1
    <3>2. /\ front \in Seq(Rules) /\ Len(front) = IF 1 <= at - 1 THEN (at - 1) - 1 + 1 ELSE 0
          /\ \A i \in 1 .. ((at - 1) - 1 + 1) : front[i] = chain[1 + i - 1]
      BY <3>1, SubSeqProperties
    <3> HIDE DEF front
    <3> QED
      BY <1>1, <3>2
  <2>3. /\ back \in Seq(Rules) /\ Len(back) = Len(chain) - at
        /\ \A i \in 1 .. (Len(chain) - at) : back[i] = chain[i + at]
    <3>1. /\ at + 1 \in Int /\ Len(chain) \in Int
          /\ \A i \in (at + 1) .. Len(chain) : chain[i] \in Rules
      BY <1>1, <2>1
    <3>2. /\ back \in Seq(Rules)
          /\ Len(back) = IF at + 1 <= Len(chain) THEN Len(chain) - (at + 1) + 1 ELSE 0
          /\ \A i \in 1 .. (Len(chain) - (at + 1) + 1) : back[i] = chain[(at + 1) + i - 1]
      BY <3>1, SubSeqProperties
    <3> HIDE DEF back
    <3> QED
      BY <1>1, <3>2
  <2> HIDE DEF front, back
  <2>4. /\ front \o back \in Seq(Rules) /\ Len(front \o back) = Len(front) + Len(back)
        /\ \A i \in 1 .. Len(front) + Len(back) :
              (front \o back)[i] = IF i <= Len(front) THEN front[i] ELSE back[i - Len(front)]
    BY <2>2, <2>3, ConcatProperties
  <2>5. chain' = front \o back
    BY <1>3 DEF front, back
  <2>6. chain' \in Seq(Rules) /\ Len(chain') = Len(chain) - 1
    <3>1. /\ Len(front) = at - 1 /\ Len(back) = Len(chain) - at
          /\ at \in Int /\ Len(chain) \in Int
      BY <1>1, <2>2, <2>3
    <3>2. Len(chain') = Len(front) + Len(back) /\ chain' \in Seq(Rules)
      BY <2>4, <2>5, Zenon
    <3> QED
      BY <3>1, <3>2
  <2>7. ASSUME NEW i \in 1 .. (Len(chain) - 1)
        PROVE  chain'[i] = IF i < at THEN chain[i] ELSE chain[i + 1]
    <3>1. chain'[i] = IF i <= at - 1 THEN front[i] ELSE back[i - (at - 1)]
      BY <1>1, <2>2, <2>3, <2>4, <2>5
    <3>2. CASE i < at
      BY <1>1, <2>2, <3>1, <3>2
    <3>3. CASE ~ (i < at)
      <4>1. i - (at - 1) \in 1 .. (Len(chain) - at) /\ i - (at - 1) + at = i + 1
        BY <1>1, <3>3
      <4>2. chain'[i] = back[i - (at - 1)]
        BY <1>1, <3>1, <3>3
      <4>3. back[i - (at - 1)] = chain[i - (at - 1) + at]
        BY <2>3, <4>1, Zenon
      <4> QED
        BY <3>3, <4>1, <4>2, <4>3
    <3> QED
      BY <3>2, <3>3
  <2> QED
    BY <2>6, <2>7
<1>5. CASE k = 7
  BY <1>4, <1>5 DEF Left, at
<1>6. CASE k # 7
  <2>1. at = 7 - k /\ Len(chain) = 8 - k /\ Len(chain') = 7 - k
    BY <1>4, <1>6 DEF Left, at
  <2>2. ASSUME NEW i \in 1 .. (7 - k)
        PROVE  chain'[i] = IF i = 7 - k THEN PostUp[8] ELSE PostUp[8 - i]
    <3>1. CASE i = 7 - k
      <4>1. chain'[i] = chain[8 - k]
        BY <1>4, <2>1, <3>1
      <4> QED
        BY <3>1, <4>1 DEF Left
    <3>2. CASE i # 7 - k
      <4>1. chain'[i] = chain[i] /\ i \in 1 .. (8 - k) /\ i # 8 - k
        BY <1>4, <2>1, <3>2
      <4> QED
        BY <3>2, <4>1 DEF Left
    <3> QED
      BY <3>1, <3>2
  <2>3. 8 - (k + 1) = 7 - k
    OBVIOUS
  <2> QED
    BY <1>4, <2>1, <2>2, <2>3 DEF Left
<1> QED
  BY <1>5, <1>6

LEMMA ChainInductive == ChainInv /\ [Next]_vars => ChainInv'
<1> SUFFICES ASSUME ChainInv, [Next]_vars PROVE ChainInv'
  OBVIOUS
<1>0. Len(PostUp) = 8 /\ PostUp \in Seq(Rules) /\ Len(PostDown) = 8
  BY TheLines
<1> USE DEF ChainInv
<1>1. CASE IfUp
  BY <1>1 DEF IfUp, Built
<1>2. CASE RunPostUp
  <2>0. hook \in 0 .. 7 /\ hook' = hook + 1 /\ Built(hook)
    BY <1>0, <1>2 DEF RunPostUp
  <2>1. hook \in 0 .. 7 /\ hook' = hook + 1 /\ Built(hook) /\ PostUp[hook'] \in Rules
    <3>1. hook' \in 1 .. Len(PostUp)
      BY <1>0, <2>0
    <3> QED
      BY <1>0, <2>0, <3>1, ElementOfSeq
  <2>2. CASE hook' = 8
    <3>1. chain' = Append(chain, PostUp[8])
      BY <1>2, <2>1, <2>2, TheLines DEF RunPostUp
    <3>2. Len(chain) = 7 /\ \A i \in 1 .. 7 : chain[i] = PostUp[8 - i]
      BY <2>1, <2>2 DEF Built
    <3>3. /\ chain' \in Seq(Rules) /\ Len(chain') = 8 /\ chain'[8] = PostUp[8]
          /\ \A i \in 1 .. 7 : chain'[i] = PostUp[8 - i]
      <4>1. PostUp[8] \in Rules
        BY <2>1, <2>2
      <4>2. /\ chain' \in Seq(Rules) /\ Len(chain') = Len(chain) + 1
            /\ \A i \in 1 .. Len(chain) : chain'[i] = chain[i]
            /\ chain'[Len(chain) + 1] = PostUp[8]
        BY <3>1, <4>1, AppendProperties
      <4> QED
        BY <3>2, <4>2
    <3>4. Built(hook)'
      BY <2>2, <3>3 DEF Built
    <3> QED
      BY <1>2, <2>1, <3>3, <3>4 DEF RunPostUp
  <2>3. CASE hook' # 8
    <3>1. chain' = <<PostUp[hook']>> \o chain
      BY <1>2, <2>1, <2>3, TheLines, SMTT(30) DEF RunPostUp
    <3>2. /\ chain' \in Seq(Rules) /\ Len(chain') = hook'
          /\ chain'[1] = PostUp[hook']
          /\ \A i \in 2 .. hook' : chain'[i] = chain[i - 1]
      BY <2>1, <3>1 DEF Built
    <3>3. ASSUME NEW i \in 1 .. hook' PROVE chain'[i] = PostUp[hook' + 1 - i]
      <4>1. CASE i = 1
        BY <2>1, <3>2, <4>1
      <4>2. CASE i # 1
        <5>1. i - 1 \in 1 .. hook /\ hook + 1 - (i - 1) = hook' + 1 - i
          BY <2>1, <4>2
        <5>2. chain'[i] = chain[i - 1] /\ chain[i - 1] = PostUp[hook + 1 - (i - 1)]
          BY <2>1, <3>2, <4>2, <5>1 DEF Built
        <5> QED
          BY <5>1, <5>2
      <4> QED
        BY <4>1, <4>2
    <3>4. Built(hook)'
      BY <2>1, <2>3, <3>2, <3>3 DEF Built
    <3> QED
      BY <1>2, <2>1, <3>2, <3>4 DEF RunPostUp
  <2> QED
    BY <2>2, <2>3
<1>3. CASE IfDown
  <2>1. hook = 8 /\ Built(8) /\ hook' = 0
    BY <1>0, <1>3 DEF IfDown
  <2>2. Left(hook)'
    BY <1>3, <2>1 DEF IfDown, Built, Left
  <2> QED
    BY <1>3, <2>2 DEF IfDown
<1>4. CASE RunPostDown
  <2>1. hook \in 0 .. 7 /\ hook' = hook + 1 /\ Left(hook)
    BY <1>0, <1>4 DEF RunPostDown
  <2>2. PICK k \in 0 .. 7 : hook = k
    BY <2>1
  <2>3. Left(k) /\ hook' = k + 1
    BY <2>1, <2>2
  <2>4. chain' \in Seq(Rules) /\ Left(k + 1)'
    BY <1>4, <2>2, <2>3, Removed
  <2>5. Left(hook)'
    BY <2>3, <2>4 DEF Left
  <2> QED
    BY <1>4, <2>1, <2>4, <2>5 DEF RunPostDown
<1>5. CASE IfGone
  <2>1. chain = <<>>
    BY <1>0, <1>5 DEF IfGone, Left
  <2> QED
    BY <1>5, <2>1 DEF IfGone
<1>6. ASSUME NEW s, NEW d, Open(s, d), <<s, d>> \in {<<a, b>>, <<b, a>>}
      PROVE  ChainInv'
  BY <1>6 DEF Open, Built
<1>7. CASE Close
  BY <1>7 DEF Close, Built, Left
<1>8. CASE UNCHANGED vars
  BY <1>8 DEF vars, Built, Left
<1> QED
  BY <1>1, <1>2, <1>3, <1>4, <1>5, <1>6, <1>7, <1>8 DEF Next

-----------------------------------------------------------------------------
\* With all eight lines in the chain, a packet passes if no DROP matches it.
LEMMA VerdictWhenBuilt ==
    ASSUME ChainInv, Up, NEW s \in Subnet, NEW d \in Subnet \cup {Internet},
           NEW isNew \in BOOLEAN
    PROVE  (Verdict(chain, policy, s, d, isNew) = "ACCEPT")
                <=> \A i \in 1 .. 7 : ~ Matches(Drops[i], s, d, isNew)
<1> DEFINE hits == {i \in 1 .. Len(chain) : Matches(chain[i], s, d, isNew)}
           first == CHOOSE i \in hits : \A j \in hits : i <= j
<1>1. /\ Len(chain) = 8 /\ chain[8] = AcceptAll
      /\ \A i \in 1 .. 7 : chain[i] = Drops[8 - i] /\ chain[i].target = "DROP"
  BY TheLines DEF ChainInv, Up, Built
<1>2. 8 \in hits
  BY <1>1 DEF Matches, AcceptAll
<1>3. first \in hits /\ \A j \in hits : first <= j
  <2>1. hits \subseteq 1 .. 8
    BY <1>1
  <2> HIDE DEF hits
  <2>2. \E i \in hits : \A j \in hits : i <= j
    BY <1>2, <2>1, FirstExists
  <2> QED
    BY <2>2
<1>4. Verdict(chain, policy, s, d, isNew) = chain[first].target
  BY <1>2 DEF Verdict
<1>5. first \in 1 .. 8 /\ (first = 8 <=> \A i \in 1 .. 7 : ~ Matches(chain[i], s, d, isNew))
  <2>1. first \in 1 .. 8 /\ Matches(chain[first], s, d, isNew)
    BY <1>1, <1>3
  <2> HIDE DEF first
  <2>2. ASSUME NEW i \in 1 .. 7, Matches(chain[i], s, d, isNew) PROVE first # 8
    <3>1. i \in hits
      BY <1>1, <2>2
    <3>2. first <= i
      BY <1>3, <3>1
    <3> QED
      BY <2>1, <3>2
  <2> QED
    BY <2>1, <2>2
<1>6. (\A i \in 1 .. 7 : ~ Matches(chain[i], s, d, isNew))
        <=> \A i \in 1 .. 7 : ~ Matches(Drops[i], s, d, isNew)
  <2>1. \A i \in 1 .. 7 : 8 - i \in 1 .. 7 /\ 8 - (8 - i) = i
    OBVIOUS
  <2> QED
    BY <1>1, <2>1
<1>7. AcceptAll.target = "ACCEPT"
  BY DEF AcceptAll
<1>8. chain[first].target = "ACCEPT" <=> first = 8
  <2> HIDE DEF first
  <2>1. CASE first = 8
    BY <1>1, <1>7, <2>1
  <2>2. CASE first # 8
    <3>1. first \in 1 .. 7
      BY <1>5, <2>2
    <3> QED
      BY <1>1, <2>2, <3>1
  <2> QED
    BY <2>1, <2>2
<1> QED
  BY <1>4, <1>5, <1>6, <1>8, Zenon

\* Before that, nothing in the chain accepts.
LEMMA VerdictWhileBuilding ==
    ASSUME ChainInv, phase = "up", hook # 8, policy = "DROP", NEW s, NEW d, NEW isNew
    PROVE  Verdict(chain, policy, s, d, isNew) # "ACCEPT"
<1> DEFINE hits == {i \in 1 .. Len(chain) : Matches(chain[i], s, d, isNew)}
           first == CHOOSE i \in hits : \A j \in hits : i <= j
<1>1. Len(chain) \in 0 .. 7 /\ \A i \in 1 .. Len(chain) : chain[i].target = "DROP"
  <2>1. hook \in 0 .. 7 /\ Len(chain) = hook
    BY DEF ChainInv, Built
  <2>2. ASSUME NEW i \in 1 .. hook PROVE chain[i].target = "DROP"
    <3>1. chain[i] = PostUp[hook + 1 - i] /\ hook + 1 - i \in 1 .. 7
      BY <2>1 DEF ChainInv, Built
    <3> QED
      BY <3>1, TheLines
  <2> QED
    BY <2>1, <2>2
<1>2. CASE hits = {}
  BY <1>2 DEF Verdict
<1>3. CASE hits # {}
  <2>1. first \in hits
    <3>1. hits \subseteq 1 .. 8
      BY <1>1
    <3> HIDE DEF hits
    <3>2. \E i \in hits : \A j \in hits : i <= j
      BY <1>3, <3>1, FirstExists
    <3> QED
      BY <3>2
  <2>2. Verdict(chain, policy, s, d, isNew) = chain[first].target
    BY <1>3 DEF Verdict
  <2> QED
    BY <1>1, <2>1, <2>2
<1> QED
  BY <1>2, <1>3

\* Between two peers: what no DROP stops, and what the table allows.
Passes(s, d) ==
    /\ s \notin 200 .. 254
    /\ ~ (s \in 150 .. 199 /\ d \in 2 .. 149)
    /\ ~ (s \in 150 .. 199 /\ d \in 200 .. 254)
    /\ ~ (s \in 100 .. 149 /\ d \in 2 .. 49)
    /\ ~ (s \in 100 .. 149 /\ d \in 100 .. 254)
    /\ ~ (s \in 16 .. 99 /\ d \in 2 .. 15)
    /\ ~ (s \in 16 .. 99 /\ d \in 100 .. 254)

Allowed(s, d) ==
    \/ s \in 2 .. 15
    \/ s \in 100 .. 149 /\ d \in 50 .. 99
    \/ s \in 150 .. 199 /\ d \in 150 .. 199
    \/ s \in (16 .. 49) \cup (50 .. 99) /\ d \in (16 .. 49) \cup (50 .. 99)

LEMMA TableArithmetic ==
    ASSUME NEW s \in 2 .. 254, NEW d \in 2 .. 254
    PROVE  Passes(s, d) <=> Allowed(s, d)
<1>1. CASE s \in 2 .. 99
  BY <1>1, SMTT(30) DEF Passes, Allowed
<1>2. CASE s \in 100 .. 149
  BY <1>2, SMTT(30) DEF Passes, Allowed
<1>3. CASE s \in 150 .. 199
  BY <1>3, SMTT(30) DEF Passes, Allowed
<1>4. CASE s \in 200 .. 254
  BY <1>4 DEF Passes, Allowed
<1> QED
  BY <1>1, <1>2, <1>3, <1>4

\* The seven DROPs are the zone table.
LEMMA TheTable ==
    ASSUME NEW s \in 2 .. 254, NEW d \in (2 .. 254) \cup {Internet}
    PROVE  (\A i \in 1 .. 7 : ~ Matches(Drops[i], s, d, TRUE)) <=> MayOpen(s, d)
<1>1. /\ Matches(Drops[1], s, d, TRUE) <=> s \in 200 .. 254 /\ d \in Subnet
      /\ Matches(Drops[2], s, d, TRUE) <=> s \in 150 .. 199 /\ d \in 2 .. 149
      /\ Matches(Drops[3], s, d, TRUE) <=> s \in 150 .. 199 /\ d \in 200 .. 254
      /\ Matches(Drops[4], s, d, TRUE) <=> s \in 100 .. 149 /\ d \in 2 .. 49
      /\ Matches(Drops[5], s, d, TRUE) <=> s \in 100 .. 149 /\ d \in 100 .. 254
      /\ Matches(Drops[6], s, d, TRUE) <=> s \in 16 .. 99 /\ d \in 2 .. 15
      /\ Matches(Drops[7], s, d, TRUE) <=> s \in 16 .. 99 /\ d \in 100 .. 254
  BY SMTT(30) DEF Drops, Drop, Matches
<1>2. (\A i \in 1 .. 7 : ~ Matches(Drops[i], s, d, TRUE)) <=>
        /\ ~ Matches(Drops[1], s, d, TRUE) /\ ~ Matches(Drops[2], s, d, TRUE)
        /\ ~ Matches(Drops[3], s, d, TRUE) /\ ~ Matches(Drops[4], s, d, TRUE)
        /\ ~ Matches(Drops[5], s, d, TRUE) /\ ~ Matches(Drops[6], s, d, TRUE)
        /\ ~ Matches(Drops[7], s, d, TRUE)
  <2>1. 1 .. 7 = {1, 2, 3, 4, 5, 6, 7}
    OBVIOUS
  <2> QED
    BY <2>1, Zenon
<1>3. MayOpen(s, d) <=> d = 256 \/ Allowed(s, d)
  BY DEF MayOpen, InZone, Zone, Servers, Internet, Allowed
<1>4. CASE d = 256
  <2>1. /\ d \notin Subnet /\ d \notin 2 .. 149 /\ d \notin 200 .. 254 /\ d \notin 2 .. 49
        /\ d \notin 100 .. 254 /\ d \notin 2 .. 15
    BY <1>4 DEF Subnet
  <2> QED
    BY <1>1, <1>2, <1>3, <1>4, <2>1, Zenon
<1>5. CASE d \in 2 .. 254
  <2>1. d \in Subnet /\ d # 256
    BY <1>5 DEF Subnet
  <2>2. (\A i \in 1 .. 7 : ~ Matches(Drops[i], s, d, TRUE)) <=> Passes(s, d)
    BY <1>1, <1>2, <2>1, ZenonT(30) DEF Passes
  <2>3. Passes(s, d) <=> Allowed(s, d)
    BY <1>5, TableArithmetic
  <2> QED
    BY <1>3, <2>1, <2>2, <2>3, Zenon
<1> QED
  BY <1>4, <1>5 DEF Internet

-----------------------------------------------------------------------------
\* The inductive invariant: the rules in the chain between any two hooks.
THEOREM ChainOfHooks == Spec => []ChainInv
  BY ChainInitially, ChainInductive, PTL DEF Spec

\* The variables keep their types, and every rule of the chain is a line of PostUp.
THEOREM ZonesTypeCorrect == Spec => []TypeOK
<1>1. ChainInv => TypeOK
  <2> SUFFICES ASSUME ChainInv PROVE TypeOK
    OBVIOUS
  <2>1. \A i \in 1 .. Len(chain) : \E j \in 1 .. 8 : chain[i] = PostUp[j]
    <3>1. CASE phase = "down"
      BY <3>1 DEF ChainInv
    <3>2. CASE phase = "up"
      <4> TAKE i \in 1 .. Len(chain)
      <4>1. CASE hook = 8
        <5>1. Len(chain) = 8 /\ chain[i] = IF i = 8 THEN PostUp[8] ELSE PostUp[8 - i]
          BY <3>2, <4>1 DEF ChainInv, Built
        <5>2. i = 8 \/ 8 - i \in 1 .. 8
          BY <5>1
        <5> QED
          BY <5>1, <5>2
      <4>2. CASE hook # 8
        <5>1. hook + 1 - i \in 1 .. 8 /\ chain[i] = PostUp[hook + 1 - i]
          BY <3>2, <4>2 DEF ChainInv, Built
        <5> QED
          BY <5>1
      <4> QED
        BY <4>1, <4>2
    <3>3. CASE phase = "stopping"
      <4> TAKE i \in 1 .. Len(chain)
      <4>1. CASE i = 8 - hook
        BY <3>3, <4>1 DEF ChainInv, Left
      <4>2. CASE i # 8 - hook
        <5>1. 8 - i \in 1 .. 8 /\ chain[i] = PostUp[8 - i]
          BY <3>3, <4>2 DEF ChainInv, Left
        <5> QED
          BY <5>1
      <4> QED
        BY <4>1, <4>2
    <3> QED
      BY <3>1, <3>2, <3>3 DEF ChainInv
  <2> QED
    BY <2>1, TheLines DEF ChainInv, TypeOK
<1> QED
  BY <1>1, ChainOfHooks, PTL

LEMMA BuiltEnforces == ChainInv => ZonesEnforced
<1>1. ASSUME ChainInv, Up, NEW s \in {a, b} \ {Internet}, NEW d \in {a, b} \ {s}
      PROVE  (Verdict(chain, policy, s, d, TRUE) = "ACCEPT") <=> MayOpen(s, d)
  <2>1. s \in 2 .. 254 /\ d \in (2 .. 254) \cup {Internet}
    BY <1>1, ZonesAssumption DEF ChainInv
  <2>2. s \in Subnet /\ d \in Subnet \cup {Internet}
    BY <2>1 DEF Subnet
  <2> QED
    BY <1>1, <2>1, <2>2, VerdictWhenBuilt, TheTable
<1>2. ChainInv /\ phase = "down" => chain = <<>>
  BY DEF ChainInv
<1> QED
  BY <1>1, <1>2 DEF ZonesEnforced

\* Between any two machines, the eight lines let through exactly the connections of the
\* zone table, whatever the policy of the chain; and PostDown removes every rule.
THEOREM TableEnforced == Spec => []ZonesEnforced
  BY ChainOfHooks, BuiltEnforces, PTL

\* With policy DROP no connection outside the table is ever tracked.
THEOREM FlowsInTable == Spec => []FlowsRespectZones
<1>1. Init => FlowsRespectZones
  BY DEF Init, FlowsRespectZones
<1>2. ChainInv /\ FlowsRespectZones /\ [Next]_vars => FlowsRespectZones'
  <2> SUFFICES ASSUME ChainInv, FlowsRespectZones, [Next]_vars,
                      policy' = "DROP", flow' # <<>>
               PROVE  MayOpen(flow'[1], flow'[2])
    BY DEF FlowsRespectZones, MayOpen, InZone
  <2>1. ASSUME NEW s \in {a, b}, NEW d \in {a, b}, s # d, Open(s, d)
        PROVE  MayOpen(flow'[1], flow'[2])
    <3>1. hook = 8 /\ Up
      BY <2>1, VerdictWhileBuilding, TheLines DEF Open, Up
    <3>2. MayOpen(s, d)
      BY <2>1, <3>1, BuiltEnforces DEF Open, ZonesEnforced
    <3> QED
      BY <2>1, <3>2 DEF Open
  <2>2. CASE UNCHANGED <<policy, flow>>
    BY <2>2 DEF FlowsRespectZones
  <2> QED
    BY <2>1, <2>2 DEF Next, vars, ChainInv, IfUp, RunPostUp, IfDown, RunPostDown, IfGone, Close
<1> QED
  BY <1>1, <1>2, ChainOfHooks, PTL DEF Spec

\* The answers of a tracked connection pass while the hooks are in place.
THEOREM AnswersAlwaysPass == Spec => []AnswersPass
<1>1. ChainInv => AnswersPass
  <2> SUFFICES ASSUME ChainInv, Up, flow # <<>>, flow[2] # Internet
               PROVE  Verdict(chain, policy, flow[2], flow[1], FALSE) = "ACCEPT"
    BY DEF AnswersPass
  <2>1. flow[2] \in Subnet /\ flow[1] \in Subnet \cup {Internet}
    <3>1. flow[1] \in Machines /\ flow[2] \in Machines
      <4>1. flow = <<a, b>> \/ flow = <<b, a>>
        BY DEF ChainInv
      <4>2. a \in Machines /\ b \in Machines
        BY DEF ChainInv
      <4> QED
        BY <4>1, <4>2
    <3>2. \A m \in Machines : m \in Subnet \cup {Internet}
      BY ZonesAssumption DEF Subnet
    <3> QED
      BY <3>1, <3>2
  <2>2. \A i \in 1 .. 7 : ~ Matches(Drops[i], flow[2], flow[1], FALSE)
    BY TheLines DEF Matches
  <2> QED
    BY <2>1, <2>2, VerdictWhenBuilt
<1> QED
  BY <1>1, ChainOfHooks, PTL
=============================================================================
