----------------------------- MODULE MailProofs -----------------------------
(***************************************************************************)
(* For any players, letters and file sizes: the mail system keeps its      *)
(* type; and as long as no process ended between a link and the block it   *)
(* names, the free list and the index are exact, the chains are apart and  *)
(* everyone gets his own letter.                                           *)
(***************************************************************************)
EXTENDS Mail, TLAPS, SequenceTheorems

-----------------------------------------------------------------------------
(* Lists of positions *)

\* Pushing a new element in front adds it to what the list names.
LEMMA PushFacts ==
  ASSUME NEW S, NEW s \in Seq(S), NEW p \in S
  PROVE  /\ <<p>> \o s \in Seq(S)
         /\ ToSet(<<p>> \o s) = {p} \cup ToSet(s)
         /\ Len(<<p>> \o s) = Len(s) + 1
         /\ IsInjective(s) /\ p \notin ToSet(s) => IsInjective(<<p>> \o s)
<1> DEFINE t == <<p>> \o s
<1>1. <<p>> \in Seq(S) /\ Len(<<p>>) = 1 /\ <<p>>[1] = p
  OBVIOUS
<1>2. /\ t \in Seq(S) /\ Len(t) = Len(s) + 1
      /\ \A i \in 1 .. Len(s) + 1 : t[i] = IF i = 1 THEN p ELSE s[i - 1]
  BY <1>1, ConcatProperties, LenProperties, SMT
<1>3. DOMAIN s = 1 .. Len(s) /\ DOMAIN t = 1 .. Len(s) + 1 /\ Len(s) \in Nat
  BY <1>2, LenProperties
<1> HIDE DEF t
<1>4. ToSet(t) = {p} \cup ToSet(s)
  <2>1. ASSUME NEW x \in ToSet(t)  PROVE x \in {p} \cup ToSet(s)
    <3>1. PICK i \in 1 .. Len(s) + 1 : x = t[i]
      BY <1>3 DEF ToSet
    <3>2. CASE i = 1
      BY <3>1, <3>2, <1>2
    <3>3. CASE i # 1
      <4>1. i - 1 \in 1 .. Len(s) /\ x = s[i - 1]
        BY <3>1, <3>3, <1>2, <1>3
      <4> QED
        BY <4>1, <1>3 DEF ToSet
    <3> QED
      BY <3>2, <3>3
  <2>2. p \in ToSet(t)
    <3>1. 1 \in 1 .. Len(s) + 1 /\ t[1] = p
      BY <1>2, <1>3
    <3> QED
      BY <3>1, <1>3 DEF ToSet
  <2>3. ASSUME NEW x \in ToSet(s)  PROVE x \in ToSet(t)
    <3>1. PICK i \in 1 .. Len(s) : x = s[i]
      BY <1>3 DEF ToSet
    <3>2. i + 1 \in 1 .. Len(s) + 1 /\ t[i + 1] = x
      BY <3>1, <1>2, <1>3
    <3> QED
      BY <3>2, <1>3 DEF ToSet
  <2> QED
    BY <2>1, <2>2, <2>3
<1>5. ASSUME IsInjective(s), p \notin ToSet(s)  PROVE IsInjective(t)
  <2>1. \A i \in 1 .. Len(s) : s[i] # p
    BY <1>3, <1>5 DEF ToSet
  <2>2. \A i, j \in 1 .. Len(s) : s[i] = s[j] => i = j
    BY <1>3, <1>5 DEF IsInjective
  <2>3. ASSUME NEW i \in 1 .. Len(s) + 1, NEW j \in 1 .. Len(s) + 1, t[i] = t[j]
        PROVE  i = j
    <3>1. CASE i = 1 \/ j = 1
      <4>1. \A k \in 1 .. Len(s) + 1 : k # 1 => k - 1 \in 1 .. Len(s) /\ t[k] # p
        BY <1>2, <1>3, <2>1
      <4>2. t[1] = p
        BY <1>2, <1>3
      <4> QED
        BY <2>3, <3>1, <4>1, <4>2
    <3>2. CASE i # 1 /\ j # 1
      <4>1. i - 1 \in 1 .. Len(s) /\ j - 1 \in 1 .. Len(s) /\ s[i - 1] = s[j - 1]
        BY <1>2, <1>3, <2>3, <3>2
      <4>2. i - 1 = j - 1
        BY <2>2, <4>1
      <4> QED
        BY <4>2
    <3> QED
      BY <3>1, <3>2
  <2> QED
    BY <1>3, <2>3 DEF IsInjective
<1> QED
  BY <1>2, <1>4, <1>5 DEF t

\* Taking the first element off takes it off what the list names.
LEMMA TailFacts ==
  ASSUME NEW S, NEW s \in Seq(S), s # <<>>
  PROVE  /\ Head(s) \in S /\ Head(s) \in ToSet(s)
         /\ Tail(s) \in Seq(S) /\ Len(Tail(s)) = Len(s) - 1
         /\ ToSet(Tail(s)) \subseteq ToSet(s)
         /\ IsInjective(s) => /\ IsInjective(Tail(s))
                              /\ ToSet(Tail(s)) = ToSet(s) \ {Head(s)}
<1> DEFINE t == Tail(s)
<1>1. /\ Head(s) \in S /\ t \in Seq(S) /\ Len(t) = Len(s) - 1
      /\ \A i \in 1 .. Len(t) : t[i] = s[i + 1]
  BY HeadTailProperties
<1>2. Len(s) \in Nat \ {0} /\ DOMAIN s = 1 .. Len(s) /\ DOMAIN t = 1 .. Len(t)
  BY <1>1, LenProperties, EmptySeq
<1>3. Head(s) = s[1] /\ 1 \in 1 .. Len(s)
  BY <1>2
<1> HIDE DEF t
<1>4. \A i \in 1 .. Len(t) : i + 1 \in 1 .. Len(s)
  BY <1>1, <1>2
<1>5. ToSet(t) \subseteq ToSet(s)
  <2>1. ASSUME NEW i \in 1 .. Len(t)  PROVE t[i] \in ToSet(s)
    BY <1>1, <1>2, <1>4 DEF ToSet
  <2> QED
    BY <1>2, <2>1 DEF ToSet
<1>6. ASSUME IsInjective(s)  PROVE IsInjective(t) /\ ToSet(t) = ToSet(s) \ {s[1]}
  <2>1. \A i, j \in 1 .. Len(s) : s[i] = s[j] => i = j
    BY <1>2, <1>6 DEF IsInjective
  <2>2. \A i, j \in 1 .. Len(t) : t[i] = t[j] => i + 1 = j + 1
    BY <1>1, <1>4, <2>1
  <2>3. IsInjective(t)
    BY <1>1, <1>2, <2>2 DEF IsInjective
  <2>4. s[1] \notin ToSet(t)
    <3>1. \A i \in 1 .. Len(t) : t[i] # s[1]
      BY <1>1, <1>2, <1>3, <1>4, <2>1
    <3> QED
      BY <1>2, <3>1 DEF ToSet
  <2>5. ASSUME NEW x \in ToSet(s), x # s[1]  PROVE x \in ToSet(t)
    <3>1. PICK i \in 1 .. Len(s) : x = s[i]
      BY <1>2 DEF ToSet
    <3>2. i - 1 \in 1 .. Len(t) /\ t[i - 1] = x
      BY <1>1, <1>2, <2>5, <3>1
    <3> QED
      BY <1>2, <3>2 DEF ToSet
  <2> QED
    BY <1>5, <2>3, <2>4, <2>5
<1> QED
  BY <1>1, <1>2, <1>3, <1>5, <1>6 DEF ToSet, t

\* The same for the last element.
LEMMA FrontFacts ==
  ASSUME NEW S, NEW s \in Seq(S), s # <<>>
  PROVE  /\ Last(s) \in S /\ Last(s) \in ToSet(s)
         /\ Front(s) \in Seq(S)
         /\ ToSet(Front(s)) \subseteq ToSet(s)
         /\ IsInjective(s) => /\ IsInjective(Front(s))
                              /\ ToSet(Front(s)) = ToSet(s) \ {Last(s)}
<1> DEFINE t == Front(s)
           n == Len(s)
<1>1. n \in Nat \ {0} /\ DOMAIN s = 1 .. n /\ \A i \in 1 .. n : s[i] \in S
  BY LenProperties, EmptySeq
<1>2. Last(s) = s[n] /\ t = SubSeq(s, 1, n - 1)
  BY DEF Last, Front
<1> HIDE DEF t, n
<1>3. t \in Seq(S) /\ Len(t) = n - 1 /\ \A i \in 1 .. n - 1 : t[i] = s[i]
  <2>1. \A i \in 1 .. n - 1 : s[i] \in S
    BY <1>1
  <2>2. /\ t \in Seq(S) /\ Len(t) = IF 1 <= n - 1 THEN n - 1 - 1 + 1 ELSE 0
        /\ \A i \in 1 .. n - 1 - 1 + 1 : t[i] = s[1 + i - 1]
    BY <1>1, <1>2, <2>1, SubSeqProperties
  <2>3. n - 1 - 1 + 1 = n - 1 /\ \A i \in 1 .. n - 1 : 1 + i - 1 = i
    BY <1>1
  <2> QED
    BY <1>1, <2>2, <2>3
<1>4. DOMAIN t = 1 .. n - 1
  BY <1>3, LenProperties
<1>5. ToSet(t) \subseteq ToSet(s)
  <2>1. ASSUME NEW i \in 1 .. n - 1  PROVE t[i] \in ToSet(s)
    <3>1. i \in 1 .. n
      BY <1>1
    <3> QED
      BY <1>1, <1>3, <3>1 DEF ToSet
  <2> QED
    BY <1>4, <2>1 DEF ToSet
<1>6. ASSUME IsInjective(s)  PROVE IsInjective(t) /\ ToSet(t) = ToSet(s) \ {s[n]}
  <2>1. \A i, j \in 1 .. n : s[i] = s[j] => i = j
    BY <1>1, <1>6 DEF IsInjective
  <2>2. \A i, j \in 1 .. n - 1 : t[i] = t[j] => i = j
    BY <1>1, <1>3, <2>1
  <2>3. IsInjective(t)
    BY <1>4, <2>2 DEF IsInjective
  <2>4. s[n] \notin ToSet(t)
    <3>1. \A i \in 1 .. n - 1 : t[i] # s[n]
      BY <1>1, <1>3, <2>1
    <3> QED
      BY <1>4, <3>1 DEF ToSet
  <2>5. ASSUME NEW x \in ToSet(s), x # s[n]  PROVE x \in ToSet(t)
    <3>1. PICK i \in 1 .. n : x = s[i]
      BY <1>1 DEF ToSet
    <3>2. i \in 1 .. n - 1 /\ t[i] = x
      BY <1>1, <1>3, <2>5, <3>1
    <3> QED
      BY <1>4, <3>2 DEF ToSet
  <2> QED
    BY <1>5, <2>3, <2>4, <2>5
<1>7. s[n] \in ToSet(s) /\ s[n] \in S
  BY <1>1 DEF ToSet
<1> QED
  BY <1>2, <1>3, <1>5, <1>6, <1>7 DEF t

-----------------------------------------------------------------------------
(* Blocks, and what pop_free_list and write_to_file do with them *)

Block == [kind : {"header", "data", "deleted"}, next : Links, text : Text]

\* Every step stays within the file: the lists name blocks of it, and a letter
\* being written has room for the parts that are still missing.
Missing == Parts[call.letter] - call.part
NextWithin(f) == \A p \in 1 .. Len(f) : f[p].next \in 0 .. Len(f) + 1
Bounds ==
  /\ NextWithin(file)
  /\ ToSet(free_list) \subseteq Blocks
  /\ \A r \in Persons : ToSet(mail_index[r]) \subseteq Blocks
  /\ At({"scan"}) => call.pos \in 1 .. Len(file) + 1
  /\ At({"link"}) => /\ call.pos \in Blocks
                     /\ call.part < Parts[call.letter]
                     /\ Len(file) + Missing <= MaxBlocks + Len(free_list)
  /\ At({"fill"}) => /\ call.pos \in 1 .. Len(file) + 1
                     /\ call.part <= Parts[call.letter]
                     /\ Len(file) + Missing <= MaxBlocks + Len(free_list)
                     /\ call.pos = Len(file) + 1 => Len(file) + Missing + 1 <= MaxBlocks + Len(free_list)
  /\ At({"receive"}) => mail_index[call.to] # <<>>
  /\ At({"follow"}) => call.pos \in 0 .. Len(file) + 1

\* A text of the file is some part of some letter.
LEMMA Texts ==
  /\ \A l \in Letters, k \in Nat \ {0} : k <= Parts[l] => [letter |-> l, part |-> k] \in Text
  /\ \A t \in Text : /\ t.letter \in Letters
                     /\ t.part \in Nat \ {0} /\ t.part <= Parts[t.letter]
                     /\ t = [letter |-> t.letter, part |-> t.part]
<1>1. ASSUME NEW l \in Letters, NEW k \in Nat \ {0}, k <= Parts[l]
      PROVE  [letter |-> l, part |-> k] \in Text
  <2>1. Parts[l] \in Nat
    BY MailAssumption
  <2>2. [letter |-> l, part |-> k] \in [letter : {l}, part : 1 .. Parts[l]]
    BY <1>1, <2>1
  <2> QED
    BY <2>2 DEF Text
<1>2. ASSUME NEW t \in Text
      PROVE  /\ t.letter \in Letters
             /\ t.part \in Nat \ {0} /\ t.part <= Parts[t.letter]
             /\ t = [letter |-> t.letter, part |-> t.part]
  <2>1. PICK l \in Letters : t \in [letter : {l}, part : 1 .. Parts[l]]
    BY DEF Text
  <2>2. Parts[l] \in Nat
    BY MailAssumption
  <2> QED
    BY <2>1, <2>2
<1> QED
  BY <1>1, <1>2

LEMMA BlocksMade ==
  /\ \A l \in Letters : Header(l, LAST_BLOCK) \in Block
  /\ \A l \in Letters, k \in Nat \ {0} : k <= Parts[l] => Data(l, k, LAST_BLOCK) \in Block
  /\ \A l, k : Header(l, LAST_BLOCK).next = 0 /\ Data(l, k, LAST_BLOCK).next = 0
  /\ \A b \in Block : /\ Deleted(b) \in Block /\ Deleted(b).kind = "deleted" /\ Deleted(b).next = 0
                      /\ Deleted(b).text = b.text
 <1>1. 0 \in Links
  BY MailAssumption DEF Links
<1>2. \A l \in Letters : [letter |-> l, part |-> 1] \in Text
  <2>1. \A l \in Letters : 1 <= Parts[l]
    BY MailAssumption
  <2> QED
    BY <2>1, Texts
<1> QED
  BY <1>1, <1>2, Texts DEF Header, Data, Deleted, Block, LAST_BLOCK

LEMMA Relinked ==
  ASSUME NEW b \in Block, NEW q \in Links
  PROVE  /\ [b EXCEPT !.next = q] \in Block
         /\ [b EXCEPT !.next = q].next = q
         /\ [b EXCEPT !.next = q].kind = b.kind /\ [b EXCEPT !.next = q].text = b.text
BY DEF Block

\* write_to_file changes one block, which may be a new one at the end.
LEMMA WrittenFacts ==
  ASSUME file \in Seq(Block), NEW b \in Block, NEW p \in 1 .. Len(file) + 1
  PROVE  /\ Written(p, b) \in Seq(Block)
         /\ Len(Written(p, b)) = IF p = Len(file) + 1 THEN Len(file) + 1 ELSE Len(file)
         /\ p \in 1 .. Len(Written(p, b))
         /\ \A i \in 1 .. Len(Written(p, b)) :
              /\ Written(p, b)[i] = IF i = p THEN b ELSE file[i]
              /\ i # p => i \in Blocks
<1>1. Len(file) \in Nat
  BY LenProperties
<1>2. CASE p <= Len(file)
  <2>1. Written(p, b) = [file EXCEPT ![p] = b] /\ p \in 1 .. Len(file)
    BY <1>1, <1>2 DEF Written
  <2> QED
    BY <1>1, <1>2, <2>1, ExceptSeq DEF Blocks
<1>3. CASE ~(p <= Len(file))
  <2>1. Written(p, b) = Append(file, b) /\ p = Len(file) + 1
    BY <1>1, <1>3 DEF Written
  <2> QED
    BY <1>1, <2>1 DEF Blocks
<1> QED
  BY <1>2, <1>3

LEMMA WrittenWithin ==
  ASSUME file \in Seq(Block), NextWithin(file),
         NEW b \in Block, b.next = 0, NEW p \in 1 .. Len(file) + 1
  PROVE  NextWithin(Written(p, b))
<1> DEFINE f == Written(p, b)
<1>1. /\ Len(f) \in {Len(file), Len(file) + 1} /\ Len(file) \in Nat
      /\ \A i \in 1 .. Len(f) : f[i] = IF i = p THEN b ELSE file[i]
      /\ \A i \in 1 .. Len(f) : i # p => i \in 1 .. Len(file)
  BY WrittenFacts, LenProperties DEF Blocks
<1> HIDE DEF f
<1>2. \A i \in 1 .. Len(file) : file[i].next \in 0 .. Len(file) + 1
  BY DEF NextWithin
<1>3. ASSUME NEW i \in 1 .. Len(f)  PROVE f[i].next \in 0 .. Len(f) + 1
  <2>1. CASE i = p
    BY <1>1, <2>1
  <2>2. CASE i # p
    <3>1. file[i].next \in 0 .. Len(file) + 1 /\ f[i] = file[i]
      BY <1>1, <1>2, <2>2
    <3> QED
      BY <1>1, <3>1
  <2> QED
    BY <2>1, <2>2
<1> QED
  BY <1>3 DEF NextWithin, f

LEMMA WrittenBlocks ==
  ASSUME file \in Seq(Block), NEW b \in Block, NEW p \in 1 .. Len(file) + 1,
         file' = Written(p, b)
  PROVE  /\ Blocks' = Blocks \cup {p}
         /\ \A i \in Blocks' : file'[i] = IF i = p THEN b ELSE file[i]
<1>1. /\ Len(file') = IF p = Len(file) + 1 THEN Len(file) + 1 ELSE Len(file)
      /\ \A i \in 1 .. Len(file') : file'[i] = IF i = p THEN b ELSE file[i]
  BY WrittenFacts
<1>2. Len(file) \in Nat
  BY LenProperties
<1>3. Blocks' = 1 .. Len(file') /\ Blocks = 1 .. Len(file)
  BY DEF Blocks
<1>4. 1 .. Len(file') = 1 .. Len(file) \cup {p}
  <2>1. CASE p = Len(file) + 1
    BY <1>1, <1>2, <2>1
  <2>2. CASE p # Len(file) + 1
    BY <1>1, <1>2, <2>2
  <2> QED
    BY <2>1, <2>2
<1> QED
  BY <1>1, <1>3, <1>4

\* pop_free_list finds a block, or the end of a file that has room.
LEMMA PopFacts ==
  ASSUME file \in Seq(Block), free_list \in Seq(Positions), Len(file) <= MaxBlocks,
         ToSet(free_list) \subseteq Blocks,
         Len(file) + 1 <= MaxBlocks + Len(free_list)
  PROVE  /\ PopPos \in Positions /\ PopPos \in 1 .. Len(file) + 1
         /\ PopRest \in Seq(Positions)
         /\ ToSet(PopRest) \subseteq ToSet(free_list)
         /\ PopPos = Len(file) + 1 <=> free_list = <<>>
         /\ Len(PopRest) = IF free_list = <<>> THEN 0 ELSE Len(free_list) - 1
         /\ Len(free_list) = 0 <=> free_list = <<>>
         /\ free_list # <<>> => PopPos = Head(free_list) /\ PopPos \in ToSet(free_list)
<1>1. Len(file) \in Nat /\ Len(free_list) \in Nat /\ MaxBlocks \in Nat
  BY LenProperties, MailAssumption
<1>2. CASE free_list = <<>>
  <2>1. PopPos = Len(file) + 1 /\ PopRest = <<>> /\ Len(free_list) = 0
    BY <1>2, EmptySeq DEF PopPos, PopRest
  <2>2. <<>> \in Seq(Positions) /\ ToSet(<<>>) = {} /\ Len(<<>>) = 0
    BY EmptySeq DEF ToSet
  <2> QED
    BY <1>1, <1>2, <2>1, <2>2 DEF Positions
<1>3. CASE free_list # <<>>
  <2>1. PopPos = Head(free_list) /\ PopRest = Tail(free_list)
    BY <1>3 DEF PopPos, PopRest
  <2>2. /\ Head(free_list) \in Positions /\ Head(free_list) \in ToSet(free_list)
        /\ Tail(free_list) \in Seq(Positions) /\ Len(Tail(free_list)) = Len(free_list) - 1
        /\ ToSet(Tail(free_list)) \subseteq ToSet(free_list)
    BY <1>3, TailFacts
  <2>3. Head(free_list) \in 1 .. Len(file)
    BY <2>2 DEF Blocks
  <2>4. Len(free_list) # 0
    BY <1>3, EmptySeq
  <2> QED
    BY <1>1, <1>3, <2>1, <2>2, <2>3, <2>4
<1> QED
  BY <1>2, <1>3

-----------------------------------------------------------------------------
(* Types and bounds *)

\* The parts of TypeOK and what they say of each place the server can be at.
LEMMA Typing ==
  ASSUME TypeOK
  PROVE  /\ file \in Seq(Block) /\ Len(file) \in Nat /\ Len(file) <= MaxBlocks
         /\ \A p \in Blocks : file[p] \in Block
         /\ free_list \in Seq(Positions) /\ Len(free_list) \in Nat
         /\ \A r \in Persons : mail_index[r] \in Seq(Positions)
         /\ At({"scan"}) => call = Scanning(call.pos) /\ call.pos \in 1 .. MaxBlocks + 1
         /\ At({"link"}) => /\ call = Linking(call.letter, call.part, call.pos)
                            /\ call.letter \in Letters /\ call.part \in Nat \ {0}
                            /\ call.pos \in Positions
                            /\ Parts[call.letter] \in Nat /\ To[call.letter] \in Persons
         /\ At({"fill"}) => /\ call = Filling(call.letter, call.part, call.pos)
                            /\ call.letter \in Letters /\ call.part \in Nat \ {0}
                            /\ call.pos \in Positions
                            /\ Parts[call.letter] \in Nat /\ To[call.letter] \in Persons
         /\ At({"receive"}) => call.to \in Persons
         /\ At({"follow"}) => /\ call = Following(call.to, call.text, call.pos)
                              /\ call.to \in Persons /\ call.text \in Seq(Text)
                              /\ call.pos \in Links
<1>1. file \in Seq(Block) /\ free_list \in Seq(Positions) /\ Len(file) <= MaxBlocks
  BY DEF TypeOK, Block
<1>2. Len(file) \in Nat /\ Len(free_list) \in Nat /\ \A p \in Blocks : file[p] \in Block
  BY <1>1, LenProperties DEF Blocks
<1>3. \A r \in Persons : mail_index[r] \in Seq(Positions)
  BY DEF TypeOK
<1>4. call \in CallType
  BY DEF TypeOK
<1>5. At({"scan"}) => call = Scanning(call.pos) /\ call.pos \in 1 .. MaxBlocks + 1
  BY <1>4 DEF At, CallType, Idle, Scanning
<1>6. At({"link", "fill"}) =>
        call \in [at : {"link", "fill"}, letter : Letters, part : Nat \ {0}, pos : Positions]
  BY <1>4 DEF At, CallType, Idle
<1>7. At({"receive"}) => call.to \in Persons
  BY <1>4 DEF At, CallType, Idle
<1>8. At({"follow"}) =>
        call \in [at : {"follow"}, to : Persons, text : Seq(Text), pos : Links]
  BY <1>4 DEF At, CallType, Idle
<1> QED
  BY <1>1, <1>2, <1>3, <1>5, <1>6, <1>7, <1>8, MailAssumption DEF At, Linking, Filling, Following

LEMMA InitTyped == Init => TypeOK /\ Bounds
<1> SUFFICES ASSUME Init PROVE TypeOK /\ Bounds
  OBVIOUS
<1>1. /\ file = <<>> /\ free_list = <<>> /\ mail_index = [r \in Persons |-> <<>>]
      /\ call = Idle /\ given = NoMail /\ torn = FALSE
  BY DEF Init
<1>2. \A S : <<>> \in Seq(S) /\ Len(<<>>) = 0
  BY EmptySeq
<1>3. ToSet(<<>>) = {}
  BY DEF ToSet
<1>4. TypeOK
  <2>1. /\ file \in Seq([kind : {"header", "data", "deleted"}, next : Links, text : Text])
        /\ Len(file) <= MaxBlocks /\ free_list \in Seq(Positions)
    BY <1>1, <1>2, MailAssumption
  <2>2. mail_index \in [Persons -> Seq(Positions)]
    BY <1>1, <1>2
  <2>3. call \in CallType
    BY <1>1 DEF CallType
  <2> QED
    BY <1>1, <2>1, <2>2, <2>3 DEF TypeOK
<1>5. Bounds
  BY <1>1, <1>2, <1>3 DEF Bounds, NextWithin, At, Idle
<1> QED
  BY <1>4, <1>5

\* The text read so far only grows by texts of the file.
LEMMA TextGrows ==
  ASSUME NEW t \in Seq(Text), NEW x \in Text
  PROVE  Append(t, x) \in Seq(Text) /\ <<x>> \in Seq(Text)
OBVIOUS

LEMMA StoreTyped ==
  ASSUME TypeOK, Bounds, NEW l \in Letters, StoreMail(l)
  PROVE  TypeOK' /\ Bounds'
<1>1. /\ call = Idle /\ free_list' = PopRest /\ mail_index' = Indexed(To[l], PopPos)
      /\ file' = Written(PopPos, Header(l, LAST_BLOCK))
      /\ call' = IF Parts[l] = 1 THEN Idle ELSE Linking(l, 1, PopPos)
      /\ given' = NoMail /\ torn' = torn
      /\ Len(file) + Parts[l] <= MaxBlocks + Len(free_list)
  BY DEF StoreMail
<1>2. /\ file \in Seq(Block) /\ Len(file) \in Nat /\ Len(file) <= MaxBlocks
      /\ free_list \in Seq(Positions) /\ Len(free_list) \in Nat
      /\ \A r \in Persons : mail_index[r] \in Seq(Positions)
      /\ MaxBlocks \in Nat /\ Parts[l] \in Nat \ {0} /\ To[l] \in Persons
  BY Typing, MailAssumption
<1>3. ToSet(free_list) \subseteq Blocks /\ \A r \in Persons : ToSet(mail_index[r]) \subseteq Blocks
  BY DEF Bounds
<1>4. /\ PopPos \in Positions /\ PopPos \in 1 .. Len(file) + 1
      /\ PopRest \in Seq(Positions) /\ ToSet(PopRest) \subseteq ToSet(free_list)
      /\ PopPos = Len(file) + 1 <=> free_list = <<>>
      /\ Len(PopRest) = IF free_list = <<>> THEN 0 ELSE Len(free_list) - 1
      /\ Len(free_list) = 0 <=> free_list = <<>>
  <2>1. Len(file) + 1 <= MaxBlocks + Len(free_list)
    BY <1>1, <1>2
  <2> QED
    BY <1>2, <1>3, <2>1, PopFacts
<1>5. /\ file' \in Seq(Block) /\ PopPos \in 1 .. Len(file')
      /\ Len(file') = IF free_list = <<>> THEN Len(file) + 1 ELSE Len(file)
  BY <1>1, <1>2, <1>4, BlocksMade, WrittenFacts, SMTT(40)
<1>6. Blocks \subseteq Blocks' /\ PopPos \in Blocks' /\ Len(file') <= MaxBlocks
  BY <1>1, <1>2, <1>4, <1>5 DEF Blocks
<1>7. ASSUME NEW r \in Persons
      PROVE  mail_index'[r] \in Seq(Positions) /\ ToSet(mail_index'[r]) \subseteq Blocks'
  <2>1. mail_index \in [Persons -> Seq(Positions)]
    BY DEF TypeOK
  <2>2. mail_index'[r] = IF r = To[l] THEN <<PopPos>> \o mail_index[r] ELSE mail_index[r]
    BY <1>1, <2>1 DEF Indexed
  <2>3. /\ <<PopPos>> \o mail_index[r] \in Seq(Positions)
        /\ ToSet(<<PopPos>> \o mail_index[r]) = {PopPos} \cup ToSet(mail_index[r])
    BY <1>2, <1>4, PushFacts
  <2> QED
    BY <1>2, <1>3, <1>6, <2>2, <2>3
<1>8. mail_index' \in [Persons -> Seq(Positions)]
  <2>1. mail_index' = [r \in Persons |-> mail_index'[r]]
    BY <1>1 DEF Indexed, TypeOK
  <2> QED
    BY <1>7, <2>1
<1>9. call' \in CallType
  BY <1>1, <1>4 DEF CallType, Linking
<1>10. TypeOK'
  BY <1>1, <1>4, <1>5, <1>6, <1>8, <1>9 DEF TypeOK, Block
<1>11. Bounds'
  <2>1. ToSet(free_list') \subseteq Blocks'
    BY <1>1, <1>3, <1>4, <1>6
  <2>0. NextWithin(file')
    BY <1>1, <1>2, <1>4, BlocksMade, WrittenWithin DEF Bounds
  <2>2. CASE Parts[l] = 1
    BY <1>1, <1>7, <2>0, <2>1, <2>2 DEF Bounds, At, Idle
  <2>3. CASE Parts[l] # 1
    <3>1. /\ call'.at = "link" /\ call'.letter = l /\ call'.part = 1 /\ call'.pos = PopPos
      BY <1>1, <2>3 DEF Linking
    <3>2. /\ 1 < Parts[l]
          /\ Len(file') + (Parts[l] - 1) <= MaxBlocks + Len(free_list')
      <4>1. CASE free_list = <<>>
        BY <1>1, <1>2, <1>4, <1>5, <2>3, <4>1
      <4>2. CASE free_list # <<>>
        BY <1>1, <1>2, <1>4, <1>5, <2>3, <4>2
      <4> QED
        BY <4>1, <4>2
    <3> QED
      BY <1>6, <1>7, <2>0, <2>1, <3>1, <3>2 DEF Bounds, At, Missing
  <2> QED
    BY <2>2, <2>3
<1> QED
  BY <1>10, <1>11

LEMMA LinkTyped ==
  ASSUME TypeOK, Bounds, LinkBlock
  PROVE  TypeOK' /\ Bounds'
<1>1. /\ call.at = "link" /\ free_list' = PopRest
      /\ file' = [file EXCEPT ![call.pos].next = PopPos]
      /\ call' = Filling(call.letter, call.part + 1, PopPos)
      /\ given' = NoMail /\ mail_index' = mail_index /\ torn' = torn
  BY DEF LinkBlock
<1>2. /\ file \in Seq(Block) /\ Len(file) \in Nat /\ Len(file) <= MaxBlocks
      /\ \A p \in Blocks : file[p] \in Block
      /\ free_list \in Seq(Positions) /\ Len(free_list) \in Nat /\ MaxBlocks \in Nat
      /\ call.letter \in Letters /\ call.part \in Nat \ {0} /\ Parts[call.letter] \in Nat
  BY <1>1, Typing, MailAssumption DEF At
<1>3. /\ ToSet(free_list) \subseteq Blocks /\ \A r \in Persons : ToSet(mail_index[r]) \subseteq Blocks
      /\ call.pos \in Blocks /\ call.part < Parts[call.letter]
      /\ Len(file) + (Parts[call.letter] - call.part) <= MaxBlocks + Len(free_list)
  BY <1>1 DEF Bounds, At, Missing
<1>4. /\ PopPos \in Positions /\ PopPos \in 1 .. Len(file) + 1
      /\ PopRest \in Seq(Positions) /\ ToSet(PopRest) \subseteq ToSet(free_list)
      /\ PopPos = Len(file) + 1 <=> free_list = <<>>
      /\ Len(PopRest) = IF free_list = <<>> THEN 0 ELSE Len(free_list) - 1
      /\ Len(free_list) = 0 <=> free_list = <<>>
  <2>1. Len(file) + 1 <= MaxBlocks + Len(free_list)
    BY <1>2, <1>3
  <2> QED
    BY <1>2, <1>3, <2>1, PopFacts
<1>5. file' \in Seq(Block) /\ Len(file') = Len(file) /\ NextWithin(file')
  <2>1. [file[call.pos] EXCEPT !.next = PopPos] \in Block
    <3>1. PopPos \in Links
      BY <1>4 DEF Links, Positions
    <3> QED
      BY <1>2, <1>3, <3>1, Relinked
  <2>2. file' = [file EXCEPT ![call.pos] = [file[call.pos] EXCEPT !.next = PopPos]]
    BY <1>1
  <2>3. /\ file' \in Seq(Block) /\ Len(file') = Len(file)
        /\ \A i \in 1 .. Len(file) : file'[i].next = IF i = call.pos THEN PopPos ELSE file[i].next
    BY <1>2, <1>3, <2>1, <2>2, ExceptSeq DEF Blocks, Block
  <2>4. \A i \in 1 .. Len(file) : file[i].next \in 0 .. Len(file) + 1
    BY DEF Bounds, NextWithin
  <2> QED
    BY <1>4, <2>3, <2>4 DEF NextWithin
<1>6. Blocks' = Blocks
  BY <1>5 DEF Blocks
<1>7. call' \in CallType /\ call'.part = call.part + 1 /\ call'.at = "fill"
      /\ call'.pos = PopPos /\ call'.letter = call.letter
  BY <1>1, <1>2, <1>4 DEF CallType, Filling
<1>8. TypeOK'
  BY <1>1, <1>2, <1>4, <1>5, <1>7 DEF TypeOK, Block
<1>9. Bounds'
  <2>1. /\ call.part + 1 <= Parts[call.letter]
        /\ Len(file) + (Parts[call.letter] - (call.part + 1)) <= MaxBlocks + Len(PopRest)
        /\ PopPos = Len(file) + 1
              => Len(file) + (Parts[call.letter] - (call.part + 1)) + 1 <= MaxBlocks + Len(PopRest)
    <3>1. call.part + 1 <= Parts[call.letter]
      BY <1>2, <1>3, <1>4
    <3>2. /\ Len(file) + (Parts[call.letter] - (call.part + 1)) <= MaxBlocks + Len(PopRest)
          /\ PopPos = Len(file) + 1
               => Len(file) + (Parts[call.letter] - (call.part + 1)) + 1 <= MaxBlocks + Len(PopRest)
      BY <1>2, <1>3, <1>4, SMTT(30)
    <3> QED
      BY <3>1, <3>2
  <2> QED
    BY <1>1, <1>3, <1>4, <1>5, <1>6, <1>7, <2>1 DEF Bounds, At, Missing
<1> QED
  BY <1>8, <1>9

LEMMA FillTyped ==
  ASSUME TypeOK, Bounds, FillBlock
  PROVE  TypeOK' /\ Bounds'
<1> DEFINE l == call.letter
           k == call.part
<1>1. /\ call.at = "fill" /\ file' = Written(call.pos, Data(l, k, LAST_BLOCK))
      /\ call' = IF k = Parts[l] THEN Idle ELSE Linking(l, k, call.pos)
      /\ given' = NoMail /\ free_list' = free_list /\ mail_index' = mail_index /\ torn' = torn
  BY DEF FillBlock
<1>2. /\ file \in Seq(Block) /\ Len(file) \in Nat /\ Len(file) <= MaxBlocks
      /\ Len(free_list) \in Nat /\ MaxBlocks \in Nat
      /\ l \in Letters /\ k \in Nat \ {0} /\ Parts[l] \in Nat /\ call.pos \in Positions
  BY <1>1, Typing, MailAssumption DEF At
<1>3. /\ ToSet(free_list) \subseteq Blocks /\ \A r \in Persons : ToSet(mail_index[r]) \subseteq Blocks
      /\ call.pos \in 1 .. Len(file) + 1 /\ k <= Parts[l]
      /\ Len(file) + (Parts[l] - k) <= MaxBlocks + Len(free_list)
      /\ call.pos = Len(file) + 1 => Len(file) + (Parts[l] - k) + 1 <= MaxBlocks + Len(free_list)
  BY <1>1 DEF Bounds, At, Missing
<1>4. /\ file' \in Seq(Block) /\ call.pos \in 1 .. Len(file')
      /\ Len(file') = IF call.pos = Len(file) + 1 THEN Len(file) + 1 ELSE Len(file)
  BY <1>1, <1>2, <1>3, BlocksMade, WrittenFacts
<1>5. Blocks \subseteq Blocks' /\ call.pos \in Blocks' /\ Len(file') <= MaxBlocks
  BY <1>2, <1>3, <1>4 DEF Blocks, Positions
<1>6. call' \in CallType
  BY <1>1, <1>2 DEF CallType, Linking
<1>7. TypeOK'
  BY <1>1, <1>4, <1>5, <1>6 DEF TypeOK, Block
<1>8. Bounds'
  <2>0. NextWithin(file')
    BY <1>1, <1>2, <1>3, BlocksMade, WrittenWithin DEF Bounds
  <2>1. CASE k = Parts[l]
    BY <1>1, <1>3, <1>5, <2>0, <2>1 DEF Bounds, At, Idle
  <2>2. CASE k # Parts[l]
    <3>1. call'.at = "link" /\ call'.letter = l /\ call'.part = k /\ call'.pos = call.pos
      BY <1>1, <2>2 DEF Linking
    <3>2. k < Parts[l] /\ Len(file') + (Parts[l] - k) <= MaxBlocks + Len(free_list)
      BY <1>2, <1>3, <1>4, <2>2
    <3> QED
      BY <1>1, <1>3, <1>5, <2>0, <3>1, <3>2 DEF Bounds, At, Missing
  <2> QED
    BY <2>1, <2>2
<1> QED
  BY <1>7, <1>8

LEMMA ReceiveTyped ==
  ASSUME TypeOK, Bounds, NEW r \in Persons, Receive(r)
  PROVE  TypeOK' /\ Bounds'
<1>1. /\ call' = Receiving(r) /\ mail_index[r] # <<>> /\ given' = NoMail
      /\ UNCHANGED <<file, free_list, mail_index, torn>>
  BY DEF Receive, has_mail
<1>2. call' \in CallType /\ call'.at = "receive" /\ call'.to = r
  BY <1>1 DEF CallType, Receiving
<1>3. TypeOK'
  BY <1>1, <1>2 DEF TypeOK
<1>4. Bounds'
  BY <1>1, <1>2 DEF Bounds, At, Blocks
<1> QED
  BY <1>3, <1>4

\* After a letter the postmaster asks has_mail again.
LEMMA NextMailFacts ==
  ASSUME NEW r \in Persons, NEW index
  PROVE  /\ NextMail(r, index) \in CallType
         /\ NextMail(r, index).at \in {"idle", "receive"}
         /\ NextMail(r, index).at = "receive" => NextMail(r, index).to = r /\ index[r] # <<>>
BY DEF NextMail, Receiving, Idle, CallType

\* Marking a block deleted and pushing it, the step both halves of read_delete make.
LEMMA FreeingTyped ==
  ASSUME TypeOK, Bounds, NEW p \in Blocks,
         file' = [file EXCEPT ![p] = Deleted(file[p])], Push(p)
  PROVE  /\ file' \in Seq(Block) /\ Len(file') = Len(file) /\ Blocks' = Blocks
         /\ free_list' \in Seq(Positions) /\ ToSet(free_list') = {p} \cup ToSet(free_list)
         /\ \A q \in Blocks : file'[q] = IF q = p THEN Deleted(file[p]) ELSE file[q]
         /\ NextWithin(file')
<1>1. /\ file \in Seq(Block) /\ Len(file) \in Nat /\ Len(file) <= MaxBlocks
      /\ file[p] \in Block /\ free_list \in Seq(Positions) /\ MaxBlocks \in Nat
  BY Typing, MailAssumption
<1>2. p \in 1 .. Len(file) /\ p \in Positions
  BY <1>1 DEF Blocks, Positions
<1>3. Deleted(file[p]) \in Block
  BY <1>1, BlocksMade
<1>4. /\ file' \in Seq(Block) /\ Len(file') = Len(file)
      /\ \A q \in 1 .. Len(file) : file'[q] = IF q = p THEN Deleted(file[p]) ELSE file[q]
  BY <1>1, <1>2, <1>3, ExceptSeq
<1>5. free_list' = <<p>> \o free_list
  BY DEF Push
<1>6. free_list' \in Seq(Positions) /\ ToSet(free_list') = {p} \cup ToSet(free_list)
  BY <1>1, <1>2, <1>5, PushFacts
<1>7. NextWithin(file')
  <2>1. \A i \in 1 .. Len(file) : file[i].next \in 0 .. Len(file) + 1
    BY DEF Bounds, NextWithin
  <2>2. Deleted(file[p]).next = 0
    BY <1>1, BlocksMade
  <2> QED
    BY <1>1, <1>4, <2>1, <2>2 DEF NextWithin
<1> QED
  BY <1>4, <1>6, <1>7 DEF Blocks

\* Taking the oldest position out of a box of the index.
LEMMA OldestTaken ==
  ASSUME TypeOK, NEW r \in Persons, mail_index[r] # <<>>,
         mail_index' = [mail_index EXCEPT ![r] = Front(@)]
  PROVE  /\ mail_index' \in [Persons -> Seq(Positions)]
         /\ Last(mail_index[r]) \in ToSet(mail_index[r])
         /\ \A q \in Persons : ToSet(mail_index'[q]) \subseteq ToSet(mail_index[q])
         /\ \A q \in Persons \ {r} : mail_index'[q] = mail_index[q]
         /\ IsInjective(mail_index[r]) =>
              /\ IsInjective(mail_index'[r])
              /\ ToSet(mail_index'[r]) = ToSet(mail_index[r]) \ {Last(mail_index[r])}
<1>1. mail_index \in [Persons -> Seq(Positions)] /\ mail_index[r] \in Seq(Positions)
  BY DEF TypeOK
<1>2. mail_index' = [q \in Persons |-> IF q = r THEN Front(mail_index[r]) ELSE mail_index[q]]
  BY <1>1
<1>3. /\ Last(mail_index[r]) \in ToSet(mail_index[r])
      /\ Front(mail_index[r]) \in Seq(Positions)
      /\ ToSet(Front(mail_index[r])) \subseteq ToSet(mail_index[r])
      /\ IsInjective(mail_index[r]) =>
           /\ IsInjective(Front(mail_index[r]))
           /\ ToSet(Front(mail_index[r])) = ToSet(mail_index[r]) \ {Last(mail_index[r])}
  BY <1>1, FrontFacts
<1> QED
  BY <1>1, <1>2, <1>3

LEMMA ReadTyped ==
  ASSUME TypeOK, Bounds, ReadHeader
  PROVE  TypeOK' /\ Bounds'
<1> DEFINE r == call.to
           pos == Last(mail_index[r])
           block == file[pos]
<1>1. /\ call.at = "receive" /\ mail_index' = [mail_index EXCEPT ![r] = Front(@)] /\ torn' = torn
  BY DEF ReadHeader
<1>2. r \in Persons /\ mail_index[r] # <<>>
  BY <1>1, Typing DEF At, Bounds
<1>3. /\ mail_index' \in [Persons -> Seq(Positions)] /\ pos \in ToSet(mail_index[r])
      /\ \A q \in Persons : ToSet(mail_index'[q]) \subseteq ToSet(mail_index[q])
  BY <1>1, <1>2, OldestTaken
<1>4. /\ \A q \in Persons : ToSet(mail_index'[q]) \subseteq Blocks
      /\ pos \in Blocks /\ ToSet(free_list) \subseteq Blocks
  BY <1>2, <1>3 DEF Bounds
<1>5. block \in Block
  BY <1>4, Typing
<1>6. CASE block.kind # "header"
  <2>1. /\ given' = [to |-> r, text |-> <<>>] /\ call' = NextMail(r, mail_index')
        /\ file' = file /\ free_list' = free_list
    BY <1>1, <1>6 DEF ReadHeader
  <2>2. /\ call' \in CallType /\ call'.at \in {"idle", "receive"}
        /\ call'.at = "receive" => call'.to = r /\ mail_index'[r] # <<>>
    BY <1>2, <2>1, NextMailFacts
  <2>3. given' \in [to : Persons, text : Seq(Text)]
    BY <1>2, <2>1, EmptySeq
  <2>4. TypeOK'
    BY <1>1, <1>3, <2>1, <2>2, <2>3 DEF TypeOK
  <2>5. Bounds'
    BY <1>4, <2>1, <2>2 DEF Bounds, At, Blocks
  <2> QED
    BY <2>4, <2>5
<1>7. CASE block.kind = "header"
  <2>1. /\ given' = NoMail /\ call' = Following(r, <<block.text>>, block.next)
        /\ file' = [file EXCEPT ![pos] = Deleted(block)] /\ Push(pos)
    BY <1>7 DEF ReadHeader
  <2>2. /\ file' \in Seq(Block) /\ Len(file') = Len(file) /\ Blocks' = Blocks
        /\ free_list' \in Seq(Positions) /\ ToSet(free_list') = {pos} \cup ToSet(free_list)
        /\ NextWithin(file')
    BY <1>4, <2>1, FreeingTyped
  <2>3. call' \in CallType /\ call'.at = "follow" /\ call'.pos \in 0 .. Len(file) + 1
    <3>1. <<block.text>> \in Seq(Text) /\ block.next \in Links /\ block.next \in 0 .. Len(file) + 1
      BY <1>4, <1>5 DEF Block, Blocks, Bounds, NextWithin
    <3> QED
      BY <1>2, <2>1, <3>1 DEF CallType, Following
  <2>4. TypeOK'
    <3>1. Len(file') <= MaxBlocks
      BY <2>2, Typing
    <3> QED
      BY <1>1, <1>3, <2>1, <2>2, <2>3, <3>1 DEF TypeOK, Block
  <2>5. Bounds'
    BY <1>4, <2>2, <2>3 DEF Bounds, At
  <2> QED
    BY <2>4, <2>5
<1> QED
  BY <1>6, <1>7

LEMMA FollowTyped ==
  ASSUME TypeOK, Bounds, FollowLink
  PROVE  TypeOK' /\ Bounds'
<1> DEFINE r == call.to
           block == file[call.pos]
<1>1. /\ call.at = "follow" /\ call.pos \in Blocks
      /\ file' = [file EXCEPT ![call.pos] = Deleted(block)] /\ Push(call.pos)
      /\ call' = IF block.kind = "data"
                 THEN Following(r, Append(call.text, block.text), block.next)
                 ELSE Looping(r)
      /\ given' = NoMail /\ mail_index' = mail_index /\ torn' = torn
  BY DEF FollowLink, Blocks
<1>2. r \in Persons /\ call.text \in Seq(Text) /\ block \in Block
  BY <1>1, Typing DEF At
<1>3. /\ file' \in Seq(Block) /\ Len(file') = Len(file) /\ Blocks' = Blocks
      /\ free_list' \in Seq(Positions) /\ ToSet(free_list') = {call.pos} \cup ToSet(free_list)
      /\ NextWithin(file')
  BY <1>1, FreeingTyped
<1>4. /\ call' \in CallType /\ call'.at \in {"follow", "loop"}
      /\ call'.at = "follow" => call'.pos \in 0 .. Len(file) + 1
  <2>1. /\ Append(call.text, block.text) \in Seq(Text)
        /\ block.next \in Links /\ block.next \in 0 .. Len(file) + 1
    BY <1>1, <1>2, TextGrows DEF Block, Blocks, Bounds, NextWithin
  <2> QED
    BY <1>1, <1>2, <2>1 DEF CallType, Following, Looping
<1>5. TypeOK'
  <2>1. Len(file') <= MaxBlocks
    BY <1>3, Typing
  <2> QED
    BY <1>1, <1>3, <1>4, <2>1 DEF TypeOK, Block
<1>6. Bounds'
  BY <1>1, <1>3, <1>4 DEF Bounds, At
<1> QED
  BY <1>5, <1>6

LEMMA NothingTyped ==
  ASSUME TypeOK, Bounds, FollowIntoNothing
  PROVE  TypeOK' /\ Bounds'
<1> DEFINE r == call.to
<1>1. /\ call.at = "follow" /\ call.pos > Len(file) /\ Push(call.pos)
      /\ given' = NoMail /\ mail_index' = mail_index /\ torn' = torn
  BY DEF FollowIntoNothing
<1>2. PICK garbage \in Text, next \in 0 .. Len(file) + 1 :
        /\ file' = Append(file, Deleted([kind |-> "data", next |-> next, text |-> garbage]))
        /\ \/ call' = Following(r, Append(call.text, garbage), next)
           \/ call' = Looping(r)
  BY DEF FollowIntoNothing
<1>3. /\ r \in Persons /\ call.text \in Seq(Text) /\ call.pos \in Links
      /\ file \in Seq(Block) /\ Len(file) \in Nat /\ Len(file) <= MaxBlocks
      /\ free_list \in Seq(Positions) /\ MaxBlocks \in Nat /\ call.pos \in 0 .. Len(file) + 1
  BY <1>1, Typing, MailAssumption DEF At, Bounds
<1>4. /\ call.pos = Len(file) + 1 /\ Len(file) + 1 <= MaxBlocks
      /\ next \in Links /\ call.pos \in Positions
  BY <1>1, <1>3 DEF Links, Positions
<1>5. [kind |-> "data", next |-> next, text |-> garbage] \in Block
  BY <1>4 DEF Block
<1>6. file' \in Seq(Block) /\ Len(file') = Len(file) + 1 /\ NextWithin(file')
  <2> DEFINE b == Deleted([kind |-> "data", next |-> next, text |-> garbage])
  <2>1. b \in Block /\ b.next = 0 /\ file' = Append(file, b)
    BY <1>2, <1>5, BlocksMade
  <2> HIDE DEF b
  <2>2. file' = Written(Len(file) + 1, b) /\ Len(file) + 1 \in 1 .. Len(file) + 1
    BY <1>3, <2>1 DEF Written
  <2>3. NextWithin(Written(Len(file) + 1, b))
    BY <1>3, <2>1, <2>2, WrittenWithin DEF Bounds
  <2>4. file' \in Seq(Block) /\ Len(file') = Len(file) + 1
    BY <1>3, <2>1
  <2> QED
    BY <2>2, <2>3, <2>4
<1>7. free_list' \in Seq(Positions) /\ ToSet(free_list') = {call.pos} \cup ToSet(free_list)
  BY <1>1, <1>3, <1>4, PushFacts DEF Push
<1>8. /\ call' \in CallType /\ call'.at \in {"follow", "loop"}
      /\ call'.at = "follow" => call'.pos = next
  <2>1. Append(call.text, garbage) \in Seq(Text)
    BY <1>3, TextGrows
  <2>2. CASE call' = Following(r, Append(call.text, garbage), next)
    BY <1>3, <1>4, <2>1, <2>2 DEF CallType, Following
  <2>3. CASE call' = Looping(r)
    BY <1>3, <2>3 DEF CallType, Looping
  <2> QED
    BY <1>2, <2>2, <2>3
<1>9. TypeOK'
  BY <1>1, <1>3, <1>4, <1>6, <1>7, <1>8 DEF TypeOK, Block
<1>10. Bounds'
  <2>1. /\ ToSet(free_list') \subseteq Blocks'
        /\ \A q \in Persons : ToSet(mail_index'[q]) \subseteq Blocks'
    <3>1. Blocks \subseteq Blocks' /\ call.pos \in Blocks'
      BY <1>3, <1>4, <1>6 DEF Blocks
    <3>2. /\ ToSet(free_list) \subseteq Blocks
          /\ \A q \in Persons : ToSet(mail_index[q]) \subseteq Blocks
      BY DEF Bounds
    <3> QED
      BY <1>1, <1>7, <3>1, <3>2
  <2>2. call'.at = "follow" => call'.pos \in 0 .. Len(file') + 1
    BY <1>3, <1>6, <1>8
  <2> QED
    BY <1>6, <1>8, <2>1, <2>2 DEF Bounds, At
<1> QED
  BY <1>9, <1>10

LEMMA HandTyped ==
  ASSUME TypeOK, Bounds, HandMail
  PROVE  TypeOK' /\ Bounds'
<1>1. /\ call.at = "follow" /\ given' = [to |-> call.to, text |-> call.text]
      /\ call' = NextMail(call.to, mail_index)
      /\ UNCHANGED <<file, free_list, mail_index, torn>>
  BY DEF HandMail
<1>2. call.to \in Persons /\ call.text \in Seq(Text)
  BY <1>1, Typing DEF At
<1>3. /\ call' \in CallType /\ call'.at \in {"idle", "receive"}
      /\ call'.at = "receive" => call'.to = call.to /\ mail_index[call.to] # <<>>
  BY <1>1, <1>2, NextMailFacts
<1>4. TypeOK'
  BY <1>1, <1>2, <1>3 DEF TypeOK
<1>5. Bounds'
  BY <1>1, <1>3 DEF Bounds, At, Blocks
<1> QED
  BY <1>4, <1>5

LEMMA DieTyped ==
  ASSUME TypeOK, Bounds, Die
  PROVE  TypeOK' /\ Bounds'
<1>1. /\ torn' = (torn \/ call.at = "fill") /\ free_list' = <<>>
      /\ mail_index' = [r \in Persons |-> <<>>] /\ call' = Scanning(1)
      /\ given' = NoMail /\ file' = file
  BY DEF Die
<1>2. <<>> \in Seq(Positions) /\ ToSet(<<>>) = {}
  BY EmptySeq DEF ToSet
<1>3. call' \in CallType /\ call'.at = "scan" /\ call'.pos = 1
  BY <1>1, MailAssumption DEF CallType, Scanning
<1>4. TypeOK'
  <2>1. torn' \in BOOLEAN
    BY <1>1 DEF TypeOK
  <2>2. mail_index' \in [Persons -> Seq(Positions)]
    BY <1>1, <1>2
  <2> QED
    BY <1>1, <1>2, <1>3, <2>1, <2>2 DEF TypeOK
<1>5. Bounds'
  <2>1. 1 \in 1 .. Len(file) + 1
    BY Typing
  <2> QED
    BY <1>1, <1>2, <1>3, <2>1 DEF Bounds, At
<1> QED
  BY <1>4, <1>5

LEMMA ScanTyped ==
  ASSUME TypeOK, Bounds, ScanBlock
  PROVE  TypeOK' /\ Bounds'
<1> DEFINE p == call.pos
           a == To[file[p].text.letter]
<1>1. /\ call.at = "scan" /\ p <= Len(file) /\ call' = Scanning(p + 1)
      /\ mail_index' = IF file[p].kind = "header" THEN Indexed(a, p) ELSE mail_index
      /\ file' = file /\ given' = given /\ torn' = torn
      /\ free_list' = IF file[p].kind = "deleted" THEN <<p>> \o free_list ELSE free_list
  BY DEF ScanBlock, Push
<1>2. /\ p \in 1 .. MaxBlocks + 1 /\ Len(file) \in Nat /\ Len(file) <= MaxBlocks /\ MaxBlocks \in Nat
      /\ free_list \in Seq(Positions) /\ mail_index \in [Persons -> Seq(Positions)]
  BY <1>1, Typing, MailAssumption DEF At, TypeOK
<1>3. p \in Blocks /\ p \in Positions /\ p + 1 \in 1 .. Len(file) + 1 /\ p + 1 \in 1 .. MaxBlocks + 1
  BY <1>1, <1>2 DEF Blocks, Positions
<1>4. a \in Persons
  BY <1>3, Typing, Texts, MailAssumption DEF Block
<1>5. /\ free_list' \in Seq(Positions) /\ ToSet(free_list') \subseteq {p} \cup ToSet(free_list)
  BY <1>1, <1>2, <1>3, PushFacts
<1>6. ASSUME NEW r \in Persons
      PROVE  /\ mail_index'[r] \in Seq(Positions)
             /\ ToSet(mail_index'[r]) \subseteq {p} \cup ToSet(mail_index[r])
  <2>1. mail_index'[r] = IF file[p].kind = "header" /\ r = a THEN <<p>> \o mail_index[r] ELSE mail_index[r]
    BY <1>1, <1>2 DEF Indexed
  <2>2. mail_index[r] \in Seq(Positions)
    BY <1>2
  <2> QED
    BY <1>3, <2>1, <2>2, PushFacts
<1>7. mail_index' \in [Persons -> Seq(Positions)]
  <2>1. mail_index' = [r \in Persons |-> mail_index'[r]]
    BY <1>1, <1>2 DEF Indexed
  <2> QED
    BY <1>6, <2>1
<1>8. call' \in CallType /\ call'.at = "scan" /\ call'.pos = p + 1
  BY <1>1, <1>3 DEF CallType, Scanning
<1>9. TypeOK'
  BY <1>1, <1>5, <1>7, <1>8 DEF TypeOK
<1>10. Bounds'
  BY <1>1, <1>3, <1>5, <1>6, <1>8 DEF Bounds, At, Blocks
<1> QED
  BY <1>9, <1>10

LEMMA ScannedTyped ==
  ASSUME TypeOK, Bounds, Scanned
  PROVE  TypeOK' /\ Bounds'
BY DEF Scanned, TypeOK, Bounds, CallType, At, Idle, Blocks

\* Types and bounds survive every step.
LEMMA StepTyped ==
  ASSUME TypeOK, Bounds, [Next]_vars
  PROVE  TypeOK' /\ Bounds'
<1>1. CASE UNCHANGED vars
  BY <1>1 DEF vars, TypeOK, Bounds, At, Blocks, Missing
<1>2. ASSUME NEW l \in Letters, StoreMail(l)  PROVE TypeOK' /\ Bounds'
  BY <1>2, StoreTyped
<1>3. ASSUME NEW r \in Persons, Receive(r)  PROVE TypeOK' /\ Bounds'
  BY <1>3, ReceiveTyped
<1> QED
  BY <1>1, <1>2, <1>3, LinkTyped, FillTyped, ReadTyped, FollowTyped, NothingTyped, HandTyped,
     DieTyped, ScanTyped, ScannedTyped DEF Next

\* Every part of the mail system keeps its type, and the file its bound MaxBlocks, also
\* after a crash that leaves a link to a block which is not there (push_free_list,
\* index_mail, store_mail, read_delete).
THEOREM TypeCorrect == Spec => []TypeOK
<1>1. Init => TypeOK /\ Bounds
  BY InitTyped
<1>2. TypeOK /\ Bounds /\ [Next]_vars => TypeOK' /\ Bounds'
  BY StepTyped
<1> QED
  BY <1>1, <1>2, PTL DEF Spec

-----------------------------------------------------------------------------
(* Lists, chains and letters *)

\* What the call in progress knows of the file: the block it will link is the
\* part it wrote last, the block it will fill is free but for the link to it, and
\* the block it will read is the next part of what it has read.
InHand ==
  ~torn =>
    /\ \A p \in Blocks : file[p].kind = "header" => file[p].text.part = 1
    /\ At({"link"}) =>
         /\ Live(call.pos) /\ file[call.pos].next = 0
         /\ file[call.pos].text = [letter |-> call.letter, part |-> call.part]
    /\ At({"fill"}) =>
         /\ call.pos \in Blocks => ~Live(call.pos)
         /\ \A p \in Blocks :
              Names(p, call.pos) => /\ file[p].text.letter = call.letter
                                    /\ file[p].text.part + 1 = call.part
    /\ At({"follow"}) =>
         /\ call.text # <<>>
         /\ \A k \in 1 .. Len(call.text) :
              call.text[k] = [letter |-> call.text[1].letter, part |-> k]
         /\ To[call.text[1].letter] = call.to
         /\ call.pos # 0 =>
              /\ call.pos \in Blocks /\ file[call.pos].kind = "data"
              /\ file[call.pos].text = [letter |-> call.text[1].letter,
                                        part |-> Len(call.text) + 1]

Sound == FreeListExact /\ IndexExact /\ ChainsApart /\ InHand /\ OwnLetter

\* A block taken from the free list, or from the end of the file, is nobody's.
LEMMA PopUnnamed ==
  ASSUME TypeOK, Bounds, Sound, ~torn, ~At({"scan", "fill"}),
         Len(file) + 1 <= MaxBlocks + Len(free_list)
  PROVE  /\ PopPos \in Positions /\ PopPos \in 1 .. Len(file) + 1
         /\ PopPos \in Blocks => ~Live(PopPos)
         /\ \A p \in Blocks : ~Names(p, PopPos)
         /\ \A r \in Persons : PopPos \notin ToSet(mail_index[r])
         /\ IsInjective(PopRest)
         /\ ToSet(PopRest) = {p \in Blocks : ~Live(p)} \ {PopPos}
<1>1. Reserved = {} /\ Seen = Blocks
  BY DEF Reserved, Seen, At
<1>2. /\ file \in Seq(Block) /\ Len(file) \in Nat /\ Len(file) <= MaxBlocks
      /\ free_list \in Seq(Positions) /\ ToSet(free_list) \subseteq Blocks
  BY Typing DEF Bounds
<1>3. IsInjective(free_list) /\ ToSet(free_list) = {p \in Blocks : ~Live(p)}
  BY <1>1 DEF Sound, FreeListExact
<1>4. /\ PopPos \in Positions /\ PopPos \in 1 .. Len(file) + 1
      /\ PopPos = Len(file) + 1 <=> free_list = <<>>
      /\ free_list # <<>> => PopPos = Head(free_list) /\ PopPos \in ToSet(free_list)
  BY <1>2, PopFacts
<1>5. PopPos \in Blocks => ~Live(PopPos)
  BY <1>2, <1>3, <1>4 DEF Blocks
<1>6. \A p \in Blocks : ~Names(p, PopPos)
  <2>1. ASSUME NEW p \in Blocks, Names(p, PopPos)  PROVE FALSE
    <3>1. PopPos \in Blocks /\ file[PopPos].kind = "data"
      BY <1>1, <1>4, <2>1 DEF Sound, ChainsApart
    <3> QED
      BY <1>5, <3>1 DEF Live
  <2> QED
    BY <2>1
<1>7. \A r \in Persons : PopPos \notin ToSet(mail_index[r])
  <2>1. \A r \in Persons : ToSet(mail_index[r]) = HeadersTo(r)
    BY DEF Sound, IndexExact
  <2>2. \A r \in Persons : \A p \in HeadersTo(r) : p \in Blocks /\ Live(p)
    BY <1>1 DEF HeadersTo, Live
  <2> QED
    BY <1>5, <2>1, <2>2
<1>8. IsInjective(PopRest) /\ ToSet(PopRest) = ToSet(free_list) \ {PopPos}
  <2>1. CASE free_list = <<>>
    <3>1. PopRest = <<>> /\ ToSet(<<>>) = {} /\ IsInjective(<<>>)
      BY <2>1 DEF PopRest, ToSet, IsInjective
    <3> QED
      BY <2>1, <3>1
  <2>2. CASE free_list # <<>>
    <3>1. PopRest = Tail(free_list) /\ PopPos = Head(free_list)
      BY <1>4, <2>2 DEF PopRest
    <3> QED
      BY <1>2, <1>3, <2>2, <3>1, TailFacts
  <2> QED
    BY <2>1, <2>2
<1> QED
  BY <1>3, <1>4, <1>5, <1>6, <1>7, <1>8

LEMMA StoreSound ==
  ASSUME TypeOK, Bounds, Sound, ~torn', NEW l \in Letters, StoreMail(l)
  PROVE  Sound'
<1> DEFINE q == PopPos
           h == Header(l, LAST_BLOCK)
<1>1. /\ call = Idle /\ free_list' = PopRest /\ mail_index' = Indexed(To[l], q)
      /\ file' = Written(q, h)
      /\ call' = IF Parts[l] = 1 THEN Idle ELSE Linking(l, 1, q)
      /\ given' = NoMail /\ ~torn
      /\ Len(file) + Parts[l] <= MaxBlocks + Len(free_list)
  BY DEF StoreMail
<1>2. /\ file \in Seq(Block) /\ Len(file) \in Nat /\ Len(free_list) \in Nat /\ MaxBlocks \in Nat
      /\ Parts[l] \in Nat \ {0} /\ To[l] \in Persons
  BY Typing, MailAssumption
<1>3. /\ q \in Positions /\ q \in 1 .. Len(file) + 1 /\ (q \in Blocks => ~Live(q))
      /\ \A p \in Blocks : ~Names(p, q)
      /\ \A r \in Persons : q \notin ToSet(mail_index[r])
      /\ IsInjective(PopRest) /\ ToSet(PopRest) = {p \in Blocks : ~Live(p)} \ {q}
  <2>1. ~At({"scan", "fill"})
    BY <1>1 DEF At, Idle
  <2>2. Len(file) + 1 <= MaxBlocks + Len(free_list)
    BY <1>1, <1>2
  <2> QED
    BY <1>1, <2>1, <2>2, PopUnnamed
<1>4. /\ h \in Block /\ h.kind = "header" /\ h.next = 0
      /\ h.text = [letter |-> l, part |-> 1]
  BY BlocksMade DEF Header, LAST_BLOCK
<1>5. Reserved = {} /\ Seen = Blocks /\ Reserved' = {} /\ Seen' = Blocks'
  BY <1>1 DEF Reserved, Seen, At, Idle, Linking
<1> HIDE DEF q, h
<1>6. /\ Blocks' = Blocks \cup {q}
      /\ \A p \in Blocks' : file'[p] = IF p = q THEN h ELSE file[p]
  BY <1>1, <1>2, <1>3, <1>4, WrittenBlocks
<1>7. FreeListExact'
  <2>1. {p \in Blocks' : file'[p].kind = "deleted"} = {p \in Blocks : ~Live(p)} \ {q}
    BY <1>4, <1>6 DEF Live
  <2> QED
    BY <1>1, <1>3, <1>5, <2>1 DEF FreeListExact, Live
<1>8. IndexExact'
  <2>1. ASSUME NEW r \in Persons
        PROVE  IsInjective(mail_index'[r]) /\ ToSet(mail_index'[r]) = HeadersTo(r)'
    <3>1. /\ IsInjective(mail_index[r]) /\ ToSet(mail_index[r]) = HeadersTo(r)
          /\ mail_index[r] \in Seq(Positions)
      BY <1>1, Typing DEF Sound, IndexExact
    <3>2. mail_index'[r] = IF r = To[l] THEN <<q>> \o mail_index[r] ELSE mail_index[r]
      BY <1>1 DEF Indexed, TypeOK
    <3>3. HeadersTo(r)' = HeadersTo(r) \cup (IF r = To[l] THEN {q} ELSE {})
      <4>1. HeadersTo(r)' = {p \in Blocks' : file'[p].kind = "header" /\ To[file'[p].text.letter] = r}
        BY <1>5 DEF HeadersTo
      <4>2. HeadersTo(r) = {p \in Blocks : file[p].kind = "header" /\ To[file[p].text.letter] = r}
        BY <1>5 DEF HeadersTo
      <4>3. q \in Blocks => file[q].kind = "deleted"
        BY <1>3 DEF Live
      <4> QED
        BY <1>4, <1>6, <4>1, <4>2, <4>3
    <3>4. CASE r = To[l]
      BY <1>3, <3>1, <3>2, <3>3, <3>4, PushFacts
    <3>5. CASE r # To[l]
      BY <3>1, <3>2, <3>3, <3>5
    <3> QED
      BY <3>4, <3>5
  <2> QED
    BY <2>1 DEF IndexExact
<1>9. ChainsApart'
  <2>1. \A p \in Blocks', t \in Positions : Names(p, t)' => p \in Blocks /\ p # q /\ Names(p, t)
    <3>1. 0 \notin Positions
      BY <1>2 DEF Positions
    <3> QED
      BY <1>4, <1>6, <3>1 DEF Names, Live
  <2>2. \A p \in Blocks, t \in Positions :
          Names(p, t) => /\ t \in Blocks /\ t # q /\ file[t].kind = "data"
                         /\ file[t].text = [letter |-> file[p].text.letter,
                                            part |-> file[p].text.part + 1]
    BY <1>1, <1>3, <1>5 DEF Sound, ChainsApart
  <2>3. \A p \in Blocks, t \in Positions :
          p # q /\ Names(p, t) =>
             /\ t \in Blocks' /\ file'[t].kind = "data"
             /\ file'[t].text = [letter |-> file'[p].text.letter,
                                 part |-> file'[p].text.part + 1]
    BY <1>6, <2>2
  <2>4. \A p1, p2 \in Blocks, t \in Positions : Names(p1, t) /\ Names(p2, t) => p1 = p2
    BY <1>1 DEF Sound, ChainsApart
  <2>5. ~(call'.at \in {"follow"})
    BY <1>1 DEF Idle, Linking
  <2> QED
    BY <2>1, <2>3, <2>4, <2>5 DEF ChainsApart, At
<1>10. InHand'
  <2>1. \A p \in Blocks' : file'[p].kind = "header" => file'[p].text.part = 1
    BY <1>1, <1>4, <1>6 DEF Sound, InHand
  <2>2. ~(call'.at \in {"follow", "fill"})
    BY <1>1 DEF Idle, Linking
  <2>3. call'.at = "link" => call'.letter = l /\ call'.part = 1 /\ call'.pos = q
    BY <1>1 DEF Idle, Linking
  <2>4. file'[q] = h /\ q \in Blocks'
    BY <1>6
  <2> QED
    BY <1>4, <2>1, <2>2, <2>3, <2>4 DEF InHand, At, Live
<1>11. OwnLetter'
  BY <1>1 DEF OwnLetter, OwnText
<1> QED
  BY <1>7, <1>8, <1>9, <1>10, <1>11 DEF Sound

LEMMA LinkSound ==
  ASSUME TypeOK, Bounds, Sound, ~torn', LinkBlock
  PROVE  Sound'
<1> DEFINE q == PopPos
           c == call.pos
<1>1. /\ call.at = "link" /\ free_list' = PopRest /\ mail_index' = mail_index
      /\ file' = [file EXCEPT ![c].next = q]
      /\ call' = Filling(call.letter, call.part + 1, q)
      /\ given' = NoMail /\ ~torn
  BY DEF LinkBlock
<1>2. /\ file \in Seq(Block) /\ Len(file) \in Nat /\ Len(free_list) \in Nat /\ MaxBlocks \in Nat
      /\ c \in Blocks /\ call.part \in Nat \ {0} /\ Parts[call.letter] \in Nat
      /\ call.part < Parts[call.letter]
      /\ Len(file) + (Parts[call.letter] - call.part) <= MaxBlocks + Len(free_list)
      /\ \A p \in Blocks : file[p] \in Block
  BY <1>1, Typing, MailAssumption DEF At, Bounds, Missing
<1>3. /\ q \in Positions /\ q \in 1 .. Len(file) + 1 /\ (q \in Blocks => ~Live(q))
      /\ \A p \in Blocks : ~Names(p, q)
      /\ IsInjective(PopRest) /\ ToSet(PopRest) = {p \in Blocks : ~Live(p)} \ {q}
  <2>1. ~At({"scan", "fill"})
    BY <1>1 DEF At
  <2>2. Len(file) + 1 <= MaxBlocks + Len(free_list)
    BY <1>2
  <2> QED
    BY <1>1, <2>1, <2>2, PopUnnamed
<1>4. /\ Live(c) /\ file[c].next = 0
      /\ file[c].text = [letter |-> call.letter, part |-> call.part]
  BY <1>1 DEF Sound, InHand, At
<1>5. /\ Reserved = {} /\ Seen = Blocks /\ Reserved' = {q} /\ Seen' = Blocks'
      /\ call'.at = "fill" /\ call'.pos = q /\ call'.letter = call.letter
      /\ call'.part = call.part + 1
  BY <1>1 DEF Reserved, Seen, At, Filling
<1> HIDE DEF q
<1>6. /\ Blocks' = Blocks
      /\ \A p \in Blocks :
           /\ file'[p].kind = file[p].kind /\ file'[p].text = file[p].text
           /\ file'[p].next = IF p = c THEN q ELSE file[p].next
  <2>1. [file[c] EXCEPT !.next = q] \in Block
    BY <1>2, <1>3, Relinked DEF Links, Positions
  <2>2. file' = [file EXCEPT ![c] = [file[c] EXCEPT !.next = q]]
    BY <1>1
  <2>3. /\ Len(file') = Len(file)
        /\ \A p \in 1 .. Len(file) : file'[p] = IF p = c THEN [file[c] EXCEPT !.next = q] ELSE file[p]
    BY <1>2, <2>1, <2>2, ExceptSeq DEF Blocks
  <2>4. q \in Links
    BY <1>3 DEF Links, Positions
  <2>5. /\ [file[c] EXCEPT !.next = q].kind = file[c].kind
        /\ [file[c] EXCEPT !.next = q].text = file[c].text
        /\ [file[c] EXCEPT !.next = q].next = q
    BY <1>2, <2>4, Relinked
  <2> QED
    BY <2>3, <2>5 DEF Blocks
<1>7. FreeListExact'
  <2>1. {p \in Blocks' : file'[p].kind # "deleted"} = {p \in Blocks : Live(p)}
    BY <1>6 DEF Live
  <2>2. {p \in Blocks' : ~(file'[p].kind # "deleted")} = {p \in Blocks : ~Live(p)}
    BY <1>6 DEF Live
  <2> QED
    BY <1>1, <1>3, <1>5, <2>2 DEF FreeListExact, Live
<1>8. IndexExact'
  <2>1. ASSUME NEW r \in Persons  PROVE HeadersTo(r)' = HeadersTo(r)
    BY <1>5, <1>6 DEF HeadersTo
  <2> QED
    BY <1>1, <2>1 DEF Sound, IndexExact
<1>9. \A p \in Blocks, t \in Positions :
        Names(p, t)' => (p = c /\ t = q) \/ (p # c /\ t # q /\ Names(p, t))
  BY <1>3, <1>6 DEF Names, Live
<1>10. ChainsApart'
  <2>1. \A p \in Blocks, t \in Positions :
          Names(p, t) => /\ t \in Blocks /\ file[t].kind = "data"
                         /\ file[t].text = [letter |-> file[p].text.letter,
                                            part |-> file[p].text.part + 1]
    BY <1>1, <1>5 DEF Sound, ChainsApart
  <2>2. \A p1, p2 \in Blocks, t \in Positions : Names(p1, t) /\ Names(p2, t) => p1 = p2
    BY <1>1 DEF Sound, ChainsApart
  <2>3. \A p \in Blocks, t \in Positions \ {q} :
          Names(p, t)' => /\ t \in Blocks /\ file'[t].kind = "data"
                          /\ file'[t].text = [letter |-> file'[p].text.letter,
                                              part |-> file'[p].text.part + 1]
    BY <1>6, <1>9, <2>1
  <2>4. \A p1, p2 \in Blocks, t \in Positions : Names(p1, t)' /\ Names(p2, t)' => p1 = p2
    BY <1>9, <2>2
  <2> QED
    BY <1>5, <1>6, <2>3, <2>4 DEF ChainsApart, At
<1>11. InHand'
  <2>1. \A p \in Blocks' : file'[p].kind = "header" => file'[p].text.part = 1
    BY <1>1, <1>6 DEF Sound, InHand
  <2>2. q \in Blocks' => file'[q].kind = "deleted"
    BY <1>3, <1>6 DEF Live
  <2>3. \A p \in Blocks' : file'[p].kind # "deleted" /\ file'[p].next = q => p = c
    <3>1. \A p \in Blocks : ~(file[p].kind # "deleted" /\ file[p].next = q)
      BY <1>3 DEF Names, Live
    <3> QED
      BY <1>6, <3>1
  <2>4. file'[c].text.letter = call.letter /\ file'[c].text.part + 1 = call.part + 1
    BY <1>2, <1>4, <1>6
  <2>5. \A p \in Blocks' :
          file'[p].kind # "deleted" /\ file'[p].next = q =>
             /\ file'[p].text.letter = call.letter
             /\ file'[p].text.part + 1 = call.part + 1
    BY <2>3, <2>4
  <2> QED
    BY <1>5, <2>1, <2>2, <2>5 DEF InHand, At, Names, Live
<1>12. OwnLetter'
  BY <1>1 DEF OwnLetter, OwnText
<1> QED
  BY <1>7, <1>8, <1>10, <1>11, <1>12 DEF Sound

LEMMA FillSound ==
  ASSUME TypeOK, Bounds, Sound, ~torn', FillBlock
  PROVE  Sound'
<1> DEFINE l == call.letter
           k == call.part
           q == call.pos
           b == Data(l, k, LAST_BLOCK)
<1>1. /\ call.at = "fill" /\ file' = Written(q, b)
      /\ call' = IF k = Parts[l] THEN Idle ELSE Linking(l, k, q)
      /\ given' = NoMail /\ free_list' = free_list /\ mail_index' = mail_index /\ ~torn
  BY DEF FillBlock
<1>2. /\ file \in Seq(Block) /\ l \in Letters /\ k \in Nat \ {0} /\ k <= Parts[l]
      /\ q \in 1 .. Len(file) + 1 /\ q \in Positions /\ 0 \notin Positions
  BY <1>1, Typing DEF At, Bounds, Positions
<1>3. /\ b \in Block /\ b.kind = "data" /\ b.next = 0
      /\ b.text = [letter |-> l, part |-> k]
  BY <1>2, BlocksMade DEF Data, LAST_BLOCK
<1>4. /\ q \in Blocks => ~Live(q)
      /\ \A p \in Blocks :
           Names(p, q) => file[p].text.letter = l /\ file[p].text.part + 1 = k
  BY <1>1 DEF Sound, InHand, At
<1>5. /\ Reserved = {q} /\ Seen = Blocks /\ Reserved' = {} /\ Seen' = Blocks'
  BY <1>1 DEF Reserved, Seen, At, Idle, Linking
<1> HIDE DEF b
<1>6. /\ Blocks' = Blocks \cup {q}
      /\ \A p \in Blocks' : file'[p] = IF p = q THEN b ELSE file[p]
  BY <1>1, <1>2, <1>3, WrittenBlocks
<1>7. FreeListExact'
  <2>1. {p \in Blocks' : file'[p].kind = "deleted"} = {p \in Blocks : ~Live(p)} \ {q}
    BY <1>3, <1>6 DEF Live
  <2> QED
    BY <1>1, <1>5, <2>1 DEF Sound, FreeListExact, Live
<1>8. IndexExact'
  <2>1. q \in Blocks => file[q].kind = "deleted"
    BY <1>4 DEF Live
  <2>2. ASSUME NEW r \in Persons  PROVE HeadersTo(r)' = HeadersTo(r)
    BY <1>3, <1>5, <1>6, <2>1 DEF HeadersTo
  <2> QED
    BY <1>1, <2>2 DEF Sound, IndexExact
<1>9. \A p \in Blocks', t \in Positions : Names(p, t)' => p \in Blocks /\ p # q /\ Names(p, t)
  BY <1>2, <1>3, <1>6 DEF Names, Live
<1>10. ChainsApart'
  <2>1. \A p \in Blocks, t \in Positions \ {q} :
          Names(p, t) => /\ t \in Blocks /\ file[t].kind = "data"
                         /\ file[t].text = [letter |-> file[p].text.letter,
                                            part |-> file[p].text.part + 1]
    BY <1>1, <1>5 DEF Sound, ChainsApart
  <2>2. \A p1, p2 \in Blocks, t \in Positions : Names(p1, t) /\ Names(p2, t) => p1 = p2
    BY <1>1 DEF Sound, ChainsApart
  <2>3. ASSUME NEW p \in Blocks', NEW t \in Positions, Names(p, t)'
        PROVE  /\ t \in Blocks' /\ file'[t].kind = "data"
               /\ file'[t].text = [letter |-> file'[p].text.letter,
                                   part |-> file'[p].text.part + 1]
    <3>1. p \in Blocks /\ p # q /\ Names(p, t) /\ file'[p] = file[p]
      BY <1>6, <1>9, <2>3
    <3>2. CASE t = q
      BY <1>3, <1>4, <1>6, <3>1, <3>2
    <3>3. CASE t # q
      BY <1>6, <2>1, <3>1, <3>3
    <3> QED
      BY <3>2, <3>3
  <2>4. \A p1, p2 \in Blocks', t \in Positions : Names(p1, t)' /\ Names(p2, t)' => p1 = p2
    BY <1>9, <2>2
  <2>5. ~(call'.at \in {"follow"})
    BY <1>1 DEF Idle, Linking
  <2> QED
    BY <2>3, <2>4, <2>5 DEF ChainsApart, At
<1>11. InHand'
  <2>1. \A p \in Blocks' : file'[p].kind = "header" => file'[p].text.part = 1
    BY <1>1, <1>3, <1>6 DEF Sound, InHand
  <2>2. ~(call'.at \in {"follow", "fill"})
    BY <1>1 DEF Idle, Linking
  <2>3. call'.at = "link" => call'.letter = l /\ call'.part = k /\ call'.pos = q
    BY <1>1 DEF Idle, Linking
  <2>4. file'[q] = b /\ q \in Blocks'
    BY <1>6
  <2> QED
    BY <1>3, <2>1, <2>2, <2>3, <2>4 DEF InHand, At, Live
<1>12. OwnLetter'
  BY <1>1 DEF OwnLetter, OwnText
<1> QED
  BY <1>7, <1>8, <1>10, <1>11, <1>12 DEF Sound

LEMMA ReceiveSound ==
  ASSUME TypeOK, Bounds, Sound, ~torn', NEW r \in Persons, Receive(r)
  PROVE  Sound'
<1>1. /\ call = Idle /\ call' = Receiving(r) /\ given' = NoMail /\ ~torn
      /\ file' = file /\ free_list' = free_list /\ mail_index' = mail_index
  BY DEF Receive
<1>2. /\ Reserved = {} /\ Seen = Blocks /\ Reserved' = {} /\ Seen' = Blocks
      /\ Blocks' = Blocks /\ call'.at = "receive"
  BY <1>1 DEF Reserved, Seen, At, Idle, Receiving, Blocks
<1>3. FreeListExact'
  BY <1>1, <1>2 DEF Sound, FreeListExact, Live
<1>4. IndexExact'
  BY <1>1, <1>2 DEF Sound, IndexExact, HeadersTo
<1>5. ChainsApart'
  BY <1>1, <1>2 DEF Sound, ChainsApart, Names, Live, At
<1>6. InHand'
  BY <1>1, <1>2 DEF Sound, InHand, At
<1>7. OwnLetter'
  BY <1>1 DEF OwnLetter, OwnText
<1> QED
  BY <1>3, <1>4, <1>5, <1>6, <1>7 DEF Sound

\* Marking a block that nobody names deleted and pushing it.
LEMMA FreeingSound ==
  ASSUME TypeOK, Bounds, Sound, ~torn, ~At({"scan", "fill"}),
         NEW p \in Blocks, Live(p), \A x \in Blocks : ~Names(x, p),
         file' = [file EXCEPT ![p] = Deleted(file[p])], Push(p)
  PROVE  /\ Blocks' = Blocks
         /\ \A x \in Blocks : x # p => file'[x] = file[x]
         /\ file'[p].kind = "deleted"
         /\ IsInjective(free_list')
         /\ ToSet(free_list') = {x \in Blocks : file'[x].kind = "deleted"}
         /\ \A x \in Blocks, t \in Positions :
              file'[x].kind # "deleted" /\ file'[x].next = t =>
                 /\ x # p /\ Names(x, t) /\ t \in Blocks /\ file'[t].kind = "data"
                 /\ file'[t].text = [letter |-> file'[x].text.letter,
                                     part |-> file'[x].text.part + 1]
<1>1. Reserved = {} /\ Seen = Blocks
  BY DEF Reserved, Seen, At
<1>2. /\ Blocks' = Blocks
      /\ \A x \in Blocks : file'[x] = IF x = p THEN Deleted(file[p]) ELSE file[x]
  BY FreeingTyped
<1>3. file'[p].kind = "deleted"
  BY <1>2, Typing, BlocksMade
<1>4. /\ free_list \in Seq(Positions) /\ p \in Positions
      /\ IsInjective(free_list) /\ ToSet(free_list) = {x \in Blocks : file[x].kind = "deleted"}
  BY <1>1, Typing, MailAssumption DEF Sound, FreeListExact, Live, Blocks, Positions
<1>5. p \notin ToSet(free_list)
  BY <1>4 DEF Live
<1>6. /\ IsInjective(free_list') /\ ToSet(free_list') = {p} \cup ToSet(free_list)
  BY <1>4, <1>5, PushFacts DEF Push
<1>7. ToSet(free_list') = {x \in Blocks : file'[x].kind = "deleted"}
  BY <1>2, <1>3, <1>4, <1>6
<1>8. ASSUME NEW x \in Blocks, NEW t \in Positions,
             file'[x].kind # "deleted", file'[x].next = t
      PROVE  /\ x # p /\ Names(x, t) /\ t \in Blocks /\ file'[t].kind = "data"
             /\ file'[t].text = [letter |-> file'[x].text.letter,
                                 part |-> file'[x].text.part + 1]
  <2>1. x # p /\ file'[x] = file[x]
    BY <1>2, <1>3, <1>8
  <2>2. Names(x, t) /\ t # p
    BY <1>8, <2>1 DEF Names, Live
  <2>3. /\ t \in Blocks /\ file[t].kind = "data"
        /\ file[t].text = [letter |-> file[x].text.letter, part |-> file[x].text.part + 1]
    BY <1>1, <2>2 DEF Sound, ChainsApart
  <2> QED
    BY <1>2, <2>1, <2>2, <2>3
<1> QED
  BY <1>2, <1>3, <1>6, <1>7, <1>8

LEMMA ReadSound ==
  ASSUME TypeOK, Bounds, Sound, ~torn', ReadHeader
  PROVE  Sound'
<1> DEFINE r == call.to
           pos == Last(mail_index[r])
           block == file[pos]
<1>1. call.at = "receive" /\ ~torn /\ mail_index' = [mail_index EXCEPT ![r] = Front(@)]
  BY DEF ReadHeader
<1>2. /\ r \in Persons /\ mail_index[r] # <<>>
      /\ Reserved = {} /\ Seen = Blocks /\ ~At({"scan", "fill"})
  BY <1>1, Typing DEF At, Bounds, Reserved, Seen
<1>3. \A a \in Persons : IsInjective(mail_index[a]) /\ ToSet(mail_index[a]) = HeadersTo(a)
  BY <1>1 DEF Sound, IndexExact
<1>4. /\ pos \in ToSet(mail_index[r])
      /\ \A a \in Persons \ {r} : mail_index'[a] = mail_index[a]
      /\ IsInjective(mail_index'[r]) /\ ToSet(mail_index'[r]) = ToSet(mail_index[r]) \ {pos}
  BY <1>1, <1>2, <1>3, OldestTaken
<1>5. pos \in Blocks /\ block.kind = "header" /\ To[block.text.letter] = r /\ block.text.part = 1
  BY <1>1, <1>2, <1>3, <1>4 DEF HeadersTo, Sound, InHand
<1>6. /\ given' = NoMail /\ call' = Following(r, <<block.text>>, block.next)
      /\ file' = [file EXCEPT ![pos] = Deleted(block)] /\ Push(pos)
  BY <1>5 DEF ReadHeader
<1>7. Live(pos) /\ \A x \in Blocks : ~Names(x, pos)
  <2>1. ASSUME NEW x \in Blocks, Names(x, pos)  PROVE file[pos].kind = "data"
    <3>1. pos \in Positions
      BY <1>5, Typing, MailAssumption DEF Blocks, Positions
    <3> QED
      BY <1>1, <1>2, <2>1, <3>1 DEF Sound, ChainsApart
  <2> QED
    BY <1>5, <2>1 DEF Live
<1>8. /\ block \in Block /\ block.text \in Text
      /\ block.text = [letter |-> block.text.letter, part |-> 1]
      /\ block.next \in Links
  BY <1>5, Typing, Texts DEF Block
<1> HIDE DEF pos
<1>9. /\ Blocks' = Blocks
      /\ \A x \in Blocks : x # pos => file'[x] = file[x]
      /\ file'[pos].kind = "deleted"
      /\ IsInjective(free_list')
      /\ ToSet(free_list') = {x \in Blocks : file'[x].kind = "deleted"}
      /\ \A x \in Blocks, t \in Positions :
           file'[x].kind # "deleted" /\ file'[x].next = t =>
              /\ x # pos /\ Names(x, t) /\ t \in Blocks /\ file'[t].kind = "data"
              /\ file'[t].text = [letter |-> file'[x].text.letter,
                                  part |-> file'[x].text.part + 1]
  BY <1>1, <1>2, <1>5, <1>6, <1>7, FreeingSound
<1>10. /\ call'.at = "follow" /\ call'.to = r /\ call'.text = <<block.text>>
       /\ call'.pos = block.next
       /\ Reserved' = {} /\ Seen' = Blocks'
  BY <1>6 DEF Following, Reserved, Seen, At
<1>11. FreeListExact'
  BY <1>9, <1>10 DEF FreeListExact, Live
<1>12. IndexExact'
  <2>1. ASSUME NEW a \in Persons
        PROVE  IsInjective(mail_index'[a]) /\ ToSet(mail_index'[a]) = HeadersTo(a)'
    <3>1. HeadersTo(a)' = {x \in Blocks' : file'[x].kind = "header" /\ To[file'[x].text.letter] = a}
      BY <1>10 DEF HeadersTo
    <3>2. HeadersTo(a) = {x \in Blocks : file[x].kind = "header" /\ To[file[x].text.letter] = a}
      BY <1>2 DEF HeadersTo
    <3>3. HeadersTo(a)' = HeadersTo(a) \ {pos}
      BY <1>9, <3>1, <3>2
    <3>4. a # r => pos \notin HeadersTo(a)
      BY <1>5, <3>2
    <3> QED
      BY <1>3, <1>4, <3>3, <3>4
  <2> QED
    BY <2>1 DEF IndexExact
<1>13. ChainsApart'
  <2>1. \A x1, x2 \in Blocks, t \in Positions : Names(x1, t) /\ Names(x2, t) => x1 = x2
    BY <1>1 DEF Sound, ChainsApart
  <2>2. \A x1, x2 \in Blocks', t \in Positions : Names(x1, t)' /\ Names(x2, t)' => x1 = x2
    BY <1>9, <2>1 DEF Names, Live
  <2>3. \A x \in Blocks' : ~(file'[x].kind # "deleted" /\ file'[x].next = block.next) \/ block.next = 0
    <3>1. ASSUME NEW x \in Blocks', file'[x].kind # "deleted", file'[x].next = block.next,
                 block.next # 0
          PROVE  FALSE
      <4>1. block.next \in Positions
        BY <1>8, <3>1, MailAssumption DEF Links, Positions
      <4>2. x # pos /\ x \in Blocks /\ Names(x, block.next)
        BY <1>9, <3>1, <4>1
      <4>3. Names(pos, block.next)
        BY <1>7 DEF Names
      <4> QED
        BY <1>5, <2>1, <4>1, <4>2, <4>3
    <3> QED
      BY <3>1
  <2> QED
    BY <1>9, <1>10, <2>2, <2>3 DEF ChainsApart, Names, Live, LAST_BLOCK
<1>14. InHand'
  <2>1. \A x \in Blocks' : file'[x].kind = "header" => file'[x].text.part = 1
    BY <1>1, <1>9 DEF Sound, InHand
  <2>2. /\ call'.text # <<>> /\ Len(call'.text) = 1 /\ call'.text[1] = block.text
    BY <1>10
  <2>3. block.next # 0 =>
          /\ block.next \in Blocks' /\ file'[block.next].kind = "data"
          /\ file'[block.next].text = [letter |-> block.text.letter, part |-> 1 + 1]
    <3>1. ASSUME block.next # 0
          PROVE  /\ block.next \in Blocks /\ file[block.next].kind = "data"
                 /\ file[block.next].text = [letter |-> block.text.letter, part |-> 1 + 1]
      <4>1. block.next \in Positions /\ Names(pos, block.next)
        BY <1>7, <1>8, <3>1, MailAssumption DEF Links, Positions, Names
      <4> QED
        BY <1>1, <1>2, <1>5, <4>1 DEF Sound, ChainsApart
    <3>2. block.next # 0 => block.next # pos
      BY <1>5, <3>1
    <3> QED
      BY <1>9, <3>1, <3>2
  <2>4. \A k \in 1 .. Len(call'.text) :
          call'.text[k] = [letter |-> call'.text[1].letter, part |-> k]
    BY <1>8, <2>2
  <2>5. To[call'.text[1].letter] = call'.to
    BY <1>5, <1>10, <2>2
  <2>6. call'.pos # 0 =>
          /\ call'.pos \in Blocks' /\ file'[call'.pos].kind = "data"
          /\ file'[call'.pos].text = [letter |-> call'.text[1].letter,
                                      part |-> Len(call'.text) + 1]
    BY <1>10, <2>2, <2>3
  <2> QED
    BY <1>10, <2>1, <2>2, <2>4, <2>5, <2>6 DEF InHand, At
<1>15. OwnLetter'
  BY <1>6 DEF OwnLetter, OwnText
<1> QED
  BY <1>11, <1>12, <1>13, <1>14, <1>15 DEF Sound

LEMMA FollowSound ==
  ASSUME TypeOK, Bounds, Sound, ~torn', FollowLink
  PROVE  Sound'
<1> DEFINE r == call.to
           pos == call.pos
           block == file[pos]
           text == Append(call.text, block.text)
<1>1. /\ call.at = "follow" /\ pos \in Blocks /\ ~torn
      /\ file' = [file EXCEPT ![pos] = Deleted(block)] /\ Push(pos)
      /\ call' = IF block.kind = "data" THEN Following(r, text, block.next) ELSE Looping(r)
      /\ given' = NoMail /\ mail_index' = mail_index
  BY DEF FollowLink, Blocks
<1>2. /\ Reserved = {} /\ Seen = Blocks /\ ~At({"scan", "fill"}) /\ pos # 0
      /\ pos \in Positions
  BY <1>1, Typing, MailAssumption DEF At, Reserved, Seen, Blocks, Positions
<1>3. /\ call.text # <<>> /\ call.text \in Seq(Text)
      /\ \A k \in 1 .. Len(call.text) :
           call.text[k] = [letter |-> call.text[1].letter, part |-> k]
      /\ To[call.text[1].letter] = r
      /\ block.kind = "data"
      /\ block.text = [letter |-> call.text[1].letter, part |-> Len(call.text) + 1]
  BY <1>1, <1>2, Typing DEF Sound, InHand, At
<1>4. Live(pos) /\ \A x \in Blocks : ~Names(x, pos)
  BY <1>1, <1>2, <1>3 DEF Live, Sound, ChainsApart, At, LAST_BLOCK
<1>5. block \in Block /\ block.text \in Text /\ block.next \in Links
  BY <1>1, Typing DEF Block
<1>6. /\ Blocks' = Blocks
      /\ \A x \in Blocks : x # pos => file'[x] = file[x]
      /\ file'[pos].kind = "deleted"
      /\ IsInjective(free_list')
      /\ ToSet(free_list') = {x \in Blocks : file'[x].kind = "deleted"}
      /\ \A x \in Blocks, t \in Positions :
           file'[x].kind # "deleted" /\ file'[x].next = t =>
              /\ x # pos /\ Names(x, t) /\ t \in Blocks /\ file'[t].kind = "data"
              /\ file'[t].text = [letter |-> file'[x].text.letter,
                                  part |-> file'[x].text.part + 1]
  BY <1>1, <1>2, <1>4, FreeingSound
<1>7. /\ call'.at = "follow" /\ call'.to = r /\ call'.text = text
      /\ call'.pos = block.next
      /\ Reserved' = {} /\ Seen' = Blocks'
  BY <1>1, <1>3 DEF Following, Reserved, Seen, At
<1>8. FreeListExact'
  BY <1>6, <1>7 DEF FreeListExact, Live
<1>9. IndexExact'
  <2>1. ASSUME NEW a \in Persons  PROVE HeadersTo(a)' = HeadersTo(a)
    BY <1>2, <1>3, <1>6, <1>7 DEF HeadersTo
  <2> QED
    BY <1>1, <2>1 DEF Sound, IndexExact
<1>10. ChainsApart'
  <2>1. \A x1, x2 \in Blocks, t \in Positions : Names(x1, t) /\ Names(x2, t) => x1 = x2
    BY <1>1 DEF Sound, ChainsApart
  <2>2. \A x1, x2 \in Blocks', t \in Positions : Names(x1, t)' /\ Names(x2, t)' => x1 = x2
    BY <1>6, <2>1 DEF Names, Live
  <2>3. \A x \in Blocks' : ~(file'[x].kind # "deleted" /\ file'[x].next = block.next) \/ block.next = 0
    <3>1. ASSUME NEW x \in Blocks', file'[x].kind # "deleted", file'[x].next = block.next,
                 block.next # 0
          PROVE  FALSE
      <4>1. block.next \in Positions
        BY <1>5, <3>1, MailAssumption DEF Links, Positions
      <4>2. x # pos /\ x \in Blocks /\ Names(x, block.next)
        BY <1>6, <3>1, <4>1
      <4>3. Names(pos, block.next)
        BY <1>4 DEF Names
      <4> QED
        BY <1>1, <2>1, <4>1, <4>2, <4>3
    <3> QED
      BY <3>1
  <2> QED
    BY <1>6, <1>7, <2>2, <2>3 DEF ChainsApart, Names, Live, LAST_BLOCK
<1>11. InHand'
  <2>1. \A x \in Blocks' : file'[x].kind = "header" => file'[x].text.part = 1
    BY <1>1, <1>6 DEF Sound, InHand
  <2> DEFINE n == Len(call.text)
             l == call.text[1].letter
  <2>2. /\ n \in Nat \ {0} /\ Len(text) = n + 1
        /\ \A k \in 1 .. n + 1 : text[k] = IF k = n + 1 THEN block.text ELSE call.text[k]
    BY <1>3, <1>5, LenProperties, AppendProperties, EmptySeq
  <2>3. block.next # 0 =>
          /\ block.next \in Blocks' /\ file'[block.next].kind = "data"
          /\ file'[block.next].text = [letter |-> l, part |-> n + 1 + 1]
    <3>1. ASSUME block.next # 0
          PROVE  /\ block.next \in Blocks /\ file[block.next].kind = "data"
                 /\ file[block.next].text = [letter |-> l, part |-> n + 1 + 1]
                 /\ block.next # pos
      <4>1. block.next \in Positions /\ Names(pos, block.next)
        BY <1>4, <1>5, <3>1, MailAssumption DEF Links, Positions, Names
      <4>2. block.next # pos
        BY <1>1, <1>4, <4>1
      <4> QED
        BY <1>1, <1>2, <1>3, <4>1, <4>2 DEF Sound, ChainsApart
    <3> QED
      BY <1>6, <3>1
  <2> HIDE DEF text
  <2>4. text # <<>> /\ text[1].letter = l
    <3>1. text[1] = call.text[1]
      BY <2>2
    <3> QED
      BY <2>2, <3>1, EmptySeq
  <2>5. \A k \in 1 .. Len(text) : text[k] = [letter |-> l, part |-> k]
    BY <1>3, <2>2
  <2>6. call'.pos # 0 =>
          /\ call'.pos \in Blocks' /\ file'[call'.pos].kind = "data"
          /\ file'[call'.pos].text = [letter |-> call'.text[1].letter,
                                      part |-> Len(call'.text) + 1]
    BY <1>7, <2>2, <2>3, <2>4
  <2>7. /\ call'.text # <<>> /\ To[call'.text[1].letter] = call'.to
        /\ \A k \in 1 .. Len(call'.text) :
             call'.text[k] = [letter |-> call'.text[1].letter, part |-> k]
    BY <1>3, <1>7, <2>4, <2>5
  <2> QED
    BY <1>7, <2>1, <2>6, <2>7 DEF InHand, At
<1>12. OwnLetter'
  BY <1>1 DEF OwnLetter, OwnText
<1> QED
  BY <1>8, <1>9, <1>10, <1>11, <1>12 DEF Sound

\* What is followed lies in the file.
LEMMA NothingSound ==
  ASSUME TypeOK, Bounds, Sound, ~torn', FollowIntoNothing
  PROVE  Sound'
<1>1. call.at = "follow" /\ call.pos > Len(file) /\ ~torn
  BY DEF FollowIntoNothing
<1>2. Len(file) \in Nat
  BY Typing
<1>3. call.pos # 0
  BY <1>1, <1>2
<1>4. call.pos \in 1 .. Len(file)
  BY <1>1, <1>3 DEF Sound, InHand, At, Blocks
<1> QED
  BY <1>1, <1>2, <1>4

\* The letter that is handed over is what has been read, and that is the player's.
LEMMA HandSound ==
  ASSUME TypeOK, Bounds, Sound, ~torn', HandMail
  PROVE  Sound'
<1>1. /\ call.at = "follow" /\ ~torn /\ given' = [to |-> call.to, text |-> call.text]
      /\ call' = NextMail(call.to, mail_index)
      /\ file' = file /\ free_list' = free_list /\ mail_index' = mail_index
  BY DEF HandMail
<1>2. call'.at \in {"idle", "receive"}
  BY <1>1 DEF NextMail, Idle, Receiving
<1>3. /\ Reserved = {} /\ Seen = Blocks /\ Reserved' = {} /\ Seen' = Blocks /\ Blocks' = Blocks
  BY <1>1, <1>2 DEF Reserved, Seen, At, Blocks
<1>4. FreeListExact'
  BY <1>1, <1>3 DEF Sound, FreeListExact, Live
<1>5. IndexExact'
  BY <1>1, <1>3 DEF Sound, IndexExact, HeadersTo
<1>6. ChainsApart'
  BY <1>1, <1>2, <1>3 DEF Sound, ChainsApart, Names, Live, At
<1>7. InHand'
  BY <1>1, <1>2, <1>3 DEF Sound, InHand, At
<1>8. OwnLetter'
  <2>1. /\ call.text # <<>> /\ To[call.text[1].letter] = call.to
        /\ \A k \in 1 .. Len(call.text) :
             call.text[k] = [letter |-> call.text[1].letter, part |-> k]
    BY <1>1 DEF Sound, InHand, At
  <2>2. DOMAIN call.text = 1 .. Len(call.text)
    BY <1>1, Typing, LenProperties DEF At
  <2>3. given'.text = call.text /\ given'.to = call.to
    BY <1>1
  <2> QED
    BY <2>1, <2>2, <2>3 DEF OwnLetter, OwnText
<1> QED
  BY <1>4, <1>5, <1>6, <1>7, <1>8 DEF Sound

\* Nothing is lost on disk unless the block a link names was still to be written.
LEMMA DieSound ==
  ASSUME TypeOK, Bounds, Sound, ~torn', Die
  PROVE  Sound'
<1>1. /\ ~torn /\ call.at # "fill" /\ file' = file /\ given' = NoMail
      /\ free_list' = <<>> /\ mail_index' = [r \in Persons |-> <<>>] /\ call' = Scanning(1)
  BY DEF Die
<1>2. call'.at = "scan" /\ call'.pos = 1 /\ Blocks' = Blocks
  BY <1>1 DEF Scanning, Blocks
<1>3. Reserved = {} /\ Reserved' = {} /\ Seen' = {}
  <2>1. \A p \in Blocks : ~(p < 1)
    BY Typing DEF Blocks
  <2> QED
    BY <1>1, <1>2, <2>1 DEF Reserved, Seen, At
<1>4. IsInjective(<<>>) /\ ToSet(<<>>) = {}
  BY DEF IsInjective, ToSet
<1>5. FreeListExact'
  BY <1>1, <1>3, <1>4 DEF FreeListExact
<1>6. IndexExact'
  BY <1>1, <1>3, <1>4 DEF IndexExact, HeadersTo
<1>7. ChainsApart'
  BY <1>1, <1>2, <1>3 DEF Sound, ChainsApart, Names, Live, At
<1>8. InHand'
  BY <1>1, <1>2 DEF Sound, InHand, At
<1>9. OwnLetter'
  BY <1>1 DEF OwnLetter, OwnText
<1> QED
  BY <1>5, <1>6, <1>7, <1>8, <1>9 DEF Sound

LEMMA ScanSound ==
  ASSUME TypeOK, Bounds, Sound, ~torn', ScanBlock
  PROVE  Sound'
<1> DEFINE p == call.pos
           a == To[file[p].text.letter]
<1>1. /\ call.at = "scan" /\ p <= Len(file) /\ call' = Scanning(p + 1) /\ ~torn
      /\ mail_index' = IF file[p].kind = "header" THEN Indexed(a, p) ELSE mail_index
      /\ file' = file /\ given' = given /\ torn' = torn
      /\ free_list' = IF file[p].kind = "deleted" THEN <<p>> \o free_list ELSE free_list
  BY DEF ScanBlock, Push
<1>2. /\ p \in 1 .. MaxBlocks + 1 /\ Len(file) \in Nat /\ Len(file) <= MaxBlocks /\ MaxBlocks \in Nat
      /\ free_list \in Seq(Positions) /\ mail_index \in [Persons -> Seq(Positions)]
  BY <1>1, Typing, MailAssumption DEF At, TypeOK
<1>3. p \in Blocks /\ p \in Positions /\ call'.at = "scan" /\ call'.pos = p + 1 /\ Blocks' = Blocks
  BY <1>1, <1>2 DEF Blocks, Positions, Scanning
<1>4. /\ Reserved = {} /\ Reserved' = {}
      /\ Seen = {x \in Blocks : x < p} /\ Seen' = {x \in Blocks : x < p + 1}
  BY <1>1, <1>3 DEF Reserved, Seen, At
<1>5. Seen' = Seen \cup {p} /\ p \notin Seen
  BY <1>2, <1>3, <1>4 DEF Blocks
<1>6. FreeListExact'
  <2>1. IsInjective(free_list) /\ ToSet(free_list) = {x \in Seen : ~Live(x)}
    BY <1>1, <1>4 DEF Sound, FreeListExact
  <2>2. {x \in Seen' : file[x].kind = "deleted"}
          = {x \in Seen : ~Live(x)} \cup (IF file[p].kind = "deleted" THEN {p} ELSE {})
    BY <1>5 DEF Live
  <2>3. IsInjective(free_list') /\ ToSet(free_list') = {x \in Seen' : file[x].kind = "deleted"}
    BY <1>1, <1>2, <1>3, <1>5, <2>1, <2>2, PushFacts
  <2> QED
    BY <1>1, <1>4, <2>3 DEF FreeListExact, Live
<1>7. IndexExact'
  <2>1. ASSUME NEW r \in Persons
        PROVE  IsInjective(mail_index'[r]) /\ ToSet(mail_index'[r]) = HeadersTo(r)'
    <3>1. /\ IsInjective(mail_index[r]) /\ ToSet(mail_index[r]) = HeadersTo(r)
          /\ mail_index[r] \in Seq(Positions)
      BY <1>1, Typing DEF Sound, IndexExact
    <3>2. mail_index'[r] = IF file[p].kind = "header" /\ r = a THEN <<p>> \o mail_index[r]
                           ELSE mail_index[r]
      BY <1>1, <1>2 DEF Indexed
    <3>3. /\ HeadersTo(r)' = HeadersTo(r) \cup
                              (IF file[p].kind = "header" /\ r = a THEN {p} ELSE {})
          /\ p \notin HeadersTo(r)
      BY <1>1, <1>5 DEF HeadersTo
    <3> QED
      BY <1>3, <3>1, <3>2, <3>3, PushFacts
  <2> QED
    BY <2>1 DEF IndexExact
<1>8. ChainsApart'
  BY <1>1, <1>3, <1>4 DEF Sound, ChainsApart, Names, Live, At
<1>9. InHand'
  BY <1>1, <1>3 DEF Sound, InHand, At
<1>10. OwnLetter'
  BY <1>1 DEF Sound, OwnLetter, OwnText
<1> QED
  BY <1>6, <1>7, <1>8, <1>9, <1>10 DEF Sound

LEMMA ScannedSound ==
  ASSUME TypeOK, Bounds, Sound, ~torn', Scanned
  PROVE  Sound'
<1>1. /\ call.at = "scan" /\ call.pos > Len(file) /\ call' = Idle
      /\ file' = file /\ free_list' = free_list /\ mail_index' = mail_index
      /\ given' = given /\ ~torn
  BY DEF Scanned
<1>2. call'.at = "idle" /\ Blocks' = Blocks
  BY <1>1 DEF Idle, Blocks
<1>3. Seen = Blocks
  <2>1. \A p \in Blocks : p < call.pos
    BY <1>1, Typing DEF At, Blocks
  <2> QED
    BY <2>1 DEF Seen
<1>4. Reserved = {} /\ Reserved' = {} /\ Seen' = Blocks
  BY <1>1, <1>2 DEF Reserved, Seen, At
<1>5. FreeListExact'
  BY <1>1, <1>3, <1>4 DEF Sound, FreeListExact, Live
<1>6. IndexExact'
  BY <1>1, <1>3, <1>4 DEF Sound, IndexExact, HeadersTo
<1>7. ChainsApart'
  BY <1>1, <1>2, <1>4 DEF Sound, ChainsApart, Names, Live, At
<1>8. InHand'
  BY <1>1, <1>2 DEF Sound, InHand, At
<1>9. OwnLetter'
  BY <1>1 DEF Sound, OwnLetter, OwnText
<1> QED
  BY <1>5, <1>6, <1>7, <1>8, <1>9 DEF Sound

LEMMA InitSound == Init => Sound
<1> SUFFICES ASSUME Init PROVE Sound
  OBVIOUS
<1>1. /\ file = <<>> /\ free_list = <<>> /\ mail_index = [r \in Persons |-> <<>>]
      /\ call.at = "idle" /\ given = NoMail
  BY DEF Init, Idle
<1>2. Blocks = {} /\ Reserved = {} /\ Seen = {}
  BY <1>1, EmptySeq DEF Blocks, Reserved, Seen, At
<1>3. IsInjective(<<>>) /\ ToSet(<<>>) = {}
  BY DEF IsInjective, ToSet
<1>4. FreeListExact /\ IndexExact
  BY <1>1, <1>2, <1>3 DEF FreeListExact, IndexExact, HeadersTo
<1>5. ChainsApart /\ InHand /\ OwnLetter
  BY <1>1, <1>2 DEF ChainsApart, InHand, OwnLetter, OwnText, At
<1> QED
  BY <1>4, <1>5 DEF Sound

\* Lists, chains and letters are in order after every step.
LEMMA StepSound ==
  ASSUME TypeOK, Bounds, Sound, [Next]_vars
  PROVE  Sound'
<1>1. CASE torn'
  BY <1>1 DEF Sound, FreeListExact, IndexExact, ChainsApart, InHand, OwnLetter
<1>2. CASE ~torn' /\ UNCHANGED vars
  BY <1>2 DEF vars, Sound, FreeListExact, IndexExact, ChainsApart, InHand, OwnLetter, OwnText,
              HeadersTo, Names, Live, Reserved, Seen, At, Blocks
<1>3. CASE ~torn' /\ Next
  <2>1. ASSUME NEW l \in Letters, StoreMail(l)  PROVE Sound'
    BY <1>3, <2>1, StoreSound
  <2>2. ASSUME NEW r \in Persons, Receive(r)  PROVE Sound'
    BY <1>3, <2>2, ReceiveSound
  <2> QED
    BY <1>3, <2>1, <2>2, LinkSound, FillSound, ReadSound, FollowSound, NothingSound,
       HandSound, DieSound, ScanSound, ScannedSound DEF Next
<1> QED
  BY <1>1, <1>2, <1>3

-----------------------------------------------------------------------------
(* Theorems *)

LEMMA AlwaysSound == Spec => [](TypeOK /\ Bounds /\ Sound)
<1>1. Init => TypeOK /\ Bounds /\ Sound
  BY InitTyped, InitSound
<1>2. TypeOK /\ Bounds /\ Sound /\ [Next]_vars => (TypeOK /\ Bounds /\ Sound)'
  BY StepTyped, StepSound
<1> QED
  BY <1>1, <1>2, PTL DEF Spec

\* No block is on the free list twice, none that holds a letter is on it, and none
\* that is free is forgotten, whatever is posted, read and rebooted, until a process ends
\* between a link and the block it names (push_free_list, pop_free_list, scan_file).
THEOREM FreeListStaysExact == Spec => []FreeListExact
<1>1. Sound => FreeListExact
  BY DEF Sound
<1> QED
  BY <1>1, AlwaysSound, PTL

\* The index names every letter of the file once, under its addressee, until a process
\* ends between a link and the block it names (index_mail, read_delete, scan_file).
THEOREM IndexStaysExact == Spec => []IndexExact
<1>1. Sound => IndexExact
  BY DEF Sound
<1> QED
  BY <1>1, AlwaysSound, PTL

\* No two letters share a block, and a link leads to the next part of its letter, until a
\* process ends between a link and the block it names (store_mail, read_delete).
THEOREM ChainsStayApart == Spec => []ChainsApart
<1>1. Sound => ChainsApart
  BY DEF Sound
<1> QED
  BY <1>1, AlwaysSound, PTL

\* The three at once: free list, index and chains of the mail file agree after every step of
\* store_mail, read_delete and scan_file and after every end of the process but one, that
\* between a link and the block it names; from then on nothing is claimed.
THEOREM FileStaysExact == Spec => []FileExact
<1>1. Sound => FileExact
  BY DEF Sound, FileExact
<1> QED
  BY <1>1, AlwaysSound, PTL

\* The same with every field of its type, which it keeps whatever is torn
\* (store_mail, read_delete, scan_file).
THEOREM FileStaysSound == Spec => []FileSound
<1>1. TypeOK /\ FileExact => FileSound
  BY DEF FileSound
<1> QED
  BY <1>1, TypeCorrect, FileStaysExact, PTL

\* As long as no process ended between a link and the block it names, a mail object
\* holds the beginning of one letter to the player it is given to (read_delete).
THEOREM EveryoneHisOwnLetter == Spec => []OwnLetter
<1>1. Sound => OwnLetter
  BY DEF Sound
<1> QED
  BY <1>1, AlwaysSound, PTL

=============================================================================
