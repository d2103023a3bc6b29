-------------------------- MODULE Baseline_proofs --------------------------
(***************************************************************************)
(* Proofs about the software pipeline for every file, every size, every     *)
(* number of buckets and every failure.                                     *)
(*                                                                         *)
(* The encoder's part needs that every character is an entry of the         *)
(* dictionary: only then does a new string always have a found one before   *)
(* its last character, so that no character is lost and every code stands   *)
(* for two characters.  The table's part needs that an entry is the record  *)
(* of a call, because a bucket's list outlives the calls that filled it.    *)
(***************************************************************************)
EXTENDS Baseline, SequenceTheorems, TLAPS

\* The proofs about the chunker, for the chunker of the pipeline.
P == INSTANCE Chunker_proofs WITH i <- at, pc <- cpc, StartSizes <- {0}, fresh <- 0,
                                  NUM_PACKETS <- MemSize + 1

LEMMA CdcAssumptions ==
  P!SizesAssumption /\ P!HashAssumption /\ P!BufferAssumption /\ P!StartAssumption
  BY SizesAssumption, PipelineAssumption, LzwAssumption
     DEF P!SizesAssumption, P!HashAssumption, P!BufferAssumption, P!StartAssumption

\* The lemmas about FlattenSeq of the proofs about Chunker, here.
LEMMA SameFlatten == \A parts : P!FlattenSeq(parts) = FlattenSeq(parts)
  BY Zenon DEF FlattenSeq, P!FlattenSeq

LEMMA FlattenEmpty == FlattenSeq(<<>>) = <<>>
  BY DEF FlattenSeq

LEMMA FlattenType ==
  ASSUME NEW S, NEW parts \in Seq(Seq(S))
  PROVE  FlattenSeq(parts) \in Seq(S)
  <1>1. P!FlattenSeq(parts) \in Seq(S)
    BY CdcAssumptions, P!FlattenType
  <1>2. QED
    BY <1>1, SameFlatten

LEMMA FlattenTable ==
  ASSUME NEW S, NEW N \in Nat,
         NEW parts \in [1..N -> Seq(S)], NEW more \in [1..(N + 1) -> Seq(S)],
         \A n \in 1..N : more[n] = parts[n]
  PROVE  FlattenSeq(more) = FlattenSeq(parts) \o more[N + 1]
  <1>1. P!FlattenSeq(more) = P!FlattenSeq(parts) \o more[N + 1]
    BY CdcAssumptions, P!FlattenTable
  <1>2. QED
    BY <1>1, SameFlatten

-----------------------------------------------------------------------------
(* The encoder. *)

LzwTypes ==
  /\ text \in Seq(Char) /\ foundChars \in Seq(Char) /\ i \in 0..Len(text)
  /\ result \in Seq(Nat) /\ dropped \in Seq(Char) /\ lastFoundIndex \in Int
  /\ dictionary \in Seq(Seq(Char))
  /\ lpc \in {"idle", "encode"}

\* A dictionary that was made has every character, at its own code.
DictInv ==
  dictionary # <<>> =>
    /\ dictSize >= CHAR_MAX + 1
    /\ \A c \in Char : dictionary[c + 1] = <<c>>

\* The codes put out are those of entries.
CodesInside == \A n \in 1..Len(result) : result[n] + 1 \in 1..dictSize

\* Within a call the string at hand is the entry last found, or empty; every
\* code put out has its dropped character.
FoundInv ==
  lpc = "encode" =>
    /\ dictionary # <<>>
    /\ Len(result) = Len(dropped)
    /\ \/ lastFoundIndex = -1 /\ foundChars = <<>>
       \/ /\ lastFoundIndex + 1 \in 1..dictSize
          /\ foundChars = dictionary[lastFoundIndex + 1]
          /\ foundChars # <<>>

\* A code stands for a character at least and is followed by a dropped one, the
\* last code of a text excepted.
LengthInv ==
  IF lpc = "encode" THEN i >= 2 * Len(result) + Len(foundChars)
                    ELSE Len(text) >= 2 * Len(result) - 1

\* The encoder's inductive invariant.
LzwInv == LzwTypes /\ DictInv /\ CodesInside /\ FoundInv /\ LengthInv
            /\ CodesAndDroppedAreText

\* What the pipeline does to the encoder's variables.
LzwStep == (\E t \in Seq(Char) : Begin(t)) \/ EncodeStep \/ UNCHANGED lzw_vars

LEMMA SinglesAreEntries ==
  /\ SingleChars \in Seq(Seq(Char))
  /\ Len(SingleChars) = CHAR_MAX + 1
  /\ SingleChars # <<>>
  /\ \A c \in Char : SingleChars[c + 1] = <<c>>
  <1>1. CHAR_MAX \in Nat \ {0}
    BY LzwAssumption
  <1>2. \A e \in 1..(CHAR_MAX + 1) : e # 1 => e - 1 \in Char
    BY <1>1 DEF Char
  <1>3. \A e \in 1..(CHAR_MAX + 1) :
          (IF e = 1 THEN <<>> ELSE <<e - 1>>) \in Seq(Char)
    BY <1>2
  <1>4. SingleChars \in Seq(Seq(Char)) /\ Len(SingleChars) = CHAR_MAX + 1
    <2>1. SingleChars \in [1..(CHAR_MAX + 1) -> Seq(Char)]
      BY <1>3 DEF SingleChars
    <2>2. QED
      BY <1>1, <2>1, SeqDef, LenProperties
  <1>5. \A c \in Char : c + 1 \in 1..(CHAR_MAX + 1) /\ c + 1 # 1 /\ (c + 1) - 1 = c
    BY <1>1 DEF Char
  <1>6. \A c \in Char : SingleChars[c + 1] = <<c>>
    BY <1>5 DEF SingleChars
  <1>7. QED
    BY <1>1, <1>4, <1>6

LEMMA InitLzw == LzwInit => LzwInv
  <1> SUFFICES ASSUME LzwInit PROVE LzwInv
    OBVIOUS
  <1>1. LzwTypes
    BY DEF LzwInit, LzwTypes
  <1>2. DictInv /\ CodesInside /\ FoundInv /\ LengthInv
    BY DEF LzwInit, DictInv, CodesInside, FoundInv, LengthInv
  <1>3. CodesAndDroppedAreText
    BY DEF LzwInit, CodesAndDroppedAreText
  <1>4. QED
    BY <1>1, <1>2, <1>3 DEF LzwInv

LEMMA BeginKeeps == ASSUME LzwInv, NEW t \in Seq(Char), Begin(t) PROVE LzwInv'
  <1>1. /\ result' = <<>> /\ dropped' = <<>> /\ foundChars' = <<>> /\ i' = 0
        /\ text' = t /\ lastFoundIndex' = -1
        /\ lpc' = IF t = <<>> THEN "idle" ELSE "encode"
    BY DEF Begin
  <1>2. dictionary' \in Seq(Seq(Char)) /\ dictionary' # <<>> /\ DictInv'
    <2>1. CASE dictionary = <<>>
      <3>1. dictionary' = SingleChars
        BY <2>1 DEF Begin, initializeDictionary
      <3>2. QED
        BY <3>1, SinglesAreEntries, LzwAssumption DEF DictInv, dictSize
    <2>2. CASE dictionary # <<>>
      BY <2>2 DEF Begin, initializeDictionary, LzwInv, LzwTypes, DictInv, dictSize
    <2>3. QED
      BY <2>1, <2>2
  <1>3. LzwTypes'
    BY <1>1, <1>2 DEF LzwTypes
  <1>4. CodesInside' /\ FoundInv' /\ LengthInv'
    BY <1>1, <1>2 DEF CodesInside, FoundInv, LengthInv
  <1>5. Expanded' = <<>>
    <2>1. [n \in 1..Len(result') |-> Piece(n)'] = <<>>
      BY <1>1
    <2>2. QED
      BY <2>1, FlattenEmpty DEF Expanded
  <1>6. CodesAndDroppedAreText'
    BY <1>1, <1>5 DEF CodesAndDroppedAreText
  <1>7. QED
    BY <1>2, <1>3, <1>4, <1>6 DEF LzwInv

\* What each code stands for is a string of characters.
LEMMA PieceTypes ==
  ASSUME LzwTypes, CodesInside
  PROVE  /\ \A n \in 1..Len(result) : Piece(n) \in Seq(Char)
         /\ Expanded \in Seq(Char)
  <1>1. ASSUME NEW n \in 1..Len(result) PROVE Piece(n) \in Seq(Char)
    <2>1. result[n] + 1 \in 1..dictSize
      BY DEF CodesInside
    <2>2. dictionary[result[n] + 1] \in Seq(Char)
      BY <2>1, ElementOfSeq, Zenon DEF LzwTypes, dictSize
    <2>3. n <= Len(dropped) => dropped[n] \in Char
      BY DEF LzwTypes
    <2>4. (IF n <= Len(dropped) THEN <<dropped[n]>> ELSE <<>>) \in Seq(Char)
      BY <2>3
    <2>5. QED
      BY <2>2, <2>4 DEF Piece
  <1> DEFINE parts == [n \in 1..Len(result) |-> Piece(n)]
  <1>2. parts \in Seq(Seq(Char))
    <2>1. parts \in [1..Len(result) -> Seq(Char)]
      BY <1>1
    <2>2. Len(result) \in Nat
      BY DEF LzwTypes
    <2> HIDE DEF parts
    <2>3. QED
      BY <2>1, <2>2, SeqDef
  <1>3. FlattenSeq(parts) \in Seq(Char)
    <2> HIDE DEF parts
    <2> QED
      BY <1>2, FlattenType
  <1>4. QED
    BY <1>1, <1>3 DEF Expanded

\* A code that is put out adds what it stands for and the character dropped
\* after it, if there is one.
LEMMA CodeAdded ==
  ASSUME LzwInv, lpc = "encode", lastFoundIndex # -1,
         result' = Append(result, lastFoundIndex),
         dictionary' \in Seq(Seq(Char)),
         \A e \in 1..dictSize : dictionary'[e] = dictionary[e],
         NEW d \in Seq(Char),
         \/ dropped' = dropped /\ d = <<>>
         \/ \E c \in Char : dropped' = Append(dropped, c) /\ d = <<c>>
  PROVE  Expanded' = Expanded \o (foundChars \o d)
  <1>0. PICK N \in Nat : N = Len(result)
    BY DEF LzwInv, LzwTypes
  <1> DEFINE parts == [n \in 1..N |-> Piece(n)]
             more == [n \in 1..(N + 1) |-> Piece(n)']
  <1>1. /\ Len(dropped) = N /\ Len(result') = N + 1
        /\ \A n \in 1..N : result'[n] = result[n]
        /\ result'[N + 1] = lastFoundIndex
        /\ lastFoundIndex + 1 \in 1..dictSize
        /\ foundChars = dictionary[lastFoundIndex + 1]
        /\ foundChars \in Seq(Char)
    BY <1>0 DEF LzwInv, LzwTypes, FoundInv
  <1>2. /\ \A n \in 1..N : dropped'[n] = dropped[n] /\ n <= Len(dropped')
        /\ d = IF N + 1 <= Len(dropped') THEN <<dropped'[N + 1]>> ELSE <<>>
    <2>1. dropped \in Seq(Char)
      BY DEF LzwInv, LzwTypes
    <2>2. CASE dropped' = dropped /\ d = <<>>
      BY <1>1, <2>1, <2>2
    <2>3. CASE \E c \in Char : dropped' = Append(dropped, c) /\ d = <<c>>
      BY <1>1, <2>1, <2>3
    <2>4. QED
      BY <2>2, <2>3
  <1>3. ASSUME NEW n \in 1..N PROVE Piece(n)' = Piece(n)
    <2>1. result[n] + 1 \in 1..dictSize
      BY <1>0 DEF LzwInv, CodesInside
    <2>2. dictionary'[result'[n] + 1] = dictionary[result[n] + 1]
      BY <1>1, <2>1
    <2>3. n <= Len(dropped) /\ n <= Len(dropped') /\ dropped'[n] = dropped[n]
      BY <1>1, <1>2
    <2>4. QED
      BY <2>2, <2>3, Zenon DEF Piece
  <1>4. Piece(N + 1)' = foundChars \o d
    <2>1. dictionary'[result'[N + 1] + 1] = foundChars
      BY <1>1
    <2>2. QED
      BY <1>2, <2>1, Zenon DEF Piece
  <1>5. parts \in [1..N -> Seq(Char)]
    BY <1>0, PieceTypes DEF LzwInv
  <1>6. more \in [1..(N + 1) -> Seq(Char)]
    <2>1. foundChars \o d \in Seq(Char)
      BY <1>1
    <2>2. \A n \in 1..(N + 1) : n \in 1..N \/ n = N + 1
      BY <1>1
    <2>3. \A n \in 1..N : Piece(n)' \in Seq(Char)
      BY <1>0, <1>3, PieceTypes DEF LzwInv
    <2>4. \A n \in 1..(N + 1) : Piece(n)' \in Seq(Char)
      BY <1>4, <2>1, <2>2, <2>3, Zenon
    <2>5. QED
      BY <2>4
  <1>7. /\ \A n \in 1..N : more[n] = parts[n]
        /\ more[N + 1] = foundChars \o d
    <2>1. N + 1 \in 1..(N + 1) /\ \A n \in 1..N : n \in 1..(N + 1)
      OBVIOUS
    <2>2. QED
      BY <1>3, <1>4, <2>1, Zenon
  <1>8. Expanded = FlattenSeq(parts) /\ Expanded' = FlattenSeq(more)
    BY <1>0, <1>1, Zenon DEF Expanded
  <1> HIDE DEF parts, more
  <1>9. FlattenSeq(more) = FlattenSeq(parts) \o more[N + 1]
    BY <1>5, <1>6, <1>7, FlattenTable
  <1>10. QED
    BY <1>7, <1>8, <1>9

LEMMA NextPrefix ==
  ASSUME NEW s \in Seq(Char), NEW n \in 0..Len(s), n < Len(s)
  PROVE  SubSeq(s, 1, n) \o <<s[n + 1]>> = SubSeq(s, 1, n + 1)
  <1> DEFINE a == SubSeq(s, 1, n) \o <<s[n + 1]>>
             b == SubSeq(s, 1, n + 1)
  <1>1. a \in Seq(Char) /\ Len(a) = n + 1 /\ \A p \in 1..(n + 1) : a[p] = s[p]
    OBVIOUS
  <1>2. b \in Seq(Char) /\ Len(b) = n + 1 /\ \A p \in 1..(n + 1) : b[p] = s[p]
    OBVIOUS
  <1> HIDE DEF a, b
  <1>3. a = b
    BY <1>1, <1>2, SeqEqual
  <1>4. QED
    BY <1>3 DEF a, b

LEMMA ExtendKeeps == ASSUME LzwInv, Extend PROVE LzwInv'
  <1>1. PICK e \in 1..dictSize : IsFirst(e, Extended) /\ lastFoundIndex' = e - 1
    BY DEF Extend
  <1>2. /\ lpc = "encode" /\ lpc' = lpc /\ i < Len(text) /\ i' = i + 1
        /\ foundChars' = Append(foundChars, text[i + 1])
        /\ dictionary' = dictionary /\ text' = text /\ result' = result
        /\ dropped' = dropped
    BY DEF Extend, Extended
  <1>3. text[i + 1] \in Char /\ dictSize \in Nat /\ i \in Nat
    BY <1>2 DEF LzwInv, LzwTypes, dictSize
  <1>4. LzwTypes'
    BY <1>1, <1>2, <1>3 DEF LzwInv, LzwTypes
  <1>5. DictInv' /\ CodesInside'
    BY <1>2 DEF LzwInv, DictInv, CodesInside, dictSize
  <1>6. FoundInv'
    <2>1. dictionary[e] = foundChars' /\ lastFoundIndex' + 1 = e
      BY <1>1, <1>2, <1>3 DEF IsFirst, Extended
    <2>2. foundChars' # <<>>
      <3>1. foundChars \in Seq(Char)
        BY DEF LzwInv, LzwTypes
      <3>2. QED
        BY <1>2, <1>3, <3>1
    <2>3. QED
      BY <1>2, <2>1, <2>2 DEF LzwInv, FoundInv, dictSize
  <1>7. LengthInv'
    BY <1>2, <1>3 DEF LzwInv, LzwTypes, LengthInv
  <1>8. CodesAndDroppedAreText'
    <2>1. Expanded' = Expanded
      BY <1>2 DEF Expanded, Piece
    <2>2. Expanded \in Seq(Char)
      BY PieceTypes DEF LzwInv
    <2>3. dictionary # <<>> /\ Expanded \o foundChars = SubSeq(text, 1, i)
      BY <1>2 DEF LzwInv, FoundInv, CodesAndDroppedAreText
    <2>4. Expanded \o foundChars' = (Expanded \o foundChars) \o <<text[i + 1]>>
      <3>1. foundChars \in Seq(Char)
        BY DEF LzwInv, LzwTypes
      <3> DEFINE c == text[i + 1]
      <3>2. foundChars' = Append(foundChars, c) /\ c \in Char
        BY <1>2, <1>3
      <3> HIDE DEF c
      <3>3. Expanded \o foundChars' = (Expanded \o foundChars) \o <<c>>
        BY <2>2, <3>1, <3>2
      <3>4. QED
        BY <3>3 DEF c
    <2>5. SubSeq(text, 1, i) \o <<text[i + 1]>> = SubSeq(text, 1, i + 1)
      BY <1>2, NextPrefix DEF LzwInv, LzwTypes
    <2>6. QED
      BY <1>2, <2>1, <2>3, <2>4, <2>5 DEF CodesAndDroppedAreText
  <1>9. QED
    BY <1>4, <1>5, <1>6, <1>7, <1>8 DEF LzwInv

\* A character alone is never new.
LEMMA NewHasFound ==
  ASSUME LzwInv, Miss
  PROVE  /\ lastFoundIndex # -1 /\ lastFoundIndex + 1 \in 1..dictSize
         /\ foundChars = dictionary[lastFoundIndex + 1] /\ foundChars # <<>>
  <1>1. lpc = "encode" /\ i < Len(text) /\ ~ InDictionary(Append(foundChars, text[i + 1]))
    BY DEF Miss, IsNew, Extended
  <1>2. text[i + 1] \in Char
    BY <1>1 DEF LzwInv, LzwTypes
  <1>3. foundChars # <<>>
    <2>1. SUFFICES ASSUME foundChars = <<>> PROVE FALSE
      OBVIOUS
    <2>2. /\ dictSize >= CHAR_MAX + 1
          /\ dictionary[text[i + 1] + 1] = <<text[i + 1]>>
      BY <1>1, <1>2 DEF LzwInv, FoundInv, DictInv
    <2>3. text[i + 1] + 1 \in 1..dictSize
      <3>1. text[i + 1] \in Nat /\ text[i + 1] <= CHAR_MAX /\ CHAR_MAX \in Nat
        BY <1>2, LzwAssumption DEF Char
      <3>2. dictSize \in Nat
        BY DEF LzwInv, LzwTypes, dictSize
      <3>3. QED
        BY <2>2, <3>1, <3>2
    <2>4. QED
      BY <1>1, <2>1, <2>2, <2>3 DEF InDictionary
  <1>4. QED
    BY <1>1, <1>3 DEF LzwInv, LzwTypes, FoundInv, dictSize

LEMMA MissKeeps == ASSUME LzwInv, Miss PROVE LzwInv'
  <1>1. /\ lpc = "encode" /\ lpc' = lpc /\ i < Len(text) /\ i' = i + 1
        /\ dropped' = Append(dropped, text[i + 1])
        /\ dictionary' = Append(dictionary, Append(foundChars, text[i + 1]))
        /\ foundChars' = <<>> /\ lastFoundIndex' = -1 /\ text' = text
    BY DEF Miss, Restart, Extended
  <1>2. /\ lastFoundIndex # -1 /\ lastFoundIndex + 1 \in 1..dictSize
        /\ foundChars = dictionary[lastFoundIndex + 1] /\ foundChars # <<>>
    BY NewHasFound
  <1>3. result' = Append(result, lastFoundIndex)
    BY <1>2 DEF Miss, PutOut
  <1>4. /\ text[i + 1] \in Char /\ i \in Nat /\ lastFoundIndex \in Nat
        /\ dictSize \in Nat
    BY <1>1, <1>2 DEF LzwInv, LzwTypes, dictSize
  <1>5. LzwTypes'
    BY <1>1, <1>3, <1>4 DEF LzwInv, LzwTypes
  <1>6. /\ \A e \in 1..dictSize : dictionary'[e] = dictionary[e]
        /\ dictSize' = dictSize + 1 /\ dictionary' # <<>>
    <2>1. dictionary \in Seq(Seq(Char)) /\ Append(foundChars, text[i + 1]) \in Seq(Char)
      BY <1>4 DEF LzwInv, LzwTypes
    <2>2. QED
      BY <1>1, <2>1, AppendProperties DEF dictSize
  <1>7. DictInv'
    <2>1. dictSize >= CHAR_MAX + 1 /\ \A c \in Char : dictionary[c + 1] = <<c>>
      BY <1>1 DEF LzwInv, FoundInv, DictInv
    <2>2. \A c \in Char : c + 1 \in 1..dictSize
      BY <2>1, <1>4, LzwAssumption DEF Char
    <2>3. QED
      BY <1>4, <1>6, <2>1, <2>2, LzwAssumption DEF DictInv
  <1>8. CodesInside'
    <2>1. ASSUME NEW n \in 1..Len(result') PROVE result'[n] + 1 \in 1..dictSize'
      <3>1. (n \in 1..Len(result) /\ result'[n] = result[n]) \/ result'[n] = lastFoundIndex
        BY <1>3, <1>4 DEF LzwInv, LzwTypes
      <3>2. result'[n] + 1 \in 1..dictSize
        BY <1>2, <3>1 DEF LzwInv, CodesInside
      <3>3. QED
        BY <1>4, <1>6, <3>2
    <2>2. QED
      BY <2>1 DEF CodesInside
  <1>9. FoundInv'
    <2>1. Len(result) = Len(dropped) /\ result \in Seq(Nat) /\ dropped \in Seq(Char)
      BY <1>1 DEF LzwInv, LzwTypes, FoundInv
    <2>2. Len(result') = Len(dropped')
      <3>1. Len(result') = Len(result) + 1
        BY <1>3, <1>4, <2>1
      <3>2. Len(dropped') = Len(dropped) + 1
        BY <1>1, <1>4, <2>1
      <3>3. QED
        BY <2>1, <3>1, <3>2
    <2>3. QED
      BY <1>1, <1>6, <2>2 DEF FoundInv
  <1>10. LengthInv'
    <2>1. Len(foundChars) >= 1
      BY <1>2 DEF LzwInv, LzwTypes
    <2>2. i >= 2 * Len(result) + Len(foundChars)
      BY <1>1 DEF LzwInv, LengthInv
    <2>3. Len(result') = Len(result) + 1 /\ Len(result) \in Nat /\ Len(foundChars) \in Nat
      BY <1>3, <1>4 DEF LzwInv, LzwTypes
    <2>4. Len(foundChars') = 0
      BY <1>1
    <2>5. QED
      BY <1>1, <1>4, <2>1, <2>2, <2>3, <2>4 DEF LengthInv
  <1>11. CodesAndDroppedAreText'
    <2> DEFINE c == text[i + 1]
    <2>1. Expanded' = Expanded \o (foundChars \o <<c>>)
      <3>1. dictionary' \in Seq(Seq(Char)) /\ <<c>> \in Seq(Char)
        BY <1>4, <1>5 DEF LzwTypes
      <3>2. \E x \in Char : dropped' = Append(dropped, x) /\ <<c>> = <<x>>
        BY <1>1, <1>4
      <3> HIDE DEF c
      <3>3. QED
        BY <1>1, <1>2, <1>3, <1>6, <3>1, <3>2, CodeAdded
    <2>2. Expanded \in Seq(Char)
      BY PieceTypes DEF LzwInv
    <2>3. dictionary # <<>> /\ Expanded \o foundChars = SubSeq(text, 1, i)
      BY <1>1 DEF LzwInv, FoundInv, CodesAndDroppedAreText
    <2>4. Expanded' \o <<>> = (Expanded \o foundChars) \o <<c>>
      <3>1. foundChars \in Seq(Char) /\ c \in Char
        BY <1>4 DEF LzwInv, LzwTypes
      <3> HIDE DEF c
      <3>2. QED
        BY <2>1, <2>2, <3>1
    <2>5. SubSeq(text, 1, i) \o <<c>> = SubSeq(text, 1, i + 1)
      BY <1>1, NextPrefix DEF LzwInv, LzwTypes
    <2>6. QED
      BY <1>1, <2>3, <2>4, <2>5 DEF CodesAndDroppedAreText
  <1>12. QED
    BY <1>5, <1>7, <1>8, <1>9, <1>10, <1>11 DEF LzwInv

LEMMA FinishKeeps == ASSUME LzwInv, Finish PROVE LzwInv'
  <1>1. /\ lpc = "encode" /\ lpc' = "idle" /\ i = Len(text)
        /\ UNCHANGED <<dictionary, dictCapacity, text, i, foundChars, lastFoundIndex,
                       dropped>>
    BY DEF Finish
  <1>2. CASE lastFoundIndex = -1
    <2>1. result' = result
      BY <1>2 DEF Finish, PutOut
    <2>2. foundChars = <<>>
      BY <1>1, <1>2 DEF LzwInv, LzwTypes, FoundInv, dictSize
    <2>3. LzwTypes' /\ DictInv' /\ CodesInside' /\ FoundInv'
      BY <1>1, <2>1 DEF LzwInv, LzwTypes, DictInv, CodesInside, FoundInv, dictSize
    <2>4. LengthInv'
      BY <1>1, <2>1, <2>2 DEF LzwInv, LzwTypes, LengthInv
    <2>5. CodesAndDroppedAreText'
      <3>1. Expanded' = Expanded
        BY <1>1, <2>1 DEF Expanded, Piece
      <3>2. Expanded \o <<>> = SubSeq(text, 1, Len(text))
        BY <1>1, <2>2 DEF LzwInv, FoundInv, CodesAndDroppedAreText
      <3>3. Expanded \in Seq(Char) /\ text \in Seq(Char)
        BY PieceTypes DEF LzwInv, LzwTypes
      <3>4. Expanded = text
        BY <3>2, <3>3
      <3>5. QED
        BY <1>1, <3>1, <3>4 DEF CodesAndDroppedAreText
    <2>6. QED
      BY <2>3, <2>4, <2>5 DEF LzwInv
  <1>3. CASE lastFoundIndex # -1
    <2>1. result' = Append(result, lastFoundIndex)
      BY <1>3 DEF Finish, PutOut
    <2>2. /\ lastFoundIndex + 1 \in 1..dictSize /\ lastFoundIndex \in Nat
          /\ foundChars = dictionary[lastFoundIndex + 1] /\ foundChars # <<>>
      BY <1>1, <1>3 DEF LzwInv, LzwTypes, FoundInv, dictSize
    <2>3. LzwTypes' /\ DictInv' /\ FoundInv'
      BY <1>1, <2>1, <2>2 DEF LzwInv, LzwTypes, DictInv, FoundInv, dictSize
    <2>4. CodesInside'
      <3>1. ASSUME NEW n \in 1..Len(result') PROVE result'[n] + 1 \in 1..dictSize
        <4>1. (n \in 1..Len(result) /\ result'[n] = result[n]) \/ result'[n] = lastFoundIndex
          BY <2>1, <2>2 DEF LzwInv, LzwTypes
        <4>2. QED
          BY <2>2, <4>1 DEF LzwInv, CodesInside
      <3>2. QED
        BY <1>1, <3>1 DEF CodesInside, dictSize
    <2>5. LengthInv'
      <3>1. Len(foundChars) >= 1
        BY <2>2 DEF LzwInv, LzwTypes
      <3>2. i >= 2 * Len(result) + Len(foundChars)
        BY <1>1 DEF LzwInv, LengthInv
      <3>3. Len(result') = Len(result) + 1 /\ Len(result) \in Nat /\ Len(foundChars) \in Nat
        BY <2>1, <2>2 DEF LzwInv, LzwTypes
      <3>4. QED
        BY <1>1, <3>1, <3>2, <3>3 DEF LzwInv, LzwTypes, LengthInv
    <2>6. CodesAndDroppedAreText'
      <3>1. Expanded' = Expanded \o (foundChars \o <<>>)
        <4>1. /\ dictionary' \in Seq(Seq(Char)) /\ <<>> \in Seq(Char)
              /\ \A e \in 1..dictSize : dictionary'[e] = dictionary[e]
          BY <1>1 DEF LzwInv, LzwTypes
        <4>2. QED
          BY <1>1, <1>3, <2>1, <4>1, CodeAdded
      <3>2. Expanded \o foundChars = SubSeq(text, 1, Len(text))
        BY <1>1 DEF LzwInv, FoundInv, CodesAndDroppedAreText
      <3>3. foundChars \in Seq(Char) /\ text \in Seq(Char)
        BY DEF LzwInv, LzwTypes
      <3>4. foundChars \o <<>> = foundChars /\ SubSeq(text, 1, Len(text)) = text
        BY <3>3
      <3>5. QED
        BY <1>1, <3>1, <3>2, <3>4 DEF CodesAndDroppedAreText
    <2>7. QED
      BY <2>3, <2>4, <2>5, <2>6 DEF LzwInv
  <1>4. QED
    BY <1>2, <1>3

LEMMA StepKeepsLzw == LzwInv /\ LzwStep => LzwInv'
  <1> SUFFICES ASSUME LzwInv, LzwStep PROVE LzwInv'
    OBVIOUS
  <1>1. CASE \E t \in Seq(Char) : Begin(t)
    BY <1>1, BeginKeeps
  <1>2. CASE EncodeStep
    BY <1>2, ExtendKeeps, MissKeeps, FinishKeeps DEF EncodeStep
  <1>3. CASE UNCHANGED lzw_vars
    <2>1. Expanded' = Expanded
      BY <1>3 DEF lzw_vars, Expanded, Piece
    <2>2. QED
      BY <1>3, <2>1 DEF lzw_vars, LzwInv, LzwTypes, DictInv, CodesInside, FoundInv,
                        LengthInv, CodesAndDroppedAreText, dictSize
  <1>4. QED
    BY <1>1, <1>2, <1>3 DEF LzwStep

-----------------------------------------------------------------------------
(* The chunks of the file. *)

\* The invariants of module Chunker about the chunks.
CdcInv == P!TileInv /\ P!ChunksInside

LEMMA InitCdc == Init => CdcInv
  <1>1. Cdc!Init => P!Init
    BY DEF Cdc!Init, P!Init, Cdc!initialize_hash, P!initialize_hash
  <1>3. P!Init => P!TileInv /\ P!ChunksInside
    BY CdcAssumptions, P!InitTile, P!InitInside
  <1>4. QED
    BY <1>1, <1>3 DEF Init, CdcInv

\* Every step of the pipeline is a step of cdc or leaves its variables alone.
LEMMA StepOfCdc == [Next]_vars => Cut \/ UNCHANGED cdc_vars
  BY DEF Next, vars, Read, InitTable, Duplicate, Compress, Encode, Insert, FreeTable,
         Report, Printed, End, Exit

LEMMA NextCdc == CdcInv /\ [Next]_vars => CdcInv'
  <1> SUFFICES ASSUME CdcInv, [Next]_vars PROVE CdcInv'
    OBVIOUS
  <1>1. Cdc!Next => P!Next
    BY DEF Cdc!Next, P!Next, Cdc!WriteOutside, P!WriteOutside, Cdc!Inside, P!Inside,
           Cdc!Keep, P!Keep, Cdc!Cut, P!Cut, Cdc!Finish, P!Finish,
           Cdc!Closed, P!Closed, Cdc!Boundary, P!Boundary, Cdc!HashAt, P!HashAt,
           Cdc!update_hash, P!update_hash, Cdc!PRIME_POWER_WINDOW_SIZE,
           P!PRIME_POWER_WINDOW_SIZE, Cdc!initialize_hash, P!initialize_hash
  <1>2. UNCHANGED cdc_vars => UNCHANGED P!vars
    BY DEF cdc_vars, P!vars
  <1>3. [P!Next]_P!vars
    BY <1>1, <1>2, StepOfCdc DEF Cut
  <1>4. P!TileInv' /\ P!ChunksInside'
    BY <1>3, CdcAssumptions, P!NextTile, P!NextInside DEF CdcInv
  <1>5. QED
    BY <1>4 DEF CdcInv

\* A chunk is a string of bytes.
LEMMA ContentIsBytes ==
  ASSUME CdcInv, NEW k \in 1..Len(chunks)
  PROVE  Content(chunks[k]) \in Seq(Byte)
  <1>1. /\ buff \in [0..(MemSize - 1) -> Byte] /\ buff_size \in BuffSizes
        /\ chunks \in Seq([from : Nat, to : Nat, size : Nat])
        /\ chunks[k].size = chunks[k].to - chunks[k].from
        /\ chunks[k].to <= buff_size
    <2>1. /\ buff \in [0..(MemSize - 1) -> Byte] /\ buff_size \in BuffSizes
          /\ chunks \in Seq([from : Nat, to : Nat, size : Nat])
          /\ chunks[k].size = P!Unread(k) + chunks[k].to - chunks[k].from
          /\ chunks[k].to <= buff_size
      BY DEF CdcInv, P!TileInv, P!ChunksInside, P!TypeOK, P!Chunk, P!ChunksTileInput
    <2>2. P!Unread(k) = 0
      BY DEF P!Unread
    <2>3. chunks[k] \in [from : Nat, to : Nat, size : Nat]
      BY <2>1, ElementOfSeq
    <2>4. 0 + chunks[k].to - chunks[k].from = chunks[k].to - chunks[k].from
      BY <2>3
    <2>5. QED
      BY <2>1, <2>2, <2>4
  <1>2. /\ chunks[k].from \in Nat /\ chunks[k].to \in Nat /\ chunks[k].size \in Nat
        /\ buff_size \in Nat /\ MemSize \in Nat /\ buff_size <= MemSize
    <2>1. chunks[k] \in [from : Nat, to : Nat, size : Nat]
      BY <1>1, ElementOfSeq
    <2>2. /\ MemSize \in Nat /\ buff_size \in Nat /\ WINDOW_SIZE \in Nat
          /\ buff_size + WINDOW_SIZE <= MemSize
      BY <1>1, PipelineAssumption, SizesAssumption
    <2>3. QED
      BY <2>1, <2>2
  <1>3. ASSUME NEW m \in 1..chunks[k].size PROVE buff[chunks[k].from + m - 1] \in Byte
    <2> DEFINE f == chunks[k].from
               s == chunks[k].size
               e == chunks[k].to
    <2>0. /\ f \in Nat /\ e \in Nat /\ s = e - f /\ e <= buff_size /\ m \in 1..s
      BY <1>1, <1>2
    <2> HIDE DEF f, s, e
    <2>1. f + m - 1 \in 0..(MemSize - 1)
      BY <1>2, <2>0
    <2> USE DEF f
    <2>2. QED
      BY <1>1, <2>1
  <1>4. Content(chunks[k]) \in [1..chunks[k].size -> Byte]
    BY <1>3 DEF Content
  <1>5. QED
    BY <1>2, <1>4, SeqDef

-----------------------------------------------------------------------------
(* The sum of the bytes, the text and the lists. *)

LEMMA BytesAreCodes == \A b \in Byte : b \in Nat /\ (b # 0 => b \in Char)
  <1>1. \A b \in Byte : b \in 0..CHAR_MAX
    BY PipelineAssumption
  <1>2. \A b \in 0..CHAR_MAX : b \in Nat /\ (b # 0 => b \in Char)
    BY LzwAssumption DEF Char
  <1>3. QED
    BY <1>1, <1>2

LEMMA HashIsNat == ASSUME NEW s \in Seq(Byte) PROVE compute_hash(s) \in Nat
  <1> DEFINE N == Len(s)
             step == [n \in 1..N |-> [x \in Nat |-> x + s[n]]]
  <1>1. N \in Nat /\ \A n \in 1..N : s[n] \in Nat
    BY BytesAreCodes
  <1>2. step \in [1..N -> [Nat -> Nat]]
    BY <1>1
  <1>3. \A n \in 1..N, x \in Nat : step[n][x] = x + s[n]
    OBVIOUS
  <1> HIDE DEF N, step
  <1>4. PICK f \in [0..N -> Nat] : P!Runs(f, 0, step, N)
    BY <1>1, <1>2, CdcAssumptions, P!Iterate
  <1>5. \A n \in 1..N : f[n] = f[n - 1] + s[n]
    <2>1. ASSUME NEW n \in 1..N PROVE f[n] = f[n - 1] + s[n]
      <3>1. f[n - 1] \in Nat
        BY <1>1
      <3>2. QED
        BY <1>3, <1>4, <3>1 DEF P!Runs
    <2>2. QED
      BY <2>1
  <1> DEFINE Table(h) == h = [n \in 0..N |-> IF n = 0 THEN 0 ELSE h[n - 1] + s[n]]
             C == CHOOSE h : Table(h)
  <1>6. Table(f)
    <2>1. \A n \in 0..N : f[n] = IF n = 0 THEN 0 ELSE f[n - 1] + s[n]
      <3>1. \A n \in 0..N : n = 0 \/ n \in 1..N
        BY <1>1
      <3>2. f[0] = 0
        BY <1>4 DEF P!Runs
      <3>3. QED
        BY Zenon, <1>5, <3>1, <3>2
    <2>2. f = [n \in 0..N |-> f[n]]
      BY Zenon, <1>4
    <2>3. QED
      BY Zenon, <2>1, <2>2
  <1>7. Table(C)
    BY Zenon, <1>6
  <1>8. compute_hash(s) = C[N]
    BY Zenon DEF compute_hash, N
  <1> HIDE DEF C
  <1>9. C[0] = f[0]
    BY <1>1, <1>4, <1>7 DEF P!Runs
  <1>10. ASSUME NEW n \in 1..N, C[n - 1] = f[n - 1] PROVE C[n] = f[n]
    <2>1. n \in 0..N /\ n # 0
      BY <1>1
    <2>2. C[n] = C[n - 1] + s[n]
      BY <1>7, <2>1
    <2>3. QED
      BY <1>5, <1>10, <2>2
  <1> HIDE DEF Table
  <1>11. \A n \in 0..N : C[n] = f[n]
    <2> DEFINE T == {n \in Nat : n <= N => C[n] = f[n]}
    <2>1. 0 \in T
      BY <1>9
    <2>2. ASSUME NEW n \in Nat, n \in T PROVE n + 1 \in T
      <3>1. SUFFICES ASSUME n + 1 <= N PROVE C[n + 1] = f[n + 1]
        OBVIOUS
      <3>2. n + 1 \in 1..N /\ (n + 1) - 1 = n /\ C[n] = f[n]
        BY <1>1, <2>2, <3>1
      <3>3. QED
        BY <1>10, <3>2
    <2> HIDE DEF T
    <2>3. \A n \in Nat : n \in T
      BY <2>1, <2>2, CdcAssumptions, P!Induct
    <2>4. QED
      BY <1>1, <2>3 DEF T
  <1>12. N \in 0..N
    BY <1>1
  <1>13. QED
    BY <1>8, <1>11, <1>12

\* What strlen takes has no NUL.
LEMMA TextIsChars ==
  ASSUME NEW s \in Seq(Byte), NEW t \in Tails
  PROVE  TextOf(s, t) \in Seq(Char)
  <1> DEFINE all == s \o t
             I == {n \in 1..Len(all) : all[n] = 0}
             nul == IF I # {} THEN Min(I) ELSE 0
  <1>1. all \in Seq(Byte)
    BY PipelineAssumption
  <1>2. TextOf(s, t) = IF nul = 0 THEN all ELSE SubSeq(all, 1, nul - 1)
    BY Zenon DEF TextOf, SelectInSeq
  <1> HIDE DEF all
  <1>3. \A n \in 1..Len(all) : all[n] # 0 => all[n] \in Char
    BY <1>1, BytesAreCodes
  <1>4. CASE I = {}
    <2>1. \A n \in 1..Len(all) : all[n] \in Char
      BY <1>3, <1>4
    <2>2. all \in Seq(Char)
      BY <1>1, <2>1
    <2>3. QED
      BY <1>2, <1>4, <2>2
  <1>5. CASE I # {}
    <2>1. PICK m \in I : \A n \in I : m <= n
      <3>1. I \subseteq Nat
        BY <1>1
      <3> HIDE DEF I
      <3>2. QED
        BY <1>5, <3>1, CdcAssumptions, P!LeastOf
    <2>2. nul \in I /\ \A n \in I : nul <= n
      <3>1. nul = CHOOSE x \in I : \A y \in I : x <= y
        BY <1>5, Zenon DEF Min
      <3> HIDE DEF I, nul
      <3>2. QED
        BY <2>1, <3>1
    <2>3. nul \in 1..Len(all) /\ nul # 0
      BY <1>1, <2>2
    <2>4. \A n \in 1..(nul - 1) : all[n] \in Char
      <3>1. ASSUME NEW n \in 1..(nul - 1) PROVE all[n] \in Char
        <4>1. n \in 1..Len(all) /\ ~ (nul <= n)
          BY <1>1, <2>3
        <4>2. n \notin I
          BY <2>2, <4>1
        <4>3. QED
          BY <1>3, <4>1, <4>2
      <3>2. QED
        BY <3>1
    <2> HIDE DEF I, nul
    <2>5. SubSeq(all, 1, nul - 1) \in Seq(Char)
      <3> DEFINE u == SubSeq(all, 1, nul - 1)
      <3>1. u \in Seq(Byte) /\ Len(u) = nul - 1 /\ \A n \in 1..(nul - 1) : u[n] = all[n]
        BY <1>1, <2>3
      <3>2. \A n \in 1..Len(u) : u[n] \in Char
        BY <2>4, <3>1
      <3> HIDE DEF u
      <3>3. u \in Seq(Char)
        BY <3>1, <3>2
      <3>4. QED
        BY <3>3 DEF u
    <2>6. QED
      BY <1>2, <2>3, <2>5 DEF nul
  <1>6. QED
    BY <1>4, <1>5

-----------------------------------------------------------------------------
(* The table. *)

Bucket == 0..(HASH_TABLE_SIZE - 1)
Entry == [key : Nat, value : Seq(Nat)]
Call == [bytes : Seq(Byte), text : Seq(Char), codes : Seq(Nat),
         outcome : {"duplicate", "empty", "stored", "unlisted"}]

TableTypes ==
  /\ table \in [Bucket -> Seq(Entry)]
  /\ calls \in Seq(Call)
  /\ unique_chunks \in Seq(Seq(Byte))
  /\ next \in Nat \ {0}

List(key) == table[key % HASH_TABLE_SIZE]

\* Entry e is the first one of its list with the key.
IsHit(key, e) ==
  /\ e \in 1..Len(List(key)) /\ List(key)[e].key = key
  /\ \A d \in 1..(e - 1) : List(key)[d].key # key

LEMMA ListTypes ==
  ASSUME TableTypes, NEW key \in Nat
  PROVE  /\ key % HASH_TABLE_SIZE \in Bucket
         /\ List(key) \in Seq(Entry) /\ Len(List(key)) \in Nat
         /\ \A e \in 1..Len(List(key)) : List(key)[e] \in Entry
  <1>1. key % HASH_TABLE_SIZE \in Bucket
    <2>1. HASH_TABLE_SIZE \in Nat \ {0}
      BY PipelineAssumption
    <2>2. QED
      BY <2>1 DEF Bucket
  <1>2. List(key) \in Seq(Entry)
    BY <1>1 DEF TableTypes, List
  <1>3. QED
    BY <1>1, <1>2, ElementOfSeq

\* A lookup returns the codes of the first entry with the key.
LEMMA LookupHit ==
  ASSUME TableTypes, NEW key \in Nat, NEW e, IsHit(key, e)
  PROVE  lookup_hash_table(key) = List(key)[e].value
  <1> DEFINE list == List(key)
             I == {n \in 1..Len(list) : list[n].key = key}
             first == IF I # {} THEN Min(I) ELSE 0
  <1>1. lookup_hash_table(key) = IF first = 0 THEN <<>> ELSE list[first].value
    BY Zenon DEF lookup_hash_table, SelectInSeq, List
  <1>2. Len(list) \in Nat
    BY ListTypes
  <1>3. e \in I /\ \A n \in I : e <= n
    <2>1. e \in I
      BY DEF IsHit
    <2>2. ASSUME NEW n \in I, ~ (e <= n) PROVE FALSE
      <3>1. n \in 1..(e - 1)
        BY <1>2, <2>1, <2>2
      <3>2. QED
        BY <2>2, <3>1 DEF IsHit
    <2>3. QED
      BY <2>1, <2>2
  <1>4. I \subseteq Nat
    BY <1>2
  <1>5. first = CHOOSE x \in I : \A y \in I : x <= y
    BY <1>3, Zenon DEF Min
  <1> HIDE DEF I, first
  <1>6. first = e
    <2>1. first \in I /\ \A n \in I : first <= n
      BY <1>3, <1>5, Zenon
    <2>2. first <= e /\ e <= first /\ first \in Nat /\ e \in Nat
      BY <1>3, <1>4, <2>1
    <2>3. QED
      BY <2>2
  <1>7. e # 0
    BY <1>2 DEF IsHit
  <1>8. QED
    BY <1>1, <1>6, <1>7

\* If there is an entry with the key there is a first one.
LEMMA HitExists ==
  ASSUME TableTypes, NEW key \in Nat,
         NEW x \in 1..Len(List(key)), List(key)[x].key = key
  PROVE  \E e \in 1..Len(List(key)) : IsHit(key, e)
  <1> DEFINE I == {n \in 1..Len(List(key)) : List(key)[n].key = key}
  <1>1. Len(List(key)) \in Nat
    BY ListTypes
  <1>2. x \in I /\ I \subseteq Nat
    BY <1>1
  <1>3. PICK e \in I : \A n \in I : e <= n
    <2> HIDE DEF I
    <2> QED
      BY <1>2, CdcAssumptions, P!LeastOf
  <1>4. ASSUME NEW d \in 1..(e - 1) PROVE List(key)[d].key # key
    <2>1. d \in 1..Len(List(key)) /\ ~ (e <= d)
      BY <1>1, <1>3
    <2>2. QED
      BY <1>3, <2>1
  <1>5. QED
    BY <1>3, <1>4 DEF IsHit

\* A lookup that finds something has found the codes of an entry with the key.
LEMMA LookupIsEntry ==
  ASSUME TableTypes, NEW key \in Nat, lookup_hash_table(key) # <<>>
  PROVE  \E e \in 1..Len(List(key)) :
           List(key)[e].key = key /\ lookup_hash_table(key) = List(key)[e].value
  <1>1. CASE \E x \in 1..Len(List(key)) : List(key)[x].key = key
    <2>1. PICK e \in 1..Len(List(key)) : IsHit(key, e)
      BY <1>1, HitExists
    <2>2. QED
      BY <2>1, LookupHit DEF IsHit
  <1>2. CASE \A x \in 1..Len(List(key)) : List(key)[x].key # key
    <2> DEFINE list == List(key)
               I == {n \in 1..Len(list) : list[n].key = key}
               first == IF I # {} THEN Min(I) ELSE 0
    <2>1. lookup_hash_table(key) = IF first = 0 THEN <<>> ELSE list[first].value
      BY Zenon DEF lookup_hash_table, SelectInSeq, List
    <2>2. I = {}
      BY <1>2
    <2>3. QED
      BY <2>1, <2>2
  <1>3. QED
    BY <1>1, <1>2

-----------------------------------------------------------------------------
(* The calls and the entries. *)

\* The chunks are still being deduplicated: the table has not been freed.
Filling == pc \notin {"report", "print", "end"}

HashOf(n) == compute_hash(calls[n].bytes)

\* The first call with its key whose codes were inserted.
IsFirstStored(n) ==
  /\ calls[n].outcome = "stored"
  /\ \A m \in 1..Len(calls) :
       calls[m].outcome = "stored" /\ HashOf(m) = HashOf(n) => n <= m

\* Every entry of the table is what some call inserted.
EntriesAreCalls ==
  \A b \in Bucket : \A e \in 1..Len(table[b]) :
    \E m \in 1..Len(calls) :
      /\ calls[m].outcome = "stored"
      /\ HashOf(m) = table[b][e].key /\ calls[m].codes = table[b][e].value

\* The codes that were inserted are about half as many as their characters.
CodesAreHalf ==
  \A m \in 1..Len(calls) :
    calls[m].outcome = "stored" => Len(calls[m].text) >= 2 * Len(calls[m].codes) - 1

\* The first codes inserted under a key are those of the first entry with it.
FirstIsHit ==
  Filling =>
    \A n \in 1..Len(calls) :
      IsFirstStored(n) =>
        \E e \in 1..Len(List(HashOf(n))) :
          IsHit(HashOf(n), e) /\ List(HashOf(n))[e].value = calls[n].codes

\* A chunk is encoded and inserted only while there is one.
StageInv == pc = "encode" => next <= Len(chunks)

\* The pipeline's inductive invariant.
PipelineInv ==
  /\ LzwInv /\ CdcInv
  /\ TableTypes /\ StageInv
  /\ EntriesAreCalls /\ CodesAreHalf /\ FirstIsHit
  /\ DuplicateIsHalfAsLong

LEMMA InitPipeline == Init => PipelineInv
  <1> SUFFICES ASSUME Init PROVE PipelineInv
    OBVIOUS
  <1>1. LzwInv /\ CdcInv
    BY InitLzw, InitCdc DEF Init
  <1>2. table \in [Bucket -> Seq(Entry)] /\ \A b \in Bucket : table[b] = <<>>
    <2>1. table = [b \in Bucket |-> <<>>]
      BY DEF Init, EmptyTable, Bucket
    <2>2. QED
      BY <2>1
  <1>3. calls = <<>> /\ unique_chunks = <<>> /\ next = 1 /\ pc = "read"
    BY DEF Init
  <1>4. TableTypes /\ StageInv
    BY <1>2, <1>3 DEF TableTypes, StageInv
  <1>5. EntriesAreCalls /\ CodesAreHalf /\ FirstIsHit /\ DuplicateIsHalfAsLong
    BY <1>2, <1>3 DEF EntriesAreCalls, CodesAreHalf, FirstIsHit, DuplicateIsHalfAsLong
  <1>6. QED
    BY <1>1, <1>4, <1>5 DEF PipelineInv

\* What a step can do to the table and to the calls.
Quiet == UNCHANGED <<table, calls>> /\ (Filling' => Filling)

NotListed(c) ==
  /\ c.outcome # "stored" /\ Filling
  /\ calls' = Append(calls, c) /\ UNCHANGED table
  /\ c.outcome = "duplicate" =>
       IsDuplicate(lookup_hash_table(compute_hash(c.bytes)), c.bytes)

Listed(c) ==
  /\ c.outcome = "stored" /\ Filling
  /\ calls' = Append(calls, c)
  /\ insert_hash_table(compute_hash(c.bytes), c.codes)
  /\ Len(c.text) >= 2 * Len(c.codes) - 1

LEMMA BytesTypes ==
  ASSUME PipelineInv, next <= Len(chunks)
  PROVE  Bytes \in Seq(Byte)
  <1>1. chunks \in Seq([from : Nat, to : Nat, size : Nat])
    BY DEF PipelineInv, CdcInv, P!TileInv, P!TypeOK, P!Chunk
  <1>2. next \in 1..Len(chunks)
    BY <1>1 DEF PipelineInv, TableTypes
  <1>3. QED
    BY <1>2, ContentIsBytes DEF PipelineInv, Bytes

LEMMA StepKinds ==
  ASSUME PipelineInv, [Next]_vars
  PROVE  \/ Quiet
         \/ FreeTable
         \/ \E c \in Call : NotListed(c)
         \/ \E c \in Call : Listed(c)
  <1>1. CASE Duplicate
    <2> DEFINE c == [bytes |-> Bytes, text |-> <<>>, codes |-> <<>>,
                     outcome |-> "duplicate"]
    <2>1. Bytes \in Seq(Byte) /\ c \in Call
      BY <1>1, BytesTypes DEF Duplicate, Call
    <2>2. NotListed(c)
      BY <1>1 DEF Duplicate, Return, NotListed, Filling
    <2>3. QED
      BY <2>1, <2>2
  <1>2. CASE Compress
    <2> DEFINE c == [bytes |-> Bytes, text |-> <<>>, codes |-> <<>>, outcome |-> "empty"]
    <2>1. Bytes \in Seq(Byte) /\ c \in Call
      BY <1>2, BytesTypes DEF Compress, Call
    <2>2. CASE lpc' = "idle"
      <3>1. NotListed(c)
        BY <1>2, <2>2 DEF Compress, Return, NotListed, Filling
      <3>2. QED
        BY <2>1, <3>1
    <2>3. CASE lpc' # "idle"
      BY <1>2, <2>3 DEF Compress, Quiet, Filling
    <2>4. QED
      BY <2>2, <2>3
  <1>3. CASE Insert
    <2>1. /\ pc = "encode" /\ lpc = "idle" /\ next <= Len(chunks)
          /\ text \in Seq(Char) /\ result \in Seq(Nat)
          /\ Len(text) >= 2 * Len(result) - 1
      BY <1>3 DEF Insert, PipelineInv, StageInv, LzwInv, LzwTypes, LengthInv
    <2>2. Bytes \in Seq(Byte)
      BY <2>1, BytesTypes
    <2>3. CASE Return("stored", text, result) /\ insert_hash_table(compute_hash(Bytes), result)
      <3> DEFINE c == [bytes |-> Bytes, text |-> text, codes |-> result,
                       outcome |-> "stored"]
      <3>1. c \in Call
        BY <2>1, <2>2 DEF Call
      <3>2. Listed(c)
        BY <2>1, <2>3 DEF Return, Listed, Filling
      <3>3. QED
        BY <3>1, <3>2
    <2>4. CASE Return("unlisted", text, result) /\ UNCHANGED table
      <3> DEFINE c == [bytes |-> Bytes, text |-> text, codes |-> result,
                       outcome |-> "unlisted"]
      <3>1. c \in Call
        BY <2>1, <2>2 DEF Call
      <3>2. NotListed(c)
        BY <2>1, <2>4 DEF Return, NotListed, Filling
      <3>3. QED
        BY <3>1, <3>2
    <2>5. QED
      BY <1>3, <2>3, <2>4 DEF Insert
  <1>4. CASE Read \/ Cut \/ InitTable \/ Encode
    BY <1>4 DEF Read, Cut, InitTable, Encode, cmd_vars, Quiet, Filling
  <1>5. CASE Report \/ Printed \/ End \/ Exit \/ UNCHANGED vars
    BY <1>5 DEF Report, Printed, End, Exit, vars, cmd_vars, Quiet, Filling
  <1>6. QED
    BY <1>1, <1>2, <1>3, <1>4, <1>5 DEF Next

LEMMA CallAppended ==
  ASSUME TableTypes, NEW c \in Call, calls' = Append(calls, c)
  PROVE  /\ Len(calls) \in Nat /\ Len(calls') = Len(calls) + 1
         /\ calls' \in Seq(Call)
         /\ \A n \in 1..Len(calls) : calls'[n] = calls[n]
         /\ calls'[Len(calls) + 1] = c
  BY AppendProperties DEF TableTypes

LEMMA CallTypes ==
  ASSUME TableTypes, NEW n \in 1..Len(calls)
  PROVE  calls[n] \in Call /\ HashOf(n) \in Nat
  <1>1. calls[n] \in Call
    BY ElementOfSeq DEF TableTypes
  <1>2. calls[n].bytes \in Seq(Byte)
    BY <1>1 DEF Call
  <1>3. QED
    BY <1>1, <1>2, HashIsNat DEF HashOf

\* The entry goes to the end of the list of its key.
LEMMA EntryAppended ==
  ASSUME TableTypes, NEW c \in Call, Listed(c)
  PROVE  LET key == compute_hash(c.bytes)
             b == key % HASH_TABLE_SIZE
         IN  /\ key \in Nat /\ b \in Bucket
             /\ table' \in [Bucket -> Seq(Entry)]
             /\ \A a \in Bucket : a # b => table'[a] = table[a]
             /\ Len(table[b]) \in Nat /\ Len(table'[b]) = Len(table[b]) + 1
             /\ \A e \in 1..Len(table[b]) : table'[b][e] = table[b][e]
             /\ table'[b][Len(table[b]) + 1] = [key |-> key, value |-> c.codes]
  <1> DEFINE key == compute_hash(c.bytes)
             b == key % HASH_TABLE_SIZE
             new == [key |-> key, value |-> c.codes]
  <1>1. key \in Nat /\ new \in Entry
    <2>1. c.bytes \in Seq(Byte) /\ c.codes \in Seq(Nat)
      BY DEF Call
    <2>2. QED
      BY <2>1, HashIsNat DEF Entry
  <1>2. table' = [table EXCEPT ![b] = Append(@, new)]
    BY DEF Listed, insert_hash_table
  <1> HIDE DEF key, new
  <1>3. b \in Bucket
    BY <1>1, ListTypes
  <1> HIDE DEF b
  <1>4. table[b] \in Seq(Entry) /\ table \in [Bucket -> Seq(Entry)]
    BY <1>3 DEF TableTypes
  <1>5. table'[b] = Append(table[b], new) /\ \A a \in Bucket : a # b => table'[a] = table[a]
    BY <1>2, <1>3, <1>4
  <1>6. table'[b] \in Seq(Entry)
    BY <1>1, <1>4, <1>5
  <1>7. table' \in [Bucket -> Seq(Entry)]
    BY <1>1, <1>2, <1>3, <1>4
  <1>8. /\ Len(table[b]) \in Nat /\ Len(table'[b]) = Len(table[b]) + 1
        /\ \A e \in 1..Len(table[b]) : table'[b][e] = table[b][e]
        /\ table'[b][Len(table[b]) + 1] = new
    BY <1>1, <1>4, <1>5
  <1>9. QED
    BY <1>1, <1>3, <1>5, <1>7, <1>8 DEF key, b, new

LEMMA NextTableTypes == PipelineInv /\ [Next]_vars => TableTypes'
  <1> SUFFICES ASSUME PipelineInv, [Next]_vars PROVE TableTypes'
    OBVIOUS
  <1>0. TableTypes
    BY DEF PipelineInv
  <1>1. unique_chunks' \in Seq(Seq(Byte))
    <2>1. CASE Insert
      <3>1. Bytes \in Seq(Byte)
        BY <2>1, BytesTypes DEF Insert, PipelineInv, StageInv
      <3>2. QED
        BY <1>0, <2>1, <3>1 DEF Insert, TableTypes
    <2>2. CASE ~ Insert
      <3>1. UNCHANGED unique_chunks
        BY <2>2 DEF Next, vars, cmd_vars, Read, Cut, InitTable, Duplicate, Compress,
           Encode, FreeTable, Report, Printed, End, Exit
      <3>2. QED
        BY <1>0, <3>1 DEF TableTypes
    <2>3. QED
      BY <2>1, <2>2
  <1>2. next' \in Nat \ {0}
    <2>1. next' \in {next, next + 1, 1}
      BY DEF Next, vars, cmd_vars, Read, Cut, InitTable, Duplicate, Compress, Return,
         Insert, Encode, FreeTable, Report, Printed, End, Exit
    <2>2. QED
      BY <1>0, <2>1 DEF TableTypes
  <1>3. table' \in [Bucket -> Seq(Entry)] /\ calls' \in Seq(Call)
    <2>1. CASE Quiet
      BY <1>0, <2>1 DEF Quiet, TableTypes
    <2>2. CASE FreeTable
      <3>1. table' = [b \in Bucket |-> <<>>] /\ UNCHANGED calls
        BY <2>2 DEF FreeTable, EmptyTable, Bucket
      <3>2. QED
        BY <1>0, <3>1 DEF TableTypes
    <2>3. CASE \E c \in Call : NotListed(c)
      BY <1>0, <2>3, CallAppended DEF NotListed, TableTypes
    <2>4. CASE \E c \in Call : Listed(c)
      BY <1>0, <2>4, CallAppended, EntryAppended DEF Listed
    <2>5. QED
      BY <2>1, <2>2, <2>3, <2>4, StepKinds
  <1>4. QED
    BY <1>1, <1>2, <1>3 DEF TableTypes

LEMMA NextStage == PipelineInv /\ [Next]_vars => StageInv'
  <1> SUFFICES ASSUME PipelineInv, [Next]_vars PROVE StageInv'
    OBVIOUS
  <1>1. StageInv
    BY DEF PipelineInv
  <1>2. CASE Compress
    BY <1>2 DEF Compress, Return, StageInv, cdc_vars
  <1>3. CASE Encode
    BY <1>1, <1>3 DEF Encode, StageInv, cdc_vars, cmd_vars
  <1>4. CASE UNCHANGED vars
    BY <1>1, <1>4 DEF vars, StageInv, cdc_vars, cmd_vars
  <1>5. CASE ~ (Compress \/ Encode \/ UNCHANGED vars)
    <2>1. pc' # "encode"
      BY <1>5 DEF Next, Read, Cut, InitTable, Duplicate, Return, Insert, FreeTable,
         Report, Printed, End, Exit
    <2>2. QED
      BY <2>1 DEF StageInv
  <1>6. QED
    BY <1>2, <1>3, <1>4, <1>5

LEMMA NextEntries == PipelineInv /\ [Next]_vars => EntriesAreCalls'
  <1> SUFFICES ASSUME PipelineInv, [Next]_vars PROVE EntriesAreCalls'
    OBVIOUS
  <1>0. TableTypes /\ EntriesAreCalls
    BY DEF PipelineInv
  <1>1. CASE Quiet
    BY <1>0, <1>1 DEF Quiet, EntriesAreCalls, HashOf
  <1>2. CASE FreeTable
    <2>1. table' = [b \in Bucket |-> <<>>]
      BY <1>2 DEF FreeTable, EmptyTable, Bucket
    <2>2. QED
      BY <2>1 DEF EntriesAreCalls
  <1>3. ASSUME NEW c \in Call, calls' = Append(calls, c),
               NEW m \in 1..Len(calls)
        PROVE  m \in 1..Len(calls') /\ calls'[m] = calls[m] /\ HashOf(m)' = HashOf(m)
    BY <1>0, <1>3, CallAppended DEF HashOf
  <1>4. ASSUME NEW c \in Call, NotListed(c) PROVE EntriesAreCalls'
    <2>1. calls' = Append(calls, c) /\ table' = table
      BY <1>4 DEF NotListed
    <2>2. ASSUME NEW b \in Bucket, NEW e \in 1..Len(table[b])
          PROVE  \E m \in 1..Len(calls') :
                   /\ calls'[m].outcome = "stored"
                   /\ HashOf(m)' = table[b][e].key /\ calls'[m].codes = table[b][e].value
      BY <1>0, <1>3, <2>1 DEF EntriesAreCalls
    <2>3. QED
      BY <2>1, <2>2 DEF EntriesAreCalls
  <1>5. ASSUME NEW c \in Call, Listed(c) PROVE EntriesAreCalls'
    <2> DEFINE key == compute_hash(c.bytes)
               k == key % HASH_TABLE_SIZE
    <2>1. calls' = Append(calls, c) /\ c.outcome = "stored"
      BY <1>5 DEF Listed
    <2>2. PICK N \in Nat : N = Len(calls)
      BY <1>0, <2>1, CallAppended
    <2>3. N + 1 \in 1..Len(calls') /\ calls'[N + 1] = c /\ HashOf(N + 1)' = key
      BY <1>0, <2>1, <2>2, CallAppended DEF HashOf
    <2>4. /\ key \in Nat /\ k \in Bucket
          /\ \A a \in Bucket : a # k => table'[a] = table[a]
          /\ Len(table[k]) \in Nat /\ Len(table'[k]) = Len(table[k]) + 1
          /\ \A e \in 1..Len(table[k]) : table'[k][e] = table[k][e]
          /\ table'[k][Len(table[k]) + 1] = [key |-> key, value |-> c.codes]
      BY <1>0, <1>5, EntryAppended
    <2> HIDE DEF key, k
    <2>5. ASSUME NEW b \in Bucket, NEW e \in 1..Len(table[b]), table'[b][e] = table[b][e]
          PROVE  \E m \in 1..Len(calls') :
                   /\ calls'[m].outcome = "stored" /\ HashOf(m)' = table'[b][e].key
                   /\ calls'[m].codes = table'[b][e].value
      BY <1>0, <1>3, <2>1, <2>5 DEF EntriesAreCalls
    <2>6. ASSUME NEW b \in Bucket, NEW e \in 1..Len(table'[b])
          PROVE  \E m \in 1..Len(calls') :
                   /\ calls'[m].outcome = "stored" /\ HashOf(m)' = table'[b][e].key
                   /\ calls'[m].codes = table'[b][e].value
      <3>1. CASE b = k /\ e = Len(table[k]) + 1
        <4>1. table'[b][e].key = key /\ table'[b][e].value = c.codes
          BY <2>4, <3>1
        <4>2. QED
          BY <2>1, <2>3, <4>1
      <3>2. CASE ~ (b = k /\ e = Len(table[k]) + 1)
        <4>1. e \in 1..Len(table[b]) /\ table'[b][e] = table[b][e]
          BY <2>4, <2>6, <3>2
        <4>2. QED
          BY <2>5, <4>1
      <3>3. QED
        BY <3>1, <3>2
    <2>7. QED
      BY <2>6 DEF EntriesAreCalls
  <1>6. QED
    BY <1>1, <1>2, <1>4, <1>5, StepKinds

LEMMA NextHalf == PipelineInv /\ [Next]_vars => CodesAreHalf'
  <1> SUFFICES ASSUME PipelineInv, [Next]_vars PROVE CodesAreHalf'
    OBVIOUS
  <1>0. TableTypes /\ CodesAreHalf
    BY DEF PipelineInv
  <1>1. CASE Quiet \/ FreeTable
    BY <1>0, <1>1 DEF Quiet, FreeTable, CodesAreHalf
  <1>2. ASSUME NEW c \in Call, NotListed(c) \/ Listed(c) PROVE CodesAreHalf'
    <2>1. /\ calls' = Append(calls, c)
          /\ c.outcome = "stored" => Len(c.text) >= 2 * Len(c.codes) - 1
      BY <1>2 DEF NotListed, Listed
    <2>2. /\ Len(calls) \in Nat /\ Len(calls') = Len(calls) + 1
          /\ \A n \in 1..Len(calls) : calls'[n] = calls[n]
          /\ calls'[Len(calls) + 1] = c
      BY <1>0, <2>1, CallAppended
    <2>3. ASSUME NEW m \in 1..Len(calls'), calls'[m].outcome = "stored"
          PROVE  Len(calls'[m].text) >= 2 * Len(calls'[m].codes) - 1
      <3>1. CASE m = Len(calls) + 1
        BY <2>1, <2>2, <2>3, <3>1
      <3>2. CASE m # Len(calls) + 1
        <4>1. m \in 1..Len(calls) /\ calls'[m] = calls[m]
          BY <2>2, <3>2
        <4>2. QED
          BY <1>0, <2>3, <4>1 DEF CodesAreHalf
      <3>3. QED
        BY <3>1, <3>2
    <2>4. QED
      BY <2>3 DEF CodesAreHalf
  <1>3. QED
    BY <1>1, <1>2, StepKinds

\* A call that is first among the calls with one more is first without it.
LEMMA FirstBefore ==
  ASSUME TableTypes, NEW c \in Call, calls' = Append(calls, c),
         NEW n \in 1..Len(calls), IsFirstStored(n)'
  PROVE  IsFirstStored(n) /\ HashOf(n)' = HashOf(n) /\ calls'[n] = calls[n]
  <1>1. /\ Len(calls) \in Nat /\ Len(calls') = Len(calls) + 1
        /\ \A m \in 1..Len(calls) : calls'[m] = calls[m]
    BY CallAppended
  <1>2. \A m \in 1..Len(calls) : m \in 1..Len(calls') /\ HashOf(m)' = HashOf(m)
    BY <1>1 DEF HashOf
  <1>3. QED
    BY <1>1, <1>2 DEF IsFirstStored

LEMMA NextFirst == PipelineInv /\ [Next]_vars => FirstIsHit'
  <1> SUFFICES ASSUME PipelineInv, [Next]_vars, Filling' PROVE FirstIsHit'
    BY DEF FirstIsHit
  <1>0. TableTypes /\ FirstIsHit /\ EntriesAreCalls
    BY DEF PipelineInv
  <1>1. CASE Quiet
    <2>1. Filling
      BY <1>1 DEF Quiet
    <2>2. QED
      BY <1>0, <1>1, <2>1 DEF Quiet, FirstIsHit, IsFirstStored, HashOf, IsHit, List
  <1>2. CASE FreeTable
    BY <1>2 DEF FreeTable, Filling
  <1>3. ASSUME NEW c \in Call, NotListed(c) PROVE FirstIsHit'
    <2>1. calls' = Append(calls, c) /\ table' = table /\ Filling /\ c.outcome # "stored"
      BY <1>3 DEF NotListed
    <2>2. ASSUME NEW n \in 1..Len(calls'), IsFirstStored(n)'
          PROVE  n \in 1..Len(calls)
      <3>1. calls'[n].outcome = "stored"
        BY <2>2 DEF IsFirstStored
      <3>2. n # Len(calls) + 1
        BY <1>0, <2>1, <3>1, CallAppended
      <3>3. QED
        BY <1>0, <2>1, <3>2, CallAppended
    <2>3. ASSUME NEW n \in 1..Len(calls'), IsFirstStored(n)'
          PROVE  \E e \in 1..Len(List(HashOf(n))') :
                   IsHit(HashOf(n), e)' /\ (List(HashOf(n))[e].value = calls[n].codes)'
      <3>1. n \in 1..Len(calls)
        BY <2>2, <2>3
      <3>2. IsFirstStored(n) /\ HashOf(n)' = HashOf(n) /\ calls'[n] = calls[n]
        BY <1>0, <2>1, <2>3, <3>1, FirstBefore
      <3>3. PICK e \in 1..Len(List(HashOf(n))) :
              IsHit(HashOf(n), e) /\ List(HashOf(n))[e].value = calls[n].codes
        BY <1>0, <2>1, <3>1, <3>2 DEF FirstIsHit
      <3>4. List(HashOf(n))' = List(HashOf(n))
        BY <2>1, <3>2 DEF List
      <3>5. QED
        BY <3>2, <3>3, <3>4 DEF IsHit
    <2>4. QED
      BY <2>3 DEF FirstIsHit
  <1>4. ASSUME NEW c \in Call, Listed(c) PROVE FirstIsHit'
    <2> DEFINE key == compute_hash(c.bytes)
               k == key % HASH_TABLE_SIZE
    <2>1. calls' = Append(calls, c) /\ c.outcome = "stored" /\ Filling
      BY <1>4 DEF Listed
    <2>2. PICK N \in Nat : N = Len(calls)
      BY <1>0, <2>1, CallAppended
    <2>3. /\ Len(calls') = N + 1 /\ calls'[N + 1] = c /\ HashOf(N + 1)' = key
          /\ \A n \in 1..N : calls'[n] = calls[n]
      BY <1>0, <2>1, <2>2, CallAppended DEF HashOf
    <2>4. /\ key \in Nat /\ k \in Bucket
          /\ \A a \in Bucket : a # k => table'[a] = table[a]
          /\ Len(table[k]) \in Nat /\ Len(table'[k]) = Len(table[k]) + 1
          /\ \A e \in 1..Len(table[k]) : table'[k][e] = table[k][e]
          /\ table'[k][Len(table[k]) + 1] = [key |-> key, value |-> c.codes]
      BY <1>0, <1>4, EntryAppended
    <2>5. k = key % HASH_TABLE_SIZE
      OBVIOUS
    <2> HIDE DEF key, k
    <2>6. ASSUME NEW n \in 1..N, IsFirstStored(n)'
          PROVE  \E e \in 1..Len(List(HashOf(n))') :
                   IsHit(HashOf(n), e)' /\ (List(HashOf(n))[e].value = calls[n].codes)'
      <3>1. IsFirstStored(n) /\ HashOf(n)' = HashOf(n) /\ calls'[n] = calls[n]
        BY <1>0, <2>1, <2>2, <2>6, FirstBefore
      <3>2. PICK e \in 1..Len(List(HashOf(n))) :
              IsHit(HashOf(n), e) /\ List(HashOf(n))[e].value = calls[n].codes
        BY <1>0, <2>1, <2>2, <3>1 DEF FirstIsHit
      <3> DEFINE b == HashOf(n) % HASH_TABLE_SIZE
      <3>3. b \in Bucket /\ Len(table[b]) \in Nat
        BY <1>0, <2>2, CallTypes, ListTypes DEF List
      <3>4. /\ Len(table[b]) <= Len(table'[b])
            /\ \A d \in 1..Len(table[b]) : table'[b][d] = table[b][d]
        <4>1. CASE b = k
          BY <2>4, <3>3, <4>1
        <4>2. CASE b # k
          BY <2>4, <3>3, <4>2
        <4>3. QED
          BY <4>1, <4>2
      <3>5. List(HashOf(n)) = table[b] /\ List(HashOf(n))' = table'[b]
        BY <3>1 DEF List
      <3> HIDE DEF b
      <3>6. e \in 1..Len(table[b]) /\ e \in 1..Len(table'[b]) /\ Len(table'[b]) \in Nat
        <4>1. Len(table'[b]) \in Nat
          BY <2>4, <3>3
        <4>2. QED
          BY <3>2, <3>3, <3>4, <3>5, <4>1
      <3>7. \A d \in 1..(e - 1) : d \in 1..Len(table[b])
        BY <3>3, <3>6
      <3>8. /\ table[b][e].key = HashOf(n) /\ table[b][e].value = calls[n].codes
            /\ \A d \in 1..(e - 1) : table[b][d].key # HashOf(n)
        BY <3>2, <3>5 DEF IsHit
      <3>9. IsHit(HashOf(n), e)' /\ (List(HashOf(n))[e].value = calls[n].codes)'
        BY <3>1, <3>4, <3>5, <3>6, <3>7, <3>8 DEF IsHit
      <3>10. QED
        BY <3>5, <3>6, <3>9
    <2>7. ASSUME IsFirstStored(N + 1)'
          PROVE  \E e \in 1..Len(List(HashOf(N + 1))') :
                   IsHit(HashOf(N + 1), e)' /\ (List(HashOf(N + 1))[e].value = calls[N + 1].codes)'
      <3>0. PICK e \in Nat : e = Len(table[k]) + 1
        BY <2>4
      <3>1. ASSUME NEW d \in 1..(e - 1) PROVE table'[k][d].key # key
        <4>1. d \in 1..Len(table[k]) /\ table'[k][d] = table[k][d]
          BY <2>4, <3>0
        <4>2. PICK m \in 1..Len(calls) :
                calls[m].outcome = "stored" /\ HashOf(m) = table[k][d].key
          BY <1>0, <2>4, <4>1 DEF EntriesAreCalls
        <4>3. m \in 1..Len(calls') /\ calls'[m] = calls[m] /\ ~ (N + 1 <= m)
              /\ HashOf(m)' = HashOf(m)
          BY <2>2, <2>3 DEF HashOf
        <4>4. HashOf(m)' # HashOf(N + 1)'
          BY <2>7, <4>2, <4>3 DEF IsFirstStored
        <4>5. QED
          BY <2>3, <4>1, <4>2, <4>3, <4>4
      <3>2. List(HashOf(N + 1))' = table'[k]
        BY <2>3, <2>5 DEF List
      <3>3. e \in 1..Len(table'[k]) /\ table'[k][e] = [key |-> key, value |-> c.codes]
        BY <2>4, <3>0
      <3>4. IsHit(HashOf(N + 1), e)'
        BY <2>3, <3>1, <3>2, <3>3 DEF IsHit
      <3>5. QED
        BY <2>3, <3>2, <3>3, <3>4
    <2>8. \A n \in 1..Len(calls') : n \in 1..N \/ n = N + 1
      BY <2>3
    <2>9. QED
      BY <2>6, <2>7, <2>8 DEF FirstIsHit
  <1>5. QED
    BY <1>1, <1>2, <1>3, <1>4, StepKinds

LEMMA NextDuplicate == PipelineInv /\ [Next]_vars => DuplicateIsHalfAsLong'
  <1> SUFFICES ASSUME PipelineInv, [Next]_vars PROVE DuplicateIsHalfAsLong'
    OBVIOUS
  <1>0. TableTypes /\ EntriesAreCalls /\ CodesAreHalf /\ DuplicateIsHalfAsLong
    BY DEF PipelineInv
  <1>1. CASE Quiet \/ FreeTable
    BY <1>0, <1>1 DEF Quiet, FreeTable, DuplicateIsHalfAsLong
  <1>2. ASSUME NEW c \in Call, NotListed(c) \/ Listed(c) PROVE DuplicateIsHalfAsLong'
    <2>1. /\ calls' = Append(calls, c)
          /\ c.outcome = "duplicate" =>
               IsDuplicate(lookup_hash_table(compute_hash(c.bytes)), c.bytes)
      BY <1>2 DEF NotListed, Listed
    <2>2. /\ Len(calls) \in Nat /\ Len(calls') = Len(calls) + 1
          /\ \A n \in 1..Len(calls) : calls'[n] = calls[n]
          /\ calls'[Len(calls) + 1] = c
      BY <1>0, <2>1, CallAppended
    <2> DEFINE key == compute_hash(c.bytes)
    <2>3. ASSUME c.outcome = "duplicate"
          PROVE  \E m \in 1..Len(calls) :
                   /\ calls[m].outcome = "stored"
                   /\ compute_hash(calls[m].bytes) = key
                   /\ Len(calls[m].text) >= 2 * Len(c.bytes) - 1
      <3>1. key \in Nat
        BY HashIsNat DEF Call
      <3>2. /\ lookup_hash_table(key) # <<>>
            /\ Len(lookup_hash_table(key)) = Len(c.bytes)
        BY <2>1, <2>3 DEF IsDuplicate
      <3> HIDE DEF key
      <3>3. PICK e \in 1..Len(List(key)) :
              List(key)[e].key = key /\ lookup_hash_table(key) = List(key)[e].value
        BY <1>0, <3>1, <3>2, LookupIsEntry
      <3>4. key % HASH_TABLE_SIZE \in Bucket
        BY <1>0, <3>1, ListTypes
      <3>5. PICK m \in 1..Len(calls) :
              /\ calls[m].outcome = "stored"
              /\ HashOf(m) = key /\ calls[m].codes = lookup_hash_table(key)
        BY <1>0, <3>3, <3>4 DEF EntriesAreCalls, List
      <3>6. Len(calls[m].text) >= 2 * Len(calls[m].codes) - 1
        BY <1>0, <3>5 DEF CodesAreHalf
      <3>7. QED
        BY <3>2, <3>5, <3>6 DEF HashOf
    <2>4. ASSUME NEW n \in 1..Len(calls'), calls'[n].outcome = "duplicate"
          PROVE  \E m \in 1..(n - 1) :
                   /\ calls'[m].outcome = "stored"
                   /\ compute_hash(calls'[m].bytes) = compute_hash(calls'[n].bytes)
                   /\ Len(calls'[m].text) >= 2 * Len(calls'[n].bytes) - 1
      <3>1. CASE n = Len(calls) + 1
        <4>1. c.outcome = "duplicate" /\ calls'[n] = c
          BY <2>2, <2>4, <3>1
        <4>2. PICK m \in 1..Len(calls) :
                /\ calls[m].outcome = "stored"
                /\ compute_hash(calls[m].bytes) = key
                /\ Len(calls[m].text) >= 2 * Len(c.bytes) - 1
          BY <2>3, <4>1
        <4>3. m \in 1..(n - 1) /\ calls'[m] = calls[m]
          BY <2>2, <3>1
        <4>4. QED
          BY <4>1, <4>2, <4>3
      <3>2. CASE n # Len(calls) + 1
        <4>1. n \in 1..Len(calls) /\ calls'[n] = calls[n]
          BY <2>2, <3>2
        <4>2. PICK m \in 1..(n - 1) :
                /\ calls[m].outcome = "stored"
                /\ compute_hash(calls[m].bytes) = compute_hash(calls[n].bytes)
                /\ Len(calls[m].text) >= 2 * Len(calls[n].bytes) - 1
          BY <1>0, <2>4, <4>1 DEF DuplicateIsHalfAsLong
        <4>3. m \in 1..Len(calls) /\ calls'[m] = calls[m]
          BY <2>2, <4>1
        <4>4. QED
          BY <4>1, <4>2, <4>3
      <3>3. QED
        BY <3>1, <3>2
    <2>5. QED
      BY <2>4 DEF DuplicateIsHalfAsLong
  <1>3. QED
    BY <1>1, <1>2, StepKinds

\* The encoder is called with texts of characters, or not at all.
LEMMA StepOfLzw == PipelineInv /\ [Next]_vars => LzwStep
  <1> SUFFICES ASSUME PipelineInv, [Next]_vars PROVE LzwStep
    OBVIOUS
  <1>1. CASE Compress
    <2>1. Bytes \in Seq(Byte)
      BY <1>1, BytesTypes DEF Compress
    <2>2. QED
      BY <1>1, <2>1, TextIsChars DEF Compress, LzwStep
  <1>2. CASE Report
    <2>1. unique_chunks[next] \in Seq(Byte)
      <3>1. next \in 1..Len(unique_chunks)
        BY <1>2 DEF Report, PipelineInv, TableTypes
      <3>2. QED
        BY <3>1 DEF PipelineInv, TableTypes
    <2>2. QED
      BY <1>2, <2>1, TextIsChars DEF Report, LzwStep
  <1>3. CASE Encode
    BY <1>3 DEF Encode, LzwStep
  <1>4. CASE ~ (Compress \/ Report \/ Encode)
    BY <1>4 DEF Next, vars, Read, Cut, InitTable, Duplicate, Insert, FreeTable,
       Printed, End, Exit, LzwStep
  <1>5. QED
    BY <1>1, <1>2, <1>3, <1>4

LEMMA NextPipeline == PipelineInv /\ [Next]_vars => PipelineInv'
  <1> SUFFICES ASSUME PipelineInv, [Next]_vars PROVE PipelineInv'
    OBVIOUS
  <1>1. LzwInv'
    BY StepOfLzw, StepKeepsLzw DEF PipelineInv
  <1>2. CdcInv'
    BY NextCdc DEF PipelineInv
  <1>3. TableTypes' /\ StageInv' /\ EntriesAreCalls' /\ CodesAreHalf'
    BY NextTableTypes, NextStage, NextEntries, NextHalf
  <1>4. FirstIsHit' /\ DuplicateIsHalfAsLong'
    BY NextFirst, NextDuplicate
  <1>5. QED
    BY <1>1, <1>2, <1>3, <1>4 DEF PipelineInv

LEMMA SpecPipeline == Spec => []PipelineInv
  BY InitPipeline, NextPipeline, PTL DEF Spec

-----------------------------------------------------------------------------
(* The results. *)

\* encode neither loses nor repeats a character: what the codes stand for, each
\* with the character dropped after it, is the text read so far, for every
\* dictionary that earlier calls have left (lzw.cpp:211-288).
THEOREM NoCharacterIsLost == Spec => []CodesAndDroppedAreText
  <1>1. PipelineInv => CodesAndDroppedAreText
    BY DEF PipelineInv, LzwInv
  <1>2. QED
    BY <1>1, SpecPipeline, PTL

\* A chunk is a duplicate only of one almost twice as long (cmd.cpp:141-152).
THEOREM DuplicatesAreLonger == Spec => []DuplicateIsHalfAsLong
  <1>1. PipelineInv => DuplicateIsHalfAsLong
    BY DEF PipelineInv
  <1>2. QED
    BY <1>1, SpecPipeline, PTL

\* While chunks are deduplicated the first codes inserted under a key are the
\* ones a lookup returns (cmd.cpp:94-126).
THEOREM FirstIsFound == Spec => []FirstStoredDecides
  <1>1. ASSUME PipelineInv PROVE FirstStoredDecides
    <2>1. SUFFICES ASSUME pc = "dedup", NEW n \in 1..Len(calls),
                          calls[n].outcome = "stored",
                          \A m \in StoredUnder(HashOf(n)) : n <= m
                   PROVE  lookup_hash_table(HashOf(n)) = calls[n].codes
      BY DEF FirstStoredDecides, HashOf
    <2>2. IsFirstStored(n) /\ Filling
      BY <2>1 DEF IsFirstStored, StoredUnder, HashOf, Filling
    <2>3. PICK e \in 1..Len(List(HashOf(n))) :
            IsHit(HashOf(n), e) /\ List(HashOf(n))[e].value = calls[n].codes
      BY <1>1, <2>2 DEF PipelineInv, FirstIsHit
    <2>4. HashOf(n) \in Nat
      BY <1>1, CallTypes DEF PipelineInv
    <2>5. QED
      BY <1>1, <2>3, <2>4, LookupHit DEF PipelineInv
  <1>2. QED
    BY <1>1, SpecPipeline, PTL
=============================================================================
