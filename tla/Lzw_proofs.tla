----------------------------- MODULE Lzw_proofs ----------------------------
(***************************************************************************)
(* Proofs about the LZW kernel for every input, every sequence of codes,    *)
(* valid or not, and every size of the dictionary and of the arrays; and    *)
(* about the stream decoder for every file of valid blocks, whole or cut    *)
(* off, and every width of bytes and codes.                                 *)
(*                                                                         *)
(* The encoder's StringsFit is about a store the code does not check.  It   *)
(* holds because the dictionary grows slowly: an entry of L characters      *)
(* needs L * (L-1) / 2 characters of input before the phrase that is        *)
(* matched now, and a phrase is only matched when the dictionary has it.    *)
(* PhraseGrowth says so.                                                    *)
(*                                                                         *)
(* The decoder's StaysInBounds is not inductive: a code that is not in the  *)
(* dictionary yet appends a character to prev without a check, so prev must *)
(* be shorter than its array by two.  It is, because it was written to the  *)
(* output, which is checked.                                                *)
(*                                                                         *)
(* lzw_fpga decodes what it has encoded: for every input, dictionary and    *)
(* array size, what the decoder has written is the beginning of the input,  *)
(* every code is known to it in time, and an input that fits comes back.    *)
(* The codes cut the input into phrases.  The cuts b are a witness: phrase  *)
(* j is the characters after b[j - 1] up to b[j], code j is its code, and   *)
(* entry CHAR_MAX + j is the phrase with the next character.  The decoder   *)
(* rebuilds the entries from the same cuts, one behind the encoder.         *)
(*                                                                         *)
(* The stream decoder is right for the same reason, but finds its codes in  *)
(* bits.  Code m of a chunk has the bits from CODE_LENGTH * m on, which     *)
(* straddle bytes; ReadsCode puts them together again, and LoopCounts says  *)
(* that counting whole bytes the loop ends behind the last code, not in the *)
(* padding.  A chunk that is cut off may decode to anything, but ends       *)
(* behind the end of the file: StreamInv promises nothing of it else.       *)
(*                                                                         *)
(* Last, the encoder's codes are those of textbook LZW, which LzwReference  *)
(* tabulates code by code.  In its loop the encoder is where GreedyRun is   *)
(* after as many codes, and p is what it looks for next: p is an entry, and *)
(* when p with its next character is not, no entry that the rest of the     *)
(* input begins with is longer, because the beginnings of an entry are      *)
(* entries (Closed).  The first code of p is the one, because no string     *)
(* enters the dictionary twice (Distinct).                                 *)
(***************************************************************************)
EXTENDS Lzw, StreamDecoder, SequenceTheorems, WellFoundedInduction, TLAPS

-----------------------------------------------------------------------------
(* Arithmetic. *)

LEMMA ZeroOrOne == \A x \in Nat : x <= 1 => x \in {0, 1}
  OBVIOUS

LEMMA IntervalGrows == \A a, b \in Nat : b >= a => 0..(a - 1) \subseteq 0..(b - 1)
  OBVIOUS

LEMMA ProductsGrow ==
  ASSUME NEW a \in Nat, NEW b \in Nat, NEW c \in Nat, NEW d \in Nat,
         a >= b, c >= d
  PROVE  a * c >= b * d
  <1>1. a * c >= b * c
    <2>1. PICK x \in Nat : a = b + x
      <3>1. a - b \in Nat /\ a = b + (a - b)
        OBVIOUS
      <3>2. QED
        BY <3>1
    <2>2. a * c = b * c + x * c /\ x * c >= 0
      BY <2>1
    <2>3. QED
      BY <2>2
  <1>2. b * c >= b * d
    <2>1. PICK y \in Nat : c = d + y
      <3>1. c - d \in Nat /\ c = d + (c - d)
        OBVIOUS
      <3>2. QED
        BY <3>1
    <2>2. b * c = b * d + b * y /\ b * y >= 0
      BY <2>1
    <2>3. QED
      BY <2>2
  <1>3. a * c \in Nat /\ b * c \in Nat /\ b * d \in Nat
    OBVIOUS
  <1>4. QED
    BY <1>1, <1>2, <1>3

\* A phrase whose product is below that of the array's size is shorter by two.
LEMMA ProductBounds ==
  ASSUME NEW L \in Nat, NEW I \in Nat \ {0}, L * (L + 1) < I * (I - 1)
  PROVE  L + 1 < I
  <1> SUFFICES ASSUME ~ (L + 1 < I)
               PROVE  FALSE
    OBVIOUS
  <1>1. I - 1 \in Nat /\ L >= I - 1 /\ L + 1 \in Nat /\ L + 1 >= I
    OBVIOUS
  <1>2. L * (L + 1) >= (I - 1) * I
    BY <1>1, ProductsGrow
  <1>3. (I - 1) * I = I * (I - 1)
    OBVIOUS
  <1>4. L * (L + 1) \in Nat /\ I * (I - 1) \in Nat
    BY <1>1
  <1>5. QED
    BY <1>2, <1>3, <1>4

-----------------------------------------------------------------------------
(* The operators. *)

\* string_copy gives a string that fits, and any string that fits unchanged.
LEMMA CopyFits ==
  ASSUME NEW s \in Seq(Char)
  PROVE  /\ string_copy(s) \in Seq(Char)
         /\ Len(string_copy(s)) < INPUT_SIZE
         /\ Len(string_copy(s)) <= Len(s)
         /\ Len(s) < INPUT_SIZE => string_copy(s) = s
  <1>1. CASE Len(s) < INPUT_SIZE
    BY <1>1 DEF string_copy
  <1>2. CASE ~ (Len(s) < INPUT_SIZE)
    <2>1. INPUT_SIZE - 1 \in 0..Len(s)
      BY <1>2, EncoderAssumption
    <2>2. /\ SubSeq(s, 1, INPUT_SIZE - 1) \in Seq(Char)
          /\ Len(SubSeq(s, 1, INPUT_SIZE - 1)) = INPUT_SIZE - 1
      BY <2>1
    <2>3. QED
      BY <1>2, <2>1, <2>2, EncoderAssumption DEF string_copy
  <1>3. QED
    BY <1>1, <1>2

\* temp is p and one character more.
LEMMA TempIsLonger ==
  ASSUME TypeOK, i < Len(input)
  PROVE  /\ input[i + 1] \in Char
         /\ temp \in Seq(Char)
         /\ Len(temp) = Len(p) + 1
  <1>1. input \in Seq(Char) /\ i + 1 \in 1..Len(input)
    BY EncoderAssumption DEF TypeOK
  <1>2. input[i + 1] \in Char
    BY <1>1
  <1>3. <<input[i + 1]>> \in Seq(Char) /\ Len(<<input[i + 1]>>) = 1
    BY <1>2
  <1>4. string_copy(p) = p /\ p \in Seq(Char)
    BY CopyFits DEF TypeOK
  <1>5. p \o <<input[i + 1]>> \in Seq(Char) /\ Len(p \o <<input[i + 1]>>) = Len(p) + 1
    BY <1>3, <1>4
  <1>6. QED
    BY <1>2, <1>4, <1>5 DEF temp

\* The dictionary after a phrase entered it, or after it was found full.
TableOK ==
  /\ table_size \in (CHAR_MAX + 1)..TABLE_SIZE
  /\ table \in [0..(table_size - 1) -> Seq(Char)]
  /\ \A c \in 0..(table_size - 1) : Len(table[c]) < INPUT_SIZE

LEMMA AddPhraseFits ==
  ASSUME TableOK, temp \in Seq(Char), AddPhrase
  PROVE  /\ TableOK'
         /\ table_size' >= table_size
         /\ \A c \in 0..(table_size' - 1) :
              \/ c \in 0..(table_size - 1) /\ table'[c] = table[c]
              \/ table'[c] = string_copy(temp)
  <1>1. CASE table_size < TABLE_SIZE
    <2> DEFINE e == string_copy(temp)
    <2>1. e \in Seq(Char) /\ Len(e) < INPUT_SIZE
      BY CopyFits
    <2>2. /\ table_size' = table_size + 1
          /\ table' = [c \in 0..table_size |-> IF c = table_size THEN e ELSE table[c]]
      BY <1>1 DEF AddPhrase
    <2> HIDE DEF e
    <2>3. table_size' \in (CHAR_MAX + 1)..TABLE_SIZE /\ table_size' >= table_size
      BY <1>1, <2>2, EncoderAssumption DEF TableOK
    <2>4. 0..(table_size' - 1) = 0..table_size
      BY <2>2, EncoderAssumption DEF TableOK
    <2>5. \A c \in 0..table_size : c # table_size => c \in 0..(table_size - 1)
      BY EncoderAssumption DEF TableOK
    <2>6. \A c \in 0..table_size :
            \/ c \in 0..(table_size - 1) /\ table'[c] = table[c]
            \/ table'[c] = e
      BY <2>2, <2>5
    <2>7. \A c \in 0..table_size : table'[c] \in Seq(Char) /\ Len(table'[c]) < INPUT_SIZE
      BY <2>1, <2>6 DEF TableOK
    <2>8. table' \in [0..(table_size' - 1) -> Seq(Char)]
      BY <2>2, <2>4, <2>7
    <2>9. QED
      BY <2>3, <2>4, <2>6, <2>7, <2>8 DEF TableOK, e
  <1>2. CASE ~ (table_size < TABLE_SIZE)
    <2>1. UNCHANGED <<table, table_size>>
      BY <1>2 DEF AddPhrase
    <2>2. TableOK' /\ table_size' >= table_size
      BY <2>1, EncoderAssumption DEF TableOK
    <2>3. QED
      BY <2>1, <2>2
  <1>3. QED
    BY <1>1, <1>2

\* An emitted code names an entry.
LEMMA EmitCodeTyped ==
  ASSUME TableOK, output_code \in Seq(0..(table_size - 1)), EmitCode
  PROVE  output_code' \in Seq(0..(table_size - 1))
  <1>1. CASE CodesOf(p) = {}
    BY <1>1 DEF EmitCode
  <1>2. CASE CodesOf(p) # {}
    <2>1. PICK c \in CodesOf(p) : output_code' = Append(output_code, c)
      BY <1>2 DEF EmitCode
    <2>2. c \in 0..(table_size - 1)
      BY <2>1 DEF CodesOf
    <2>3. QED
      BY <2>1, <2>2
  <1>3. QED
    BY <1>1, <1>2

-----------------------------------------------------------------------------
(* Types. *)

\* The dictionary every call starts with.
LEMMA SingleCharsFit ==
  /\ SingleChars \in [0..CHAR_MAX -> Seq(Char)]
  /\ \A c \in 0..CHAR_MAX : Len(SingleChars[c]) <= 1
  <1>1. \A c \in 0..CHAR_MAX : SingleChars[c] \in Seq(Char) /\ Len(SingleChars[c]) <= 1
    <2> TAKE c \in 0..CHAR_MAX
    <2>1. CASE c = 0
      BY <2>1, EncoderAssumption DEF SingleChars
    <2>2. CASE c # 0
      <3>1. c \in Char /\ SingleChars[c] = <<c>>
        BY <2>2, EncoderAssumption DEF Char, SingleChars
      <3>2. QED
        BY <3>1
    <2>3. QED
      BY <2>1, <2>2
  <1>2. QED
    BY <1>1 DEF SingleChars

LEMMA InitTyped == EncodeInit => TypeOK
  <1> SUFFICES ASSUME EncodeInit
               PROVE  TypeOK
    OBVIOUS
  <1>1. input \in Inputs /\ input \in Seq(Char)
    BY EncoderAssumption DEF EncodeInit
  <1>2. p \in Seq(Char) /\ Len(p) < INPUT_SIZE
    <2>1. CASE input = <<>>
      BY <2>1, EncoderAssumption DEF EncodeInit
    <2>2. CASE input # <<>>
      <3>1. input[1] \in Char
        BY <1>1, <2>2
      <3>2. p = <<input[1]>>
        BY <2>2 DEF EncodeInit
      <3>3. QED
        BY <3>1, <3>2, EncoderAssumption
    <2>3. QED
      BY <2>1, <2>2
  <1>3. table = SingleChars /\ table_size = CHAR_MAX + 1 /\ table_size - 1 = CHAR_MAX
    BY EncoderAssumption DEF EncodeInit
  <1>4. TableOK
    <2>1. \A c \in 0..CHAR_MAX : Len(SingleChars[c]) < INPUT_SIZE
      <3>1. TAKE c \in 0..CHAR_MAX
      <3>2. Len(SingleChars[c]) \in Nat /\ Len(SingleChars[c]) <= 1
        BY SingleCharsFit
      <3>3. QED
        BY <3>2, EncoderAssumption
    <2>2. table_size \in (CHAR_MAX + 1)..TABLE_SIZE
      BY <1>3, EncoderAssumption
    <2>3. table \in [0..(table_size - 1) -> Seq(Char)]
      BY <1>3, SingleCharsFit
    <2>4. QED
      BY <1>3, <2>1, <2>2, <2>3 DEF TableOK
  <1>5. QED
    BY <1>1, <1>2, <1>4 DEF EncodeInit, TypeOK, TableOK

LEMMA NextTyped == TypeOK /\ [EncodeNext]_evars => TypeOK'
  <1> SUFFICES ASSUME TypeOK, [EncodeNext]_evars
               PROVE  TypeOK'
    OBVIOUS
  <1>0. /\ TableOK
        /\ i \in Nat \ {0} /\ i + 1 \in Nat \ {0}
        /\ input \in Inputs
        /\ output_code \in Seq(0..(table_size - 1))
    BY DEF TypeOK, TableOK
  <1>1. CASE Extend
    <2>1. p' = string_copy(temp) /\ temp \in Seq(Char)
      BY <1>1, TempIsLonger DEF Extend
    <2>2. p' \in Seq(Char) /\ Len(p') < INPUT_SIZE
      BY <2>1, CopyFits
    <2>3. QED
      BY <1>0, <1>1, <2>2 DEF Extend, TypeOK
  <1>2. CASE Emit
    <2>1. /\ temp \in Seq(Char) /\ input[i + 1] \in Char
          /\ AddPhrase /\ EmitCode
          /\ p' = <<input[i + 1]>> /\ i' = i + 1
          /\ UNCHANGED <<input, epc>>
      BY <1>2, TempIsLonger DEF Emit
    <2>2. p' \in Seq(Char) /\ Len(p') < INPUT_SIZE
      BY <2>1, EncoderAssumption
    <2>3. TableOK' /\ table_size' >= table_size
      BY <1>0, <2>1, AddPhraseFits
    <2>4. output_code' \in Seq(0..(table_size' - 1))
      <3>1. output_code' \in Seq(0..(table_size - 1))
        BY <1>0, <2>1, EmitCodeTyped
      <3>2. 0..(table_size - 1) \subseteq 0..(table_size' - 1)
        <4>1. table_size \in Nat /\ table_size' \in Nat
          BY <1>0, <2>3, EncoderAssumption DEF TableOK
        <4>2. QED
          BY <2>3, <4>1, IntervalGrows
      <3>3. QED
        BY <3>1, <3>2, SeqMonotonic
    <2>5. QED
      BY <1>0, <2>1, <2>2, <2>3, <2>4 DEF TypeOK, TableOK
  <1>3. CASE EmitLast
    <2>1. EmitCode /\ epc' = "encoded" /\ UNCHANGED <<input, i, p, table, table_size>>
      BY <1>3 DEF EmitLast
    <2>2. output_code' \in Seq(0..(table_size' - 1))
      BY <1>0, <2>1, EmitCodeTyped
    <2>3. QED
      BY <2>1, <2>2 DEF TypeOK
  <1>4. CASE UNCHANGED evars
    BY <1>4 DEF evars, TypeOK
  <1>5. QED
    BY <1>1, <1>2, <1>3, <1>4 DEF EncodeNext

\* The encoder's variables keep their types: the dictionary never outgrows its
\* array and every emitted code names an entry (lzw_hls.cpp:72-85).
THEOREM EncoderTypes == EncodeSpec => []TypeOK
  BY InitTyped, NextTyped, PTL DEF EncodeSpec

-----------------------------------------------------------------------------
(* The growth of phrases. *)

\* Twice the characters of input that came before the phrase matched now.
Before == 2 * (i - Len(p))

\* A string of L characters is in the dictionary, or is being matched, only
\* after L * (L - 1) / 2 characters.
PhraseGrowth ==
  epc = "encode" /\ input # <<>> =>
    /\ i <= Len(input)
    /\ Len(p) \in 1..i
    /\ Len(p) * (Len(p) - 1) <= Before
    /\ \A c \in 0..(table_size - 1) :
         Len(table[c]) * (Len(table[c]) - 1) <= Before

\* The strengthening of StringsFit.
GrowthInv ==
  /\ TypeOK
  /\ ShortEnough => PhraseGrowth

\* A phrase that has grown slowly enough fits with one character more.
LEMMA SlowGrowthFits ==
  ASSUME TypeOK, PhraseGrowth, ShortEnough, epc = "encode", i < Len(input)
  PROVE  Len(p) + 1 < INPUT_SIZE
  <1> DEFINE L == Len(p)
             n == Len(input)
  <1>1. input \in Seq(Char) /\ input # <<>> /\ n \in Nat
    BY EncoderAssumption DEF TypeOK
  <1>2. L \in Nat /\ i \in Nat /\ L * (L - 1) <= 2 * (i - L)
    BY <1>1 DEF TypeOK, PhraseGrowth, Before
  <1>3. 2 * n < INPUT_SIZE * (INPUT_SIZE - 1) + 2
    BY DEF ShortEnough
  <1>4. i + 1 <= n
    BY <1>1, <1>2
  <1> HIDE DEF L, n
  <1>5. L * (L - 1) = L * L - L /\ L * (L + 1) = L * L + L
    BY <1>2
  <1>6. L * L \in Nat /\ L * (L + 1) \in Nat /\ L * (L - 1) \in Int
    BY <1>2
  <1>7. L * (L + 1) <= 2 * i
    BY <1>2, <1>5, <1>6
  <1>8. INPUT_SIZE * (INPUT_SIZE - 1) \in Nat /\ INPUT_SIZE \in Nat \ {0}
    BY EncoderAssumption
  <1>9. L * (L + 1) < INPUT_SIZE * (INPUT_SIZE - 1)
    BY <1>1, <1>2, <1>3, <1>4, <1>6, <1>7, <1>8
  <1>10. L + 1 < INPUT_SIZE
    BY <1>2, <1>8, <1>9, ProductBounds
  <1>11. QED
    BY <1>10 DEF L

LEMMA InitGrowth == EncodeInit => GrowthInv
  <1> SUFFICES ASSUME EncodeInit, input # <<>>
               PROVE  PhraseGrowth
    BY InitTyped DEF GrowthInv, PhraseGrowth
  <1>1. input \in Seq(Char) /\ Len(input) >= 1
    BY EncoderAssumption DEF EncodeInit
  <1>2. i = 1 /\ Len(p) = 1 /\ Before = 0
    BY DEF EncodeInit, Before
  <1>3. \A c \in 0..(table_size - 1) : Len(table[c]) \in {0, 1}
    <2>1. table = SingleChars /\ table_size - 1 = CHAR_MAX
      BY EncoderAssumption DEF EncodeInit
    <2>2. \A c \in 0..CHAR_MAX : Len(SingleChars[c]) \in Nat
      BY SingleCharsFit
    <2>3. \A c \in 0..CHAR_MAX : Len(SingleChars[c]) \in {0, 1}
      <3>1. TAKE c \in 0..CHAR_MAX
      <3>2. Len(SingleChars[c]) \in Nat /\ Len(SingleChars[c]) <= 1
        BY <2>2, SingleCharsFit
      <3>3. QED
        BY <3>2, ZeroOrOne
    <2>4. QED
      BY <2>1, <2>3
  <1>4. \A c \in 0..(table_size - 1) : Len(table[c]) * (Len(table[c]) - 1) <= Before
    <2>1. TAKE c \in 0..(table_size - 1)
    <2>2. CASE Len(table[c]) = 0
      BY <1>2, <2>2
    <2>3. CASE Len(table[c]) = 1
      BY <1>2, <2>3
    <2>4. QED
      BY <1>3, <2>2, <2>3
  <1>5. QED
    BY <1>1, <1>2, <1>4 DEF PhraseGrowth

LEMMA NextGrowth == GrowthInv /\ [EncodeNext]_evars => GrowthInv'
  <1> SUFFICES ASSUME GrowthInv, [EncodeNext]_evars
               PROVE  GrowthInv'
    OBVIOUS
  <1>0. TypeOK /\ TypeOK'
    BY NextTyped DEF GrowthInv
  <1>1. input' = input
    BY DEF EncodeNext, Extend, Emit, EmitLast, evars
  <1> SUFFICES ASSUME ShortEnough, PhraseGrowth, input # <<>>
               PROVE  PhraseGrowth'
    BY <1>0, <1>1 DEF GrowthInv, ShortEnough, PhraseGrowth
  <1>2. /\ i \in Nat \ {0}
        /\ Len(p) \in Nat
        /\ \A c \in 0..(table_size - 1) : Len(table[c]) \in Nat
        /\ Before \in Int
    BY <1>0 DEF TypeOK, Before
  <1>3. CASE Extend
    <2>1. /\ epc = "encode" /\ i < Len(input) /\ CodesOf(temp) # {}
          /\ p' = string_copy(temp) /\ i' = i + 1
          /\ UNCHANGED <<table, table_size, epc>>
      BY <1>3 DEF Extend
    <2>2. temp \in Seq(Char) /\ Len(temp) = Len(p) + 1
      BY <1>0, <2>1, TempIsLonger
    <2>3. Len(temp) < INPUT_SIZE
      BY <1>0, <2>1, <2>2, SlowGrowthFits
    <2>4. p' = temp /\ Len(p') = Len(p) + 1
      BY <2>1, <2>2, <2>3, CopyFits
    <2>5. Before' = Before
      BY <1>2, <2>1, <2>4 DEF Before
    <2>6. Len(p') * (Len(p') - 1) <= Before
      <3>1. PICK c \in 0..(table_size - 1) : table[c] = temp
        BY <2>1 DEF CodesOf
      <3>2. Len(table[c]) * (Len(table[c]) - 1) <= Before
        BY <2>1 DEF PhraseGrowth
      <3>3. QED
        BY <2>4, <3>1, <3>2
    <2>7. i' <= Len(input) /\ Len(p') \in 1..i'
      BY <1>2, <2>1, <2>4 DEF PhraseGrowth
    <2>8. \A c \in 0..(table_size - 1) : Len(table[c]) * (Len(table[c]) - 1) <= Before
      BY <2>1 DEF PhraseGrowth
    <2>9. QED
      BY <1>1, <2>1, <2>5, <2>6, <2>7, <2>8 DEF PhraseGrowth
  <1>4. CASE Emit
    <2>1. /\ epc = "encode" /\ i < Len(input)
          /\ AddPhrase
          /\ p' = <<input[i + 1]>> /\ i' = i + 1
      BY <1>4 DEF Emit
    <2>2. temp \in Seq(Char) /\ Len(temp) = Len(p) + 1
      BY <1>0, <2>1, TempIsLonger
    <2>3. Len(temp) < INPUT_SIZE /\ string_copy(temp) = temp
      BY <1>0, <2>1, <2>2, SlowGrowthFits, CopyFits
    <2>4. Len(p') = 1 /\ Before' = 2 * i
      BY <1>2, <2>1 DEF Before
    <2>5. Before <= 2 * i /\ Len(p) * (Len(p) - 1) <= Before
      BY <1>2, <2>1 DEF Before, PhraseGrowth
    <2>6. Len(temp) * (Len(temp) - 1) <= 2 * i
      <3> DEFINE L == Len(p)
      <3>1. L \in Nat /\ L * (L - 1) <= 2 * (i - L) /\ Len(temp) = L + 1
        BY <1>2, <2>2, <2>5 DEF Before
      <3> HIDE DEF L
      <3>2. L * (L - 1) = L * L - L /\ (L + 1) * L = L * L + L /\ L * L \in Nat
        BY <3>1
      <3>3. (L + 1) * L <= 2 * i
        BY <1>2, <3>1, <3>2
      <3>4. QED
        BY <3>1, <3>3
    <2>7. \A c \in 0..(table_size' - 1) :
            Len(table'[c]) * (Len(table'[c]) - 1) <= Before'
      <3>1. TAKE c \in 0..(table_size' - 1)
      <3>2. \/ c \in 0..(table_size - 1) /\ table'[c] = table[c]
            \/ table'[c] = temp
        <4>1. TableOK
          BY <1>0 DEF TypeOK, TableOK
        <4>2. QED
          BY <2>1, <2>2, <2>3, <4>1, AddPhraseFits
      <3>3. CASE c \in 0..(table_size - 1) /\ table'[c] = table[c]
        <4> DEFINE T == Len(table[c]) * (Len(table[c]) - 1)
        <4>1. T <= Before
          BY <2>1, <3>3 DEF PhraseGrowth
        <4>2. T \in Int
          BY <1>2, <3>3
        <4> HIDE DEF T
        <4>3. T <= 2 * i
          BY <1>2, <2>5, <4>1, <4>2
        <4>4. QED
          BY <2>4, <3>3, <4>3 DEF T
      <3>4. CASE table'[c] = temp
        BY <2>4, <2>6, <3>4
      <3>5. QED
        BY <3>2, <3>3, <3>4
    <2>8. QED
      BY <1>1, <1>2, <2>1, <2>4, <2>7 DEF PhraseGrowth
  <1>5. CASE EmitLast
    BY <1>5 DEF EmitLast, PhraseGrowth
  <1>6. CASE UNCHANGED evars
    BY <1>6 DEF evars, PhraseGrowth, Before
  <1>7. QED
    BY <1>3, <1>4, <1>5, <1>6 DEF EncodeNext

\* For an input of at most INPUT_SIZE * (INPUT_SIZE - 1) / 2 characters, far more
\* than a string's array holds, the store of a character behind the phrase stays
\* inside temp although nothing checks it (lzw_hls.cpp:51-57).
THEOREM StringsStayInside == EncodeSpec => []StringsFit
  <1>1. GrowthInv => StringsFit
    <2> SUFFICES ASSUME GrowthInv, ShortEnough, epc = "encode", i < Len(input)
                 PROVE  Len(temp) < INPUT_SIZE
      BY DEF StringsFit
    <2>1. Len(temp) = Len(p) + 1
      BY TempIsLonger DEF GrowthInv
    <2>2. QED
      BY <2>1, SlowGrowthFits DEF GrowthInv
  <1>2. QED
    BY InitGrowth, NextGrowth, <1>1, PTL DEF EncodeSpec

-----------------------------------------------------------------------------
(* The decoder. *)

\* The entries are strings that fit their arrays.
TableInv ==
  /\ dtable_size \in (CHAR_MAX + 1)..TABLE_SIZE
  /\ dtable \in [0..(dtable_size - 1) -> Seq(Char)]
  /\ \A c \in 0..(dtable_size - 1) : Len(dtable[c]) < INPUT_SIZE

\* What was written leaves a character to spare and the NUL.
BoundInv ==
  /\ DecoderTypeOK
  /\ TableInv
  /\ Len(output) <= INPUT_SIZE - 2
  /\ Len(prev) <= INPUT_SIZE - 2
  /\ k = 0 => dtable = SingleChars /\ dtable_size = CHAR_MAX + 1

-----------------------------------------------------------------------------
(* The operators. *)

\* A phrase followed by a character is at most one longer.
LEMMA FollowedFits ==
  ASSUME NEW s \in Seq(Char), NEW t \in Seq(Char), Len(s) <= INPUT_SIZE - 2
  PROVE  /\ Followed(s, t) \in Seq(Char)
         /\ Len(Followed(s, t)) < INPUT_SIZE
  <1>1. string_copy(s) = s
    BY CopyFits, DecoderAssumption
  <1>2. CASE t = <<>>
    BY <1>1, <1>2, DecoderAssumption DEF Followed
  <1>3. CASE t # <<>>
    <2>1. t[1] \in Char
      BY <1>3
    <2>2. <<t[1]>> \in Seq(Char) /\ Len(<<t[1]>>) = 1
      BY <2>1
    <2>3. s \o <<t[1]>> \in Seq(Char) /\ Len(s \o <<t[1]>>) = Len(s) + 1
      BY <2>2
    <2>4. QED
      BY <1>1, <1>3, <2>3, DecoderAssumption DEF Followed
  <1>4. QED
    BY <1>2, <1>3

LEMMA PhrasesFit ==
  ASSUME TableInv, prev \in Seq(Char), Len(prev) <= INPUT_SIZE - 2
  PROVE  \A s \in Phrases : s \in Seq(Char) /\ Len(s) < INPUT_SIZE
  <1>1. CASE current_code \in 0..(dtable_size - 1)
    <2>1. dtable[current_code] \in Seq(Char)
      BY <1>1 DEF TableInv
    <2>2. Phrases = {string_copy(dtable[current_code])}
      BY <1>1 DEF Phrases
    <2>3. QED
      BY <2>1, <2>2, CopyFits
  <1>2. CASE current_code \notin 0..(dtable_size - 1)
    BY <1>2, FollowedFits DEF Phrases
  <1>3. QED
    BY <1>1, <1>2

\* The entry a phrase adds fits its array, and the table its own.
LEMMA EntryFits ==
  ASSUME TableInv, prev \in Seq(Char), Len(prev) <= INPUT_SIZE - 2,
         NEW s \in Seq(Char), AddEntry(s)
  PROVE  TableInv'
  <1>1. CASE dtable_size < TABLE_SIZE
    <2> DEFINE e == Followed(prev, s)
    <2>1. e \in Seq(Char) /\ Len(e) < INPUT_SIZE
      BY FollowedFits
    <2>2. /\ dtable_size' = dtable_size + 1
          /\ dtable' = [c \in 0..dtable_size |-> IF c = dtable_size THEN e ELSE dtable[c]]
      BY <1>1 DEF AddEntry
    <2> HIDE DEF e
    <2>3. dtable_size' \in (CHAR_MAX + 1)..TABLE_SIZE
      BY <1>1, <2>2, DecoderAssumption DEF TableInv
    <2>4. 0..(dtable_size' - 1) = 0..dtable_size
      BY <2>2, DecoderAssumption DEF TableInv
    <2>5. \A c \in 0..dtable_size : c # dtable_size => c \in 0..(dtable_size - 1)
      BY DecoderAssumption DEF TableInv
    <2>6. \A c \in 0..dtable_size : dtable'[c] \in Seq(Char) /\ Len(dtable'[c]) < INPUT_SIZE
      BY <2>1, <2>2, <2>5 DEF TableInv
    <2>7. dtable' \in [0..(dtable_size' - 1) -> Seq(Char)]
      BY <2>2, <2>4, <2>6
    <2>8. QED
      BY <2>3, <2>4, <2>6, <2>7 DEF TableInv
  <1>2. CASE ~ (dtable_size < TABLE_SIZE)
    BY <1>2 DEF AddEntry, TableInv
  <1>3. QED
    BY <1>1, <1>2

-----------------------------------------------------------------------------
(* The invariant. *)

LEMMA InitBound == DecodeInit => BoundInv
  <1> SUFFICES ASSUME DecodeInit
               PROVE  BoundInv
    OBVIOUS
  <1>1. \A c \in 0..CHAR_MAX : SingleChars[c] \in Seq(Char) /\ Len(SingleChars[c]) <= 1
    <2> TAKE c \in 0..CHAR_MAX
    <2>1. CASE c = 0
      BY <2>1, DecoderAssumption DEF SingleChars
    <2>2. CASE c # 0
      <3>1. c \in Char
        BY <2>2, DecoderAssumption DEF Char
      <3>2. SingleChars[c] = <<c>>
        BY <2>2 DEF SingleChars
      <3>3. QED
        BY <3>1, <3>2
    <2>3. QED
      BY <2>1, <2>2
  <1>2. dtable = SingleChars /\ dtable_size = CHAR_MAX + 1
    BY DEF DecodeInit, Fresh
  <1>3. TableInv
    <2>1. dtable \in [0..CHAR_MAX -> Seq(Char)]
      BY <1>1, <1>2 DEF SingleChars
    <2>2. \A c \in 0..CHAR_MAX : Len(dtable[c]) < INPUT_SIZE
      BY <1>1, <1>2, DecoderAssumption
    <2>3. dtable_size - 1 = CHAR_MAX /\ dtable_size \in (CHAR_MAX + 1)..TABLE_SIZE
      BY <1>2, DecoderAssumption
    <2>4. QED
      BY <2>1, <2>2, <2>3 DEF TableInv
  <1>4. DecoderTypeOK
    <2>1. encoded_data \in Seq(Int)
      BY DecoderAssumption DEF DecodeInit
    <2>2. QED
      BY <1>3, <2>1 DEF DecodeInit, Fresh, DecoderTypeOK, TableInv
  <1>5. QED
    BY <1>2, <1>3, <1>4, DecoderAssumption DEF DecodeInit, Fresh, BoundInv

LEMMA NextBound == BoundInv /\ [DecodeNext]_dvars => BoundInv'
  <1> SUFFICES ASSUME BoundInv, [DecodeNext]_dvars
               PROVE  BoundInv'
    OBVIOUS
  <1>0. /\ encoded_data \in Seq(Int) \ {<<>>}
        /\ Len(encoded_data) \in Nat \ {0}
        /\ k \in 0..Len(encoded_data)
        /\ prev \in Seq(Char) /\ Len(prev) <= INPUT_SIZE - 2
        /\ output \in Seq(Char) /\ Len(output) <= INPUT_SIZE - 2
        /\ TableInv
    BY DecoderAssumption DEF BoundInv, DecoderTypeOK
  <1>1. CASE First
    <2>1. CASE current_code \in 0..(dtable_size - 1)
      <3> DEFINE s == dtable[current_code]
      <3>1. k = 0 /\ dtable = SingleChars /\ dtable_size = CHAR_MAX + 1
        BY <1>1 DEF First, BoundInv
      <3>2. s \in Seq(Char) /\ Len(s) < INPUT_SIZE
        BY <1>0, <2>1 DEF TableInv
      <3>3. Len(s) <= 1
        BY <2>1, <3>1, DecoderAssumption DEF SingleChars
      <3>4. prev' = s /\ output' = s /\ k' = 1 /\ dpc' = dpc
        BY <1>1, <2>1, <3>2, CopyFits DEF First
      <3>5. UNCHANGED <<encoded_data, dtable, dtable_size>>
        BY <1>1 DEF First
      <3>6. TableInv'
        BY <1>0, <3>5 DEF TableInv
      <3>7. DecoderTypeOK'
        BY <1>0, <3>2, <3>4, <3>5 DEF BoundInv, DecoderTypeOK
      <3>8. QED
        BY <3>2, <3>3, <3>4, <3>6, <3>7, DecoderAssumption DEF BoundInv
    <2>2. CASE current_code \notin 0..(dtable_size - 1)
      BY <1>1, <2>2 DEF First, BoundInv, DecoderTypeOK, TableInv
    <2>3. QED
      BY <2>1, <2>2
  <1>2. CASE Invalid
    BY <1>2 DEF Invalid, BoundInv, DecoderTypeOK, TableInv
  <1>3. CASE Full
    BY <1>3 DEF Full, BoundInv, DecoderTypeOK, TableInv
  <1>4. CASE Write
    <2>1. PICK s \in Phrases :
            /\ Fits(s)
            /\ output' = output \o s
            /\ AddEntry(s)
            /\ prev' = string_copy(s)
      BY <1>4 DEF Write
    <2>2. s \in Seq(Char) /\ Len(s) < INPUT_SIZE
      BY <1>0, PhrasesFit
    <2>3. prev' = s
      BY <2>1, <2>2, CopyFits
    <2>4. TableInv'
      BY <1>0, <2>1, <2>2, EntryFits
    <2>5. output' \in Seq(Char) /\ Len(output') = Len(output) + Len(s)
      BY <1>0, <2>1, <2>2
    <2>6. Len(output') <= INPUT_SIZE - 2 /\ Len(prev') <= INPUT_SIZE - 2
      BY <1>0, <2>1, <2>2, <2>3, <2>5, DecoderAssumption DEF Fits
    <2>7. /\ k \in 1..(Len(encoded_data) - 1)
          /\ k' = k + 1
          /\ UNCHANGED <<encoded_data, dpc>>
      BY <1>4 DEF Write
    <2>8. DecoderTypeOK'
      <3>1. k' \in 1..Len(encoded_data')
        BY <1>0, <2>7
      <3>2. k' \in 0..Len(encoded_data')
        BY <1>0, <2>7, <3>1
      <3>3. /\ encoded_data' \in CodeStreams
            /\ dpc' \in {"decode", "decoded", "stopped"}
        BY <2>7 DEF BoundInv, DecoderTypeOK
      <3>4. prev' \in Seq(Char)
        BY <2>2, <2>3
      <3>5. QED
        BY <2>4, <2>5, <3>2, <3>3, <3>4 DEF DecoderTypeOK, TableInv
    <2>9. k' # 0
      BY <1>0, <2>7
    <2>10. QED
      BY <2>4, <2>6, <2>8, <2>9 DEF BoundInv
  <1>5. CASE Last
    BY <1>5 DEF Last, BoundInv, DecoderTypeOK, TableInv
  <1>6. CASE UNCHANGED dvars
    BY <1>6 DEF dvars, BoundInv, DecoderTypeOK, TableInv
  <1>7. QED
    BY <1>1, <1>2, <1>3, <1>4, <1>5, <1>6 DEF DecodeNext

\* The decoder's variables keep their types whatever codes it reads; its
\* dictionary never outgrows TABLE_SIZE entries (lzw_hls.cpp:153-160).
THEOREM DecoderTypes == DecodeSpec => []DecoderTypeOK
  <1>1. BoundInv => DecoderTypeOK
    BY DEF BoundInv
  <1>2. QED
    BY InitBound, NextBound, <1>1, PTL DEF DecodeSpec

\* Whatever codes the decoder reads, every string it builds fits its array with
\* its NUL, the phrase that is stored without a check included
\* (lzw_hls.cpp:137-161).
THEOREM StaysInArrays == DecodeSpec => []StaysInBounds
  <1>1. BoundInv => StaysInBounds
    <2> SUFFICES ASSUME BoundInv
                 PROVE  StaysInBounds
      OBVIOUS
    <2>1. \A s \in Phrases : Len(s) < INPUT_SIZE
      BY PhrasesFit DEF BoundInv, DecoderTypeOK
    <2>2. QED
      BY <2>1, DecoderAssumption DEF BoundInv, DecoderTypeOK, TableInv, StaysInBounds
  <1>2. QED
    BY InitBound, NextBound, <1>1, PTL DEF DecodeSpec

-----------------------------------------------------------------------------
(* The kernel: the codes of the encoder, decoded. *)

\* The characters of s after the first a, up to the e-th.
Slice(s, a, e) == SubSeq(s, a + 1, e)

\* The size of the dictionary when m phrases have been added to it.
Size(m) == IF CHAR_MAX + 1 + m < TABLE_SIZE THEN CHAR_MAX + 1 + m ELSE TABLE_SIZE

\* The codes are those of the phrases, each of an entry added before.
Cut(b) ==
  /\ b \in [0..Len(output_code) -> 0..Len(input)]
  /\ b[0] = 0
  /\ \A j, l \in 0..Len(output_code) :
       j < l => b[j] <= b[l] /\ (input # <<>> => b[j] < b[l])
  /\ \A j \in 1..Len(output_code) :
       /\ output_code[j] \in 0..(Size(j - 1) - 1)
       /\ table[output_code[j]] = Slice(input, b[j - 1], b[j])

\* The first m phrases are entries, with the character that follows each.
Entries(b, m) ==
  /\ table_size = Size(m)
  /\ \A c \in 0..CHAR_MAX : table[c] = SingleChars[c]
  /\ \A j \in 1..m :
       /\ b[j] < Len(input)
       /\ CHAR_MAX + j < TABLE_SIZE =>
            table[CHAR_MAX + j] = string_copy(Slice(input, b[j - 1], b[j] + 1))

\* The encoder, in its loop and after it.
InLoop(b) ==
  /\ Entries(b, Len(output_code))
  /\ input = <<>> => output_code = <<>> /\ p = <<>>
  /\ input # <<>> => /\ i <= Len(input) /\ b[Len(output_code)] < i
                     /\ p = Slice(input, b[Len(output_code)], i)
  /\ CodesOf(p) # {}

Through(b) ==
  /\ output_code # <<>>
  /\ Entries(b, Len(output_code) - 1)
  /\ b[Len(output_code)] = Len(input)
  /\ input = <<>> => Len(output_code) = 1

Encoded(b) ==
  /\ Cut(b)
  /\ epc = "encode" => InLoop(b)
  /\ epc = "encoded" => Through(b)

\* The decoder, after k codes.
Rebuilt(b) ==
  /\ output = Slice(input, 0, b[k])
  /\ b[k] <= INPUT_SIZE - 2
  /\ k = 0 => dtable_size = CHAR_MAX + 1 /\ prev = <<>>
  /\ k > 0 => dtable_size = Size(k - 1) /\ prev = Slice(input, b[k - 1], b[k])
  /\ \A c \in 0..CHAR_MAX : dtable[c] = SingleChars[c]
  /\ \A j \in 1..(k - 1) :
       CHAR_MAX + j < TABLE_SIZE =>
         dtable[CHAR_MAX + j] = Slice(input, b[j - 1], b[j] + 1)

Decoding(b) ==
  /\ epc = "encoded" /\ encoded_data = output_code
  /\ k \in 0..Len(output_code)
  /\ Rebuilt(b)
  /\ dpc \in {"decode", "decoded", "stopped"}
  /\ dpc = "decoded" => k = Len(output_code)
  /\ dpc = "stopped" => k > 0 /\ k < Len(output_code) /\ b[k + 1] > INPUT_SIZE - 2

Decoded(b) == IF encoded_data = <<>> THEN Fresh ELSE Decoding(b)

KernelInv == InKernel => TypeOK /\ \E b : Encoded(b) /\ Decoded(b)

-----------------------------------------------------------------------------
(* Slices of the input. *)

LEMMA SliceIs ==
  ASSUME NEW S, NEW s \in Seq(S), NEW a \in Nat, NEW e \in Nat, a <= e, e <= Len(s)
  PROVE  /\ Slice(s, a, e) \in Seq(S)
         /\ Len(Slice(s, a, e)) = e - a
         /\ \A x \in 1..(e - a) : Slice(s, a, e)[x] = s[a + x]
  <1>1. Len(s) \in Nat
    BY LenProperties
  <1>2. \A x \in (a + 1)..e : s[x] \in S
    <2>1. \A x \in (a + 1)..e : x \in 1..Len(s)
      BY <1>1
    <2>2. QED
      BY <2>1, ElementOfSeq
  <1>3. /\ SubSeq(s, a + 1, e) \in Seq(S)
        /\ Len(SubSeq(s, a + 1, e)) = IF a + 1 <= e THEN e - (a + 1) + 1 ELSE 0
        /\ \A x \in 1..(e - (a + 1) + 1) : SubSeq(s, a + 1, e)[x] = s[a + 1 + x - 1]
    <2>1. a + 1 \in Int /\ e \in Int
      OBVIOUS
    <2>2. QED
      BY ONLY <1>2, <2>1, SubSeqProperties
  <1>4. e - (a + 1) + 1 = e - a /\ \A x \in 1..(e - a) : a + 1 + x - 1 = a + x
    OBVIOUS
  <1>5. QED
    BY <1>3, <1>4 DEF Slice

\* The same of strings.
LEMMA StringSliceIs ==
  ASSUME NEW s \in Seq(Char), NEW a \in Nat, NEW e \in Nat, a <= e, e <= Len(s)
  PROVE  /\ Slice(s, a, e) \in Seq(Char)
         /\ Len(Slice(s, a, e)) = e - a
         /\ \A x \in 1..(e - a) : Slice(s, a, e)[x] = s[a + x]
  BY SliceIs

LEMMA SlicesJoin ==
  ASSUME NEW S, NEW s \in Seq(S), NEW a \in Nat, NEW e \in Nat, NEW f \in Nat,
         a <= e, e <= f, f <= Len(s)
  PROVE  Slice(s, a, e) \o Slice(s, e, f) = Slice(s, a, f)
  <1> DEFINE u == Slice(s, a, e)
             v == Slice(s, e, f)
             w == Slice(s, a, f)
  <1>1. Len(s) \in Nat /\ e <= Len(s) /\ a <= f
    BY LenProperties
  <1>2. u \in Seq(S) /\ Len(u) = e - a /\ \A x \in 1..(e - a) : u[x] = s[a + x]
    BY ZenonT(60), <1>1, SliceIs
  <1>3. v \in Seq(S) /\ Len(v) = f - e /\ \A x \in 1..(f - e) : v[x] = s[e + x]
    BY ZenonT(60), <1>1, SliceIs
  <1>4. w \in Seq(S) /\ Len(w) = f - a /\ \A x \in 1..(f - a) : w[x] = s[a + x]
    BY ZenonT(60), <1>1, SliceIs
  <1> HIDE DEF u, v, w
  <1>5. /\ u \o v \in Seq(S) /\ Len(u \o v) = Len(u) + Len(v)
        /\ \A x \in 1..(Len(u) + Len(v)) :
             (u \o v)[x] = IF x <= Len(u) THEN u[x] ELSE v[x - Len(u)]
    BY <1>2, <1>3, ConcatProperties
  <1>6. Len(u \o v) = f - a
    BY <1>2, <1>3, <1>5
  <1>7. \A x \in 1..(f - a) : (u \o v)[x] = w[x]
    <2> TAKE x \in 1..(f - a)
    <2>1. w[x] = s[a + x]
      BY <1>4
    <2>2. (u \o v)[x] = IF x <= e - a THEN u[x] ELSE v[x - (e - a)]
      BY <1>2, <1>3, <1>5
    <2>3. CASE x <= e - a
      BY <1>2, <2>1, <2>2, <2>3
    <2>4. CASE ~ (x <= e - a)
      <3>1. x - (e - a) \in 1..(f - e) /\ e + (x - (e - a)) = a + x
        BY <2>4
      <3>2. QED
        BY <1>3, <2>1, <2>2, <2>4, <3>1
    <2>5. QED
      BY <2>3, <2>4
  <1>8. u \o v = w
    BY <1>4, <1>5, <1>6, <1>7, SeqEqual
  <1>9. QED
    BY <1>8 DEF u, v, w

\* One character is a slice, and joins the one before it.
LEMMA SliceGrows ==
  ASSUME NEW S, NEW s \in Seq(S), NEW a \in Nat, NEW e \in Nat, a <= e, e < Len(s)
  PROVE  /\ Slice(s, e, e + 1) = <<s[e + 1]>>
         /\ Slice(s, a, e) \o <<s[e + 1]>> = Slice(s, a, e + 1)
  <1>1. /\ Len(s) \in Nat /\ e + 1 \in Nat /\ e + 1 <= Len(s)
        /\ e <= e + 1 /\ a <= e + 1 /\ e + 1 - e = 1 /\ 1 \in 1..1
    BY LenProperties
  <1>2. Slice(s, e, e + 1) = <<s[e + 1]>>
    <2>1. s[e + 1] \in S
      BY <1>1, ElementOfSeq
    <2>2. /\ Slice(s, e, e + 1) \in Seq(S) /\ Len(Slice(s, e, e + 1)) = 1
          /\ Slice(s, e, e + 1)[1] = s[e + 1]
      <3>1. PICK f \in Nat : e <= f /\ f <= Len(s) /\ f = e + 1
        BY <1>1
      <3>2. e <= f /\ f <= Len(s)
        BY <3>1
      <3>3. /\ Slice(s, e, f) \in Seq(S)
            /\ Len(Slice(s, e, f)) = f - e
            /\ \A x \in 1..(f - e) : Slice(s, e, f)[x] = s[e + x]
        BY Zenon, <3>2, SliceIs
      <3>4. f - e = 1
        BY <3>1
      <3>5. QED
        BY <1>1, <3>1, <3>3, <3>4
    <2> DEFINE t == <<s[e + 1]>>
    <2>3. t \in Seq(S) /\ Len(t) = 1 /\ t[1] = s[e + 1]
      BY <2>1
    <2> HIDE DEF t
    <2>4. \A x \in 1..1 : Slice(s, e, e + 1)[x] = t[x]
      BY <2>2, <2>3
    <2>5. Slice(s, e, e + 1) = t
      BY <2>2, <2>3, <2>4, SeqEqual
    <2>6. QED
      BY <2>5 DEF t
  <1>3. Slice(s, a, e) \o Slice(s, e, e + 1) = Slice(s, a, e + 1)
    BY <1>1, SlicesJoin
  <1>4. QED
    BY <1>2, <1>3

LEMMA SliceFirst ==
  ASSUME NEW S, NEW s \in Seq(S), NEW a \in Nat, NEW e \in Nat, a < e, e <= Len(s)
  PROVE  Slice(s, a, e)[1] = s[a + 1] /\ Slice(s, a, e) # <<>>
  <1>1. 1 \in 1..(e - a) /\ a <= e
    OBVIOUS
  <1>2. Slice(s, a, e)[1] = s[a + 1] /\ Len(Slice(s, a, e)) = e - a
    BY <1>1, SliceIs
  <1>3. e - a # 0
    OBVIOUS
  <1>4. QED
    BY <1>2, <1>3

LEMMA SliceOfAll ==
  ASSUME NEW S, NEW s \in Seq(S)
  PROVE  Slice(s, 0, Len(s)) = s
  BY SubSeqFull DEF Slice

LEMMA SliceOfNone ==
  ASSUME NEW S, NEW s \in Seq(S)
  PROVE  Slice(s, 0, 0) = <<>>
  BY SubSeqEmpty DEF Slice

-----------------------------------------------------------------------------
(* The size of the dictionary. *)

LEMMA SizeIs ==
  ASSUME NEW m \in Nat
  PROVE  /\ Size(m) \in (CHAR_MAX + 1)..TABLE_SIZE
         /\ Size(m) <= CHAR_MAX + 1 + m
         /\ Size(m) < TABLE_SIZE => Size(m) = CHAR_MAX + 1 + m
         /\ Size(m + 1) = IF Size(m) < TABLE_SIZE THEN Size(m) + 1 ELSE Size(m)
         /\ \A l \in Nat : m <= l => Size(m) <= Size(l)
  BY EncoderAssumption DEF Size

LEMMA SizeAtFirst == Size(0) = CHAR_MAX + 1
  BY EncoderAssumption DEF Size

-----------------------------------------------------------------------------
(* The encoder. *)

\* What the steps of the encoder's loop use.
LEMMA LoopFacts ==
  ASSUME TypeOK, NEW b, Encoded(b), epc = "encode"
  PROVE  /\ input \in Seq(Char) /\ Len(input) \in Nat
         /\ Len(output_code) \in Nat
         /\ DOMAIN b = 0..Len(output_code)
         /\ \A j \in 0..Len(output_code) : b[j] \in Nat /\ b[j] <= Len(input)
         /\ \A j \in 1..Len(output_code) : j - 1 \in 0..Len(output_code)
         /\ table_size = Size(Len(output_code))
         /\ CHAR_MAX + 1 <= table_size
         /\ InLoop(b)
  <1>1. input \in Seq(Char) /\ output_code \in Seq(0..(table_size - 1))
    BY EncoderAssumption DEF TypeOK
  <1>2. Len(input) \in Nat /\ Len(output_code) \in Nat
    BY <1>1, LenProperties
  <1>3. b \in [0..Len(output_code) -> 0..Len(input)] /\ InLoop(b)
    BY DEF Encoded, Cut
  <1>4. table_size = Size(Len(output_code))
    BY <1>3 DEF InLoop, Entries
  <1>5. CHAR_MAX + 1 <= table_size
    BY EncoderAssumption DEF TypeOK
  <1>6. QED
    BY <1>1, <1>2, <1>3, <1>4, <1>5

\* The phrase grows by a character: the cuts stay.
LEMMA ExtendKeepsCuts ==
  ASSUME TypeOK, NEW b, Encoded(b), Extend
  PROVE  Encoded(b)'
  <1> DEFINE n == Len(output_code)
  <1>1. /\ epc = "encode" /\ i < Len(input) /\ CodesOf(temp) # {}
        /\ p' = string_copy(temp) /\ i' = i + 1
        /\ UNCHANGED <<input, table, table_size, output_code, epc>>
    BY DEF Extend
  <1>2. /\ input \in Seq(Char) /\ Len(input) \in Nat /\ InLoop(b)
        /\ n \in Nat /\ b[n] \in Nat /\ b[n] <= Len(input)
    BY <1>1, LoopFacts
  <1>3. i \in Nat \ {0} /\ p \in Seq(Char) /\ Len(p) < INPUT_SIZE
    BY DEF TypeOK
  <1>4. input # <<>>
    BY <1>1, <1>2, <1>3
  <1>5. b[n] < i /\ p = Slice(input, b[n], i)
    BY <1>2, <1>4 DEF InLoop
  <1>6. temp \in Seq(Char) /\ temp = p \o <<input[i + 1]>>
    BY <1>1, <1>3, TempIsLonger, CopyFits DEF temp
  <1>7. temp = Slice(input, b[n], i + 1)
    <2>1. Slice(input, b[n], i) \o <<input[i + 1]>> = Slice(input, b[n], i + 1)
      <3>1. i \in Nat /\ b[n] <= i
        BY <1>2, <1>3, <1>5
      <3>2. QED
        BY <1>1, <1>2, <3>1, SliceGrows
    <2>2. QED
      BY <1>5, <1>6, <2>1
  <1>8. Len(temp) < INPUT_SIZE
    <2>1. PICK c \in 0..(table_size - 1) : table[c] = temp
      BY <1>1 DEF CodesOf
    <2>2. QED
      BY <2>1 DEF TypeOK
  <1>9. p' = temp
    BY <1>1, <1>6, <1>8, CopyFits
  <1>10. Cut(b)'
    BY <1>1 DEF Encoded, Cut
  <1>11. Entries(b, n)'
    BY <1>1, <1>2 DEF InLoop, Entries
  <1>12. CodesOf(p)' # {}
    <2>1. PICK c \in 0..(table_size - 1) : table[c] = temp
      BY <1>1 DEF CodesOf
    <2>2. c \in 0..(table_size' - 1) /\ table'[c] = p'
      BY <1>1, <1>9, <2>1
    <2>3. QED
      BY <2>2 DEF CodesOf
  <1>13. InLoop(b)'
    <2>1. i' <= Len(input) /\ b[n] < i' /\ p' = Slice(input, b[n], i')
      BY <1>1, <1>2, <1>3, <1>5, <1>7, <1>9
    <2>2. input' = input /\ output_code' = output_code
      BY <1>1
    <2>3. QED
      BY <1>4, <1>11, <1>12, <2>1, <2>2 DEF InLoop
  <1>14. QED
    BY <1>1, <1>10, <1>13 DEF Encoded


\* The cuts with one more.
With(b, n, e) == [j \in 0..(n + 1) |-> IF j = n + 1 THEN e ELSE b[j]]

LEMMA WithIs ==
  ASSUME NEW b, NEW n \in Nat, NEW e
  PROVE  /\ DOMAIN With(b, n, e) = 0..(n + 1)
         /\ With(b, n, e)[n + 1] = e
         /\ \A j \in 0..n : With(b, n, e)[j] = b[j] /\ j \in 0..(n + 1)
  BY DEF With

\* The code of p, when the dictionary is only added to, makes the end of p a cut.
LEMMA EmittedCut ==
  ASSUME TypeOK, NEW b, Encoded(b), epc = "encode", EmitCode, input' = input,
         \A c \in 0..(table_size - 1) : table'[c] = table[c],
         NEW CONSTANT n, n = Len(output_code),
         NEW CONSTANT e, e \in 0..Len(input), b[n] <= e, input # <<>> => b[n] < e,
         p = Slice(input, b[n], e)
  PROVE  /\ Len(output_code') = n + 1
         /\ Cut(With(b, n, e))'
  <1> DEFINE w == With(b, n, e)
  <1>1. /\ n \in Nat /\ Len(input) \in Nat
        /\ \A j \in 0..n : b[j] \in 0..Len(input)
        /\ table_size = Size(n)
    BY LoopFacts
  <1>2. /\ \A j, l \in 0..n : j < l => b[j] <= b[l] /\ (input # <<>> => b[j] < b[l])
        /\ \A j \in 1..n : /\ output_code[j] \in 0..(Size(j - 1) - 1)
                           /\ table[output_code[j]] = Slice(input, b[j - 1], b[j])
        /\ b[0] = 0
    BY DEF Encoded, Cut
  <1>3. PICK c \in CodesOf(p) : output_code' = Append(output_code, c)
    BY LoopFacts DEF EmitCode, InLoop
  <1>4. c \in 0..(table_size - 1) /\ table[c] = p
    BY <1>3 DEF CodesOf
  <1>5. /\ Len(output_code') = n + 1
        /\ output_code'[n + 1] = c
        /\ \A j \in 1..n : output_code'[j] = output_code[j]
    <2>1. output_code \in Seq(Nat) /\ c \in Nat
      <3>1. 0..(table_size - 1) \subseteq Nat
        BY EncoderAssumption DEF TypeOK
      <3>2. QED
        BY <1>4, <3>1, SeqMonotonic DEF TypeOK
    <2>2. QED
      BY <1>3, <2>1, AppendProperties
  <1>6. /\ DOMAIN w = 0..(n + 1) /\ w[n + 1] = e /\ w = [j \in 0..(n + 1) |-> w[j]]
        /\ \A j \in 0..n : w[j] = b[j]
    BY <1>1, WithIs DEF With
  <1> HIDE DEF w
  <1>7. w \in [0..(n + 1) -> 0..Len(input)] /\ w[0] = 0
    <2>1. \A j \in 0..(n + 1) : w[j] \in 0..Len(input)
      <3> TAKE j \in 0..(n + 1)
      <3>1. j \in 0..n \/ j = n + 1
        BY <1>1
      <3>2. QED
        BY <1>1, <1>6, <3>1
    <2>2. 0 \in 0..n
      BY <1>1
    <2>3. QED
      BY <1>2, <1>6, <2>1, <2>2
  <1>8. \A j, l \in 0..(n + 1) :
          j < l => w[j] <= w[l] /\ (input # <<>> => w[j] < w[l])
    <2> SUFFICES ASSUME NEW j \in 0..(n + 1), NEW l \in 0..(n + 1), j < l
                 PROVE  w[j] <= w[l] /\ (input # <<>> => w[j] < w[l])
      OBVIOUS
    <2>1. j \in 0..n /\ w[j] = b[j] /\ b[j] \in Nat
      <3>1. j \in 0..n
        BY <1>1
      <3>2. b[j] \in 0..Len(input)
        BY <1>1, <3>1
      <3>3. QED
        BY <1>1, <1>6, <3>1, <3>2
    <2>2. CASE l \in 0..n
      BY <1>2, <1>6, <2>1, <2>2
    <2>3. CASE l = n + 1
      <3>1. b[n] \in Nat /\ n \in 0..n /\ e \in Nat
        BY <1>1
      <3>2. b[j] <= b[n]
        BY <1>1, <1>2, <2>1, <3>1
      <3>3. w[l] = e
        BY <1>6, <2>3
      <3>4. QED
        BY <2>1, <3>1, <3>2, <3>3
    <2>4. QED
      BY <1>1, <2>2, <2>3
  <1>9. \A j \in 1..(n + 1) : /\ output_code'[j] \in 0..(Size(j - 1) - 1)
                             /\ table'[output_code'[j]] = Slice(input, w[j - 1], w[j])
    <2> TAKE j \in 1..(n + 1)
    <2>1. CASE j \in 1..n
      <3>1. w[j] = b[j] /\ w[j - 1] = b[j - 1] /\ output_code'[j] = output_code[j]
        <4>1. j \in 0..n /\ j - 1 \in 0..n
          BY <1>1, <2>1
        <4>2. QED
          BY <1>5, <1>6, <2>1, <4>1
      <3>2. output_code[j] \in 0..(Size(j - 1) - 1) /\ j - 1 \in Nat /\ j - 1 <= n
        BY <1>1, <1>2, <2>1
      <3>3. Size(j - 1) <= Size(n) /\ Size(j - 1) \in Int /\ Size(n) \in Int
        BY <1>1, <3>2, SizeIs
      <3>4. output_code[j] \in 0..(table_size - 1)
        BY <1>1, <3>2, <3>3
      <3>5. QED
        BY <1>2, <2>1, <3>1, <3>2, <3>4
    <2>2. CASE j = n + 1
      <3>1. j - 1 = n /\ n \in 0..n
        BY <1>1, <2>2
      <3>2. output_code'[j] = c /\ w[j] = e /\ w[j - 1] = b[n]
        BY <1>5, <1>6, <2>2, <3>1
      <3>3. table'[c] = Slice(input, b[n], e)
        BY <1>4
      <3>4. c \in 0..(Size(j - 1) - 1)
        BY <1>1, <1>4, <3>1
      <3>5. QED
        BY <3>2, <3>3, <3>4
    <2>3. QED
      BY <1>1, <2>1, <2>2
  <1>10. Cut(w)'
    <2>1. input' = input /\ Len(output_code') = n + 1
      BY <1>5
    <2>2. QED
      BY <2>1, <1>7, <1>8, <1>9 DEF Cut
  <1>11. QED
    BY <1>5, <1>10 DEF w


\* The phrase with a new character becomes an entry, its code and a cut are added.
LEMMA EmitAddsCut ==
  ASSUME TypeOK, NEW b, Encoded(b), Emit
  PROVE  \E w : Encoded(w)'
  <1>1. PICK n : n = Len(output_code)
    OBVIOUS
  <1>2. PICK e : e = i
    OBVIOUS
  <1> DEFINE w == With(b, n, e)
  <1>3. /\ epc = "encode" /\ i < Len(input) /\ EmitCode /\ AddPhrase
        /\ p' = <<input[i + 1]>> /\ i' = i + 1
        /\ input' = input /\ epc' = epc
    BY DEF Emit
  <1>4. /\ input \in Seq(Char) /\ Len(input) \in Nat /\ InLoop(b) /\ n \in Nat
        /\ \A j \in 0..n : b[j] \in Nat
        /\ b[n] \in Nat /\ table_size = Size(n)
    BY <1>1, <1>3, LoopFacts
  <1>5. e \in Nat \ {0} /\ p \in Seq(Char) /\ Len(p) < INPUT_SIZE
    BY <1>2 DEF TypeOK
  <1>6. input # <<>> /\ e \in 0..Len(input) /\ e < Len(input)
    BY <1>2, <1>3, <1>4, <1>5
  <1>7. b[n] < e /\ p = Slice(input, b[n], e)
    BY <1>1, <1>2, <1>4, <1>6 DEF InLoop
  <1>8. b[n] <= e
    BY <1>4, <1>5, <1>7
  <1>9. temp = Slice(input, b[n], e + 1)
    <2>1. temp = p \o <<input[e + 1]>>
      BY <1>2, <1>5, CopyFits DEF temp
    <2>2. Slice(input, b[n], e) \o <<input[e + 1]>> = Slice(input, b[n], e + 1)
      BY <1>4, <1>5, <1>6, <1>8, SliceGrows
    <2>3. QED
      BY <1>7, <2>1, <2>2
  <1>10. /\ table_size' = Size(n + 1)
         /\ \A c \in 0..(table_size - 1) : table'[c] = table[c]
         /\ CHAR_MAX + (n + 1) < TABLE_SIZE => table'[CHAR_MAX + (n + 1)] = string_copy(temp)
    <2>1. table_size \in Nat /\ table_size \in (CHAR_MAX + 1)..TABLE_SIZE
      BY EncoderAssumption DEF TypeOK
    <2>2. Size(n + 1) = IF table_size < TABLE_SIZE THEN table_size + 1 ELSE table_size
      BY <1>4, SizeIs
    <2>3. table_size < TABLE_SIZE => table_size = CHAR_MAX + (n + 1)
      BY <1>4, SizeIs, EncoderAssumption
    <2>4. CASE table_size < TABLE_SIZE
      <3> DEFINE t == string_copy(temp)
      <3>1. /\ table_size' = table_size + 1
            /\ table' = [c \in 0..table_size |-> IF c = table_size THEN t ELSE table[c]]
        BY <1>3, <2>4 DEF AddPhrase
      <3> HIDE DEF t
      <3>2. \A c \in 0..(table_size - 1) : c \in 0..table_size /\ c # table_size
        BY <2>1
      <3>3. table'[table_size] = t
        BY <2>1, <3>1
      <3>4. QED
        BY <2>2, <2>3, <2>4, <3>1, <3>2, <3>3 DEF t
    <2>5. CASE ~ (table_size < TABLE_SIZE)
      <3>1. UNCHANGED <<table, table_size>>
        BY <1>3, <2>5 DEF AddPhrase
      <3>2. ~ (CHAR_MAX + (n + 1) < TABLE_SIZE)
        <4>1. Size(n) <= CHAR_MAX + 1 + n
          BY <1>4, SizeIs
        <4>2. QED
          BY <1>4, <2>1, <2>5, <4>1, EncoderAssumption
      <3>3. QED
        BY <2>2, <2>5, <3>1, <3>2
    <2>6. QED
      BY <2>4, <2>5
  <1>11. Len(output_code') = n + 1 /\ Cut(w)'
    BY <1>1, <1>3, <1>6, <1>7, <1>8, <1>10, EmittedCut
  <1>12. /\ w[n + 1] = e /\ \A j \in 0..n : w[j] = b[j]
    BY <1>4, WithIs
  <1> HIDE DEF w
  <1>13. Entries(w, n + 1)'
    <2>1. Entries(b, n)
      BY <1>1, <1>4 DEF InLoop
    <2>2. \A c \in 0..CHAR_MAX : table'[c] = SingleChars[c]
      <3>1. \A c \in 0..CHAR_MAX : c \in 0..(table_size - 1)
        BY EncoderAssumption DEF TypeOK
      <3>2. QED
        BY <1>10, <2>1, <3>1 DEF Entries
    <2>3. ASSUME NEW j \in 1..(n + 1)
          PROVE  /\ w[j] < Len(input)
                 /\ CHAR_MAX + j < TABLE_SIZE =>
                      table'[CHAR_MAX + j] = string_copy(Slice(input, w[j - 1], w[j] + 1))
      <3>1. CASE j \in 1..n
        <4>1. j \in 0..n /\ j - 1 \in 0..n
          BY <1>4, <3>1
        <4>2. w[j] = b[j] /\ w[j - 1] = b[j - 1]
          BY <1>12, <4>1
        <4>3. /\ b[j] < Len(input)
              /\ CHAR_MAX + j < TABLE_SIZE =>
                   table[CHAR_MAX + j] = string_copy(Slice(input, b[j - 1], b[j] + 1))
          BY <2>1, <3>1 DEF Entries
        <4>4. CHAR_MAX + j < TABLE_SIZE => CHAR_MAX + j \in 0..(table_size - 1)
          <5>1. table_size < TABLE_SIZE => table_size = CHAR_MAX + 1 + n
            BY <1>4, SizeIs
          <5>2. table_size \in (CHAR_MAX + 1)..TABLE_SIZE
            BY DEF TypeOK
          <5>3. QED
            BY <1>4, <3>1, <5>1, <5>2, EncoderAssumption
        <4>5. QED
          BY <1>10, <4>2, <4>3, <4>4
      <3>2. CASE j = n + 1
        <4>1. j - 1 = n /\ n \in 0..n
          BY <1>4, <3>2
        <4>2. w[j] = e /\ w[j - 1] = b[n]
          BY <1>12, <3>2, <4>1
        <4>3. QED
          BY <1>6, <1>9, <1>10, <3>2, <4>2
      <3>3. QED
        BY <1>4, <3>1, <3>2
    <2>4. input' = input /\ table_size' = Size(n + 1)
      BY <1>3, <1>10
    <2>5. QED
      BY <2>2, <2>3, <2>4 DEF Entries
  <1>14. p' = Slice(input, e, e + 1) /\ i' = e + 1
    BY <1>2, <1>3, <1>4, <1>5, <1>6, SliceGrows
  <1>15. CodesOf(p)' # {}
    <2>1. PICK c \in Char : c = input[i + 1]
      BY <1>3, TempIsLonger
    <2>2. c \in 0..CHAR_MAX /\ c # 0 /\ p' = <<c>>
      BY <1>3, <2>1, EncoderAssumption DEF Char
    <2>3. SingleChars[c] = <<c>>
      BY <2>2 DEF SingleChars
    <2>4. table'[c] = <<c>>
      BY <1>13, <2>2, <2>3 DEF Entries
    <2>5. c \in 0..(table_size' - 1)
      <3>1. Size(n + 1) \in (CHAR_MAX + 1)..TABLE_SIZE
        BY <1>4, SizeIs
      <3>2. PICK m \in (CHAR_MAX + 1)..TABLE_SIZE : m = Size(n + 1)
        BY <3>1
      <3>3. c \in 0..(m - 1)
        BY <2>2, <3>2, EncoderAssumption
      <3>4. QED
        BY <1>10, <3>2, <3>3
    <2>6. QED
      BY <2>2, <2>4, <2>5 DEF CodesOf
  <1>16. InLoop(w)'
    <2>1. /\ i' <= Len(input) /\ w[n + 1] < i' /\ p' = Slice(input, w[n + 1], i')
      BY <1>4, <1>5, <1>6, <1>12, <1>14
    <2>2. input' = input /\ Len(output_code') = n + 1 /\ input # <<>>
      BY <1>3, <1>6, <1>11
    <2>3. QED
      BY <1>13, <1>15, <2>1, <2>2 DEF InLoop
  <1>17. Encoded(w)'
    BY <1>3, <1>11, <1>16 DEF Encoded
  <1>18. QED
    BY <1>17


\* The code of the last phrase makes the end of the input a cut.
LEMMA LastAddsCut ==
  ASSUME TypeOK, NEW b, Encoded(b), EmitLast
  PROVE  \E w : Encoded(w)'
  <1>1. PICK n : n = Len(output_code)
    OBVIOUS
  <1>2. PICK e : e = Len(input)
    OBVIOUS
  <1> DEFINE w == With(b, n, e)
  <1>3. /\ epc = "encode" /\ i >= Len(input) /\ EmitCode /\ epc' = "encoded"
        /\ UNCHANGED <<input, i, p, table, table_size>>
    BY DEF EmitLast
  <1>4. /\ input \in Seq(Char) /\ e \in Nat /\ InLoop(b) /\ n \in Nat
        /\ b[n] \in Nat /\ b[n] <= e
    BY <1>1, <1>2, <1>3, LoopFacts
  <1>5. (input # <<>> => b[n] < e) /\ p = Slice(input, b[n], e)
    <2>1. CASE input = <<>>
      <3>1. p = <<>> /\ e = 0 /\ b[n] = 0
        BY <1>2, <1>4, <2>1 DEF InLoop
      <3>2. QED
        BY <1>4, <2>1, <3>1, SliceOfNone
    <2>2. CASE input # <<>>
      <3>1. i <= Len(input) /\ b[n] < i /\ p = Slice(input, b[n], i)
        BY <1>1, <1>4, <2>2 DEF InLoop
      <3>2. i = e
        BY <1>2, <1>3, <1>4, <3>1 DEF TypeOK
      <3>3. QED
        BY <3>1, <3>2
    <2>3. QED
      BY <2>1, <2>2
  <1>6. Len(output_code') = n + 1 /\ Cut(w)'
    <2>1. e \in 0..Len(input)
      BY <1>2, <1>4
    <2>2. \A c \in 0..(table_size - 1) : table'[c] = table[c]
      BY <1>3
    <2>3. QED
      BY <1>1, <1>3, <1>4, <1>5, <2>1, <2>2, EmittedCut
  <1>7. /\ w[n + 1] = e /\ \A j \in 0..n : w[j] = b[j]
    BY <1>4, WithIs
  <1> HIDE DEF w
  <1>8. Entries(w, n)'
    <2>1. Entries(b, n)
      BY <1>1, <1>4 DEF InLoop
    <2>2. \A j \in 1..n : w[j] = b[j] /\ w[j - 1] = b[j - 1]
      <3>1. \A j \in 1..n : j \in 0..n /\ j - 1 \in 0..n
        BY <1>4
      <3>2. QED
        BY <1>7, <3>1
    <2>3. QED
      BY <1>3, <2>1, <2>2 DEF Entries
  <1>9. Through(w)'
    <2>1. output_code' # <<>>
      BY <1>4, <1>6
    <2>2. Len(output_code') - 1 = n /\ w[Len(output_code')] = e /\ input' = input
      BY <1>3, <1>4, <1>6, <1>7
    <2>3. input = <<>> => Len(output_code') = 1
      BY <1>1, <1>4, <1>6 DEF InLoop
    <2>4. QED
      BY <1>2, <1>8, <2>1, <2>2, <2>3 DEF Through
  <1>10. Encoded(w)'
    BY <1>3, <1>6, <1>9 DEF Encoded
  <1>11. QED
    BY <1>10

\* The encoder begins with no cut but the first.
LEMMA InitHasCuts == EncodeInit => \E b : Encoded(b)
  <1> SUFFICES ASSUME EncodeInit
               PROVE  \E b : Encoded(b)
    OBVIOUS
  <1> DEFINE b == [j \in 0..0 |-> 0]
  <1>1. input \in Seq(Char) /\ Len(input) \in Nat /\ (input # <<>> => Len(input) >= 1)
    BY EncoderAssumption DEF EncodeInit
  <1>2. /\ i = 1 /\ p = (IF input = <<>> THEN <<>> ELSE <<input[1]>>)
        /\ table = SingleChars /\ table_size = CHAR_MAX + 1
        /\ output_code = <<>> /\ Len(output_code) = 0 /\ epc = "encode"
    BY DEF EncodeInit
  <1>3. b \in [0..0 -> 0..Len(input)] /\ b[0] = 0
    BY <1>1
  <1> HIDE DEF b
  <1>4. Cut(b)
    <2>1. \A j, l \in 0..0 : ~ (j < l)
      OBVIOUS
    <2>2. \A j \in 1..0 : FALSE
      OBVIOUS
    <2>3. QED
      BY <1>2, <1>3, <2>1, <2>2 DEF Cut
  <1>5. Entries(b, 0)
    <2>1. \A j \in 1..0 : FALSE
      OBVIOUS
    <2>2. QED
      BY <1>2, <2>1, SizeAtFirst DEF Entries
  <1>6. CodesOf(p) # {}
    <2>1. CASE input = <<>>
      <3>1. 0 \in 0..(table_size - 1) /\ 0 \in 0..CHAR_MAX
        BY <1>2, EncoderAssumption
      <3>2. table[0] = p
        BY <1>2, <2>1, <3>1 DEF SingleChars
      <3>3. QED
        BY <3>1, <3>2 DEF CodesOf
    <2>2. CASE input # <<>>
      <3>1. PICK c \in Char : c = input[1]
        BY <1>1, <2>2, ElementOfSeq
      <3>2. c \in 0..CHAR_MAX /\ c # 0 /\ c \in 0..(table_size - 1)
        BY <1>2, EncoderAssumption DEF Char
      <3>3. SingleChars[c] = <<c>>
        BY <3>2 DEF SingleChars
      <3>4. p = <<c>> /\ table = SingleChars
        BY <1>2, <2>2, <3>1
      <3>5. table[c] = p
        BY <3>3, <3>4
      <3>6. QED
        BY <3>2, <3>5 DEF CodesOf
    <2>3. QED
      BY <2>1, <2>2
  <1>7. input # <<>> => p = Slice(input, 0, 1)
    <2> SUFFICES ASSUME input # <<>>
                 PROVE  p = Slice(input, 0, 1)
      OBVIOUS
    <2>1. 0 < Len(input) /\ p = <<input[0 + 1]>> /\ 0 + 1 = 1
      BY <1>1, <1>2
    <2>2. Slice(input, 0, 0 + 1) = <<input[0 + 1]>>
      BY <1>1, <2>1, SliceGrows
    <2>3. QED
      BY <2>1, <2>2
  <1>8. InLoop(b)
    BY <1>1, <1>2, <1>3, <1>5, <1>6, <1>7 DEF InLoop
  <1>9. QED
    BY <1>2, <1>4, <1>8 DEF Encoded


-----------------------------------------------------------------------------
(* The decoder. *)

\* What the encoder hands over.
LEMMA CodeFacts ==
  ASSUME TypeOK, NEW b, Encoded(b), epc = "encoded"
  PROVE  /\ input \in Seq(Char) /\ Len(input) \in Nat
         /\ Len(output_code) \in Nat \ {0}
         /\ output_code # <<>>
         /\ b[0] = 0 /\ b[Len(output_code)] = Len(input)
         /\ \A j \in 0..Len(output_code) : b[j] \in Nat /\ b[j] <= Len(input)
         /\ \A j, l \in 0..Len(output_code) :
              j < l => b[j] <= b[l] /\ (input # <<>> => b[j] < b[l])
         /\ 1 < Len(output_code) => input # <<>>
         /\ \A j \in 1..Len(output_code) :
              /\ output_code[j] \in 0..(Size(j - 1) - 1)
              /\ table[output_code[j]] = Slice(input, b[j - 1], b[j])
              /\ Len(table[output_code[j]]) < INPUT_SIZE
         /\ Entries(b, Len(output_code) - 1)
  <1>1. input \in Seq(Char) /\ output_code \in Seq(0..(table_size - 1))
    BY EncoderAssumption DEF TypeOK
  <1>2. Len(input) \in Nat /\ Len(output_code) \in Nat
    BY <1>1, LenProperties
  <1>3. Cut(b) /\ Through(b)
    BY DEF Encoded
  <1>4. Len(output_code) # 0
    BY <1>1, <1>3, EmptySeq DEF Through
  <1>5. \A j \in 0..Len(output_code) : b[j] \in Nat /\ b[j] <= Len(input)
    BY <1>2, <1>3 DEF Cut
  <1>6. \A j \in 1..Len(output_code) : Len(table[output_code[j]]) < INPUT_SIZE
    <2>1. \A j \in 1..Len(output_code) : output_code[j] \in 0..(table_size - 1)
      BY <1>1, ElementOfSeq
    <2>2. QED
      BY <2>1 DEF TypeOK
  <1>7. QED
    BY <1>1, <1>2, <1>3, <1>4, <1>5, <1>6 DEF Cut, Through

\* Code k + 1 stands for phrase k + 1, although its entry may be the one the
\* decoder is about to add.
LEMMA NextPhrase ==
  ASSUME TypeOK, NEW b, Encoded(b), Decoding(b), k \in 1..(Len(output_code) - 1)
  PROVE  /\ Phrases = {Slice(input, b[k], b[k + 1])}
         /\ Len(Slice(input, b[k], b[k + 1])) < INPUT_SIZE
  <1> DEFINE n == Len(output_code)
  <1>1. /\ epc = "encoded" /\ encoded_data = output_code /\ current_code = output_code[k + 1]
        /\ Rebuilt(b)
    BY DEF Decoding, current_code
  <1>2. /\ input \in Seq(Char) /\ Len(input) \in Nat /\ n \in Nat \ {0}
        /\ \A j \in 0..n : b[j] \in Nat /\ b[j] <= Len(input)
        /\ \A j, l \in 0..n : j < l => b[j] <= b[l] /\ (input # <<>> => b[j] < b[l])
        /\ Entries(b, n - 1)
    BY <1>1, CodeFacts
  <1>3. /\ k \in Nat /\ k - 1 \in Nat /\ k - 1 + 1 = k /\ k + 1 - 1 = k
        /\ k \in 0..n /\ k - 1 \in 0..n /\ k + 1 \in 0..n /\ k + 1 \in 1..n
        /\ k \in 1..(n - 1) /\ k > 0 /\ 1 < n /\ k - 1 < k /\ k < k + 1
    BY <1>2
  <1>4. PICK x, y, z \in Nat :
          /\ x = b[k - 1] /\ y = b[k] /\ z = b[k + 1]
          /\ x < y /\ y < z /\ z <= Len(input)
    <2>1. input # <<>>
      BY <1>1, <1>3, CodeFacts
    <2>2. b[k - 1] \in Nat /\ b[k] \in Nat /\ b[k + 1] \in Nat /\ b[k + 1] <= Len(input)
      BY <1>2, <1>3
    <2>3. b[k - 1] < b[k] /\ b[k] < b[k + 1]
      BY <1>2, <1>3, <2>1
    <2>4. QED
      BY <2>2, <2>3
  <1>5. PICK q, r : q = Size(k - 1) /\ r = Size(k)
    OBVIOUS
  <1>6. /\ q \in (CHAR_MAX + 1)..TABLE_SIZE /\ q \in Nat
        /\ q <= CHAR_MAX + k
        /\ q < TABLE_SIZE => q = CHAR_MAX + k
        /\ r = (IF q < TABLE_SIZE THEN q + 1 ELSE q)
    <2>1. /\ Size(k - 1) \in (CHAR_MAX + 1)..TABLE_SIZE
          /\ Size(k - 1) <= CHAR_MAX + 1 + (k - 1)
          /\ Size(k - 1) < TABLE_SIZE => Size(k - 1) = CHAR_MAX + 1 + (k - 1)
          /\ Size(k - 1 + 1) = IF Size(k - 1) < TABLE_SIZE THEN Size(k - 1) + 1
                                                      ELSE Size(k - 1)
      BY <1>3, SizeIs
    <2>2. CHAR_MAX + 1 + (k - 1) = CHAR_MAX + k
      BY <1>3, EncoderAssumption
    <2>3. QED
      BY <1>3, <1>5, <2>1, <2>2, EncoderAssumption
  <1>7. PICK c \in 0..(r - 1) : c = output_code[k + 1]
    BY <1>1, <1>3, <1>5, CodeFacts
  <1>8. PICK Q : Q = Slice(input, y, z)
    OBVIOUS
  <1>9. table[c] = Q /\ Len(Q) < INPUT_SIZE
    BY SMTT(30), <1>1, <1>3, <1>4, <1>7, <1>8, CodeFacts
  <1>10. Q \in Seq(Char) /\ string_copy(Q) = Q /\ Q[1] = input[y + 1]
    <2>1. y <= z
      BY <1>4
    <2>2. Q \in Seq(Char)
      BY <1>2, <1>4, <1>8, <2>1, SliceIs
    <2>3. Q[1] = input[y + 1]
      BY <1>2, <1>4, <1>8, SliceFirst
    <2>4. QED
      BY <1>9, <2>2, <2>3, CopyFits
  <1>11. /\ dtable_size = q /\ prev = Slice(input, x, y) /\ y <= INPUT_SIZE - 2
    BY <1>1, <1>3, <1>4, <1>5 DEF Rebuilt
  <1>0. /\ x < y /\ y < z /\ z <= Len(input) /\ y <= INPUT_SIZE - 2
        /\ Len(input) \in Nat /\ INPUT_SIZE \in Nat
    BY <1>2, <1>4, <1>11, EncoderAssumption
  <1>12. CASE c < q
    <2>1. dtable[c] = Q
      <3>1. CASE c <= CHAR_MAX
        <4>1. c \in 0..CHAR_MAX
          BY <1>6, <1>7, <3>1, EncoderAssumption
        <4>2. QED
          BY <1>1, <1>2, <1>9, <4>1 DEF Rebuilt, Entries
      <3>2. CASE ~ (c <= CHAR_MAX)
        <4>1. PICK j \in 1..(k - 1) : c = CHAR_MAX + j /\ c < TABLE_SIZE
          <5>1. c - CHAR_MAX \in 1..(k - 1) /\ c = CHAR_MAX + (c - CHAR_MAX) /\ c < TABLE_SIZE
            BY <1>3, <1>6, <1>7, <1>12, <3>2, EncoderAssumption
          <5>2. QED
            BY <5>1
        <4>2. j - 1 \in 0..n /\ j \in 0..n /\ j \in 1..(n - 1) /\ j < k /\ j - 1 < j
          BY <1>2, <1>3, <4>1
        <4>3. PICK u, v \in Nat : /\ u = b[j - 1] /\ v = b[j]
                                 /\ u <= v /\ v <= y /\ v < Len(input)
          <5>1. b[j - 1] \in Nat /\ b[j] \in Nat
            BY <1>2, <4>2
          <5>2. b[j - 1] <= b[j]
            BY <1>2, <4>2
          <5>3. b[j] <= b[k]
            BY <1>2, <1>3, <4>2
          <5>4. b[j] < Len(input)
            BY <1>2, <4>2 DEF Entries
          <5>5. QED
            BY <1>4, <5>1, <5>2, <5>3, <5>4
        <4>4. PICK f \in Nat : f = v + 1 /\ u <= f /\ f <= Len(input) /\ f - u < INPUT_SIZE
          <5>1. PICK l, s \in Nat : /\ l = Len(input) /\ s = INPUT_SIZE
                                   /\ v < l /\ y <= s - 2
            BY <1>0, <4>3
          <5>2. u <= v /\ v <= y
            BY <4>3
          <5>3. v + 1 \in Nat /\ u <= v + 1 /\ v + 1 <= l /\ v + 1 - u < s
            BY <5>1, <5>2
          <5>4. QED
            BY <5>1, <5>3
        <4>5. /\ Slice(input, u, f) \in Seq(Char)
              /\ Len(Slice(input, u, f)) = f - u
          BY <1>2, <4>4, StringSliceIs
        <4>6. string_copy(Slice(input, u, f)) = Slice(input, u, f)
          BY <4>4, <4>5, CopyFits
        <4>7. table[c] = string_copy(Slice(input, u, f))
          BY <1>2, <4>1, <4>2, <4>3, <4>4 DEF Entries
        <4>8. dtable[c] = Slice(input, u, f)
          BY <1>1, <4>1, <4>3, <4>4 DEF Rebuilt
        <4>9. QED
          BY <1>9, <4>6, <4>7, <4>8
      <3>3. QED
        BY <3>1, <3>2
    <2>2. c \in 0..(dtable_size - 1)
      <3>1. c \in 0..(q - 1)
        BY <1>6, <1>7, <1>12
      <3>2. QED
        BY <1>11, <3>1
    <2>3. Phrases = {string_copy(dtable[c])}
      BY <1>1, <1>7, <2>2 DEF Phrases
    <2>4. QED
      BY <1>4, <1>8, <1>9, <1>10, <2>1, <2>3
  <1>13. CASE ~ (c < q)
    <2>1. c = q /\ q < TABLE_SIZE /\ c = CHAR_MAX + k /\ c \in Nat
      BY <1>6, <1>7, <1>13, EncoderAssumption
    <2>2. PICK f \in Nat : f = y + 1 /\ x < f /\ f <= Len(input) /\ f - x < INPUT_SIZE
      <3>1. x < y + 1 /\ y + 1 <= Len(input) /\ y + 1 - x < INPUT_SIZE
        BY <1>0
      <3>2. QED
        BY <3>1
    <2>3. Slice(input, x, y) \o <<input[f]>> = Slice(input, x, f)
      <3>1. x <= y /\ y < Len(input)
        BY <1>2, <1>4
      <3>2. QED
        BY <1>2, <2>2, <3>1, SliceGrows
    <2>4. prev \in Seq(Char) /\ Len(prev) < INPUT_SIZE /\ prev # <<>>
          /\ prev[1] = input[x + 1]
      <3>1. x <= y /\ y <= Len(input) /\ y - x < INPUT_SIZE
        BY <1>0
      <3>2. prev \in Seq(Char) /\ Len(prev) = y - x
        BY <1>2, <1>11, <3>1, StringSliceIs
      <3>3. prev[1] = input[x + 1] /\ prev # <<>>
        BY <1>2, <1>4, <1>11, <3>1, SliceFirst
      <3>4. QED
        BY <3>1, <3>2, <3>3
    <2>5. Q = Slice(input, x, f)
      <3>1. table[c] = string_copy(Slice(input, x, f))
        <4>1. k \in 1..(n - 1) /\ CHAR_MAX + k < TABLE_SIZE
          BY <1>3, <2>1
        <4>2. table[CHAR_MAX + k] = string_copy(Slice(input, b[k - 1], b[k] + 1))
          BY <1>2, <4>1 DEF Entries
        <4>3. QED
          BY <1>4, <2>1, <2>2, <4>2
      <3>2. Slice(input, x, f) \in Seq(Char) /\ Len(Slice(input, x, f)) = f - x
        <4>1. x <= f
          BY <2>2
        <4>2. QED
          BY <1>2, <2>2, <4>1, StringSliceIs
      <3>3. string_copy(Slice(input, x, f)) = Slice(input, x, f)
        BY <2>2, <3>2, CopyFits
      <3>4. QED
        BY <1>9, <3>1, <3>3
    <2>6. prev[1] = input[f]
      <3>1. Slice(input, x, f)[1] = input[x + 1]
        BY <1>2, <2>2, SliceFirst
      <3>2. QED
        BY <1>10, <2>2, <2>4, <2>5, <3>1
    <2>7. Followed(prev, prev) = Q
      <3>1. string_copy(prev) = prev
        BY <2>4, CopyFits
      <3>2. Followed(prev, prev) = prev \o <<prev[1]>>
        BY <2>4, <3>1 DEF Followed
      <3>3. QED
        BY <1>11, <2>3, <2>5, <2>6, <3>2
    <2>8. Phrases = {Followed(prev, prev)}
      <3>1. q \notin 0..(q - 1)
        BY <1>6
      <3>2. current_code = dtable_size /\ current_code \notin 0..(dtable_size - 1)
        BY <1>1, <1>7, <1>11, <2>1, <3>1
      <3>3. QED
        BY <3>2 DEF Phrases
    <2>9. QED
      BY <1>4, <1>8, <1>9, <2>7, <2>8
  <1>14. QED
    BY <1>12, <1>13


\* The first code is that of a character, which starts the output.
LEMMA FirstKeeps ==
  ASSUME TypeOK, NEW b, Encoded(b), Decoding(b), First, UNCHANGED evars
  PROVE  Decoding(b)'
  <1> DEFINE n == Len(output_code)
  <1>1. /\ epc = "encoded" /\ encoded_data = output_code /\ current_code = output_code[k + 1]
        /\ Rebuilt(b)
    BY DEF Decoding, current_code
  <1>2. /\ input \in Seq(Char) /\ Len(input) \in Nat /\ n \in Nat \ {0}
        /\ b[0] = 0 /\ 1 \in 0..n /\ 1 \in 1..n /\ 1 - 1 = 0
        /\ b[1] \in Nat /\ b[1] <= Len(input)
        /\ Entries(b, n - 1)
    BY <1>1, CodeFacts
  <1>3. /\ dpc = "decode" /\ k = 0 /\ k + 1 = 1
        /\ UNCHANGED <<encoded_data, dtable, dtable_size>>
    BY DEF First
  <1>4. /\ UNCHANGED <<input, output_code, epc>>
    BY DEF evars
  <1>5. PICK c \in 0..CHAR_MAX : c = output_code[1]
    <2>1. output_code[1] \in 0..(Size(0) - 1)
      BY <1>1, <1>2, CodeFacts
    <2>2. Size(0) - 1 = CHAR_MAX
      BY SizeAtFirst, EncoderAssumption
    <2>3. QED
      BY <2>1, <2>2
  <1>6. dtable_size = CHAR_MAX + 1 /\ dtable[c] = SingleChars[c] /\ current_code = c
    BY <1>1, <1>3, <1>5 DEF Rebuilt
  <1>7. PICK y \in Nat : y = b[1]
    BY <1>2
  <1>8. PICK Q : Q = Slice(input, 0, y)
    OBVIOUS
  <1>9. dtable[c] = Q
    <2>1. table[c] = SingleChars[c]
      BY <1>2, <1>5 DEF Entries
    <2>2. table[c] = Q
      BY <1>1, <1>2, <1>5, <1>7, <1>8, CodeFacts
    <2>3. QED
      BY <1>6, <2>1, <2>2
  <1>10. Q \in Seq(Char) /\ Len(Q) = y /\ y <= 1
    <2>1. 0 <= y /\ y <= Len(input) /\ y - 0 = y
      BY <1>2, <1>7
    <2>2. Q \in Seq(Char) /\ Len(Q) = y
      BY <1>2, <1>8, <2>1, SliceIs
    <2>3. Len(Q) <= 1
      BY <1>6, <1>9, SingleCharsFit
    <2>4. QED
      BY <2>2, <2>3
  <1>11. y < INPUT_SIZE /\ y <= INPUT_SIZE - 2
    BY <1>10, EncoderAssumption
  <1>12. prev' = Q /\ output' = Q /\ k' = 1 /\ dpc' = "decode"
    <2>1. c \in 0..(dtable_size - 1)
      BY <1>5, <1>6, EncoderAssumption
    <2>2. string_copy(Q) = Q
      BY <1>10, <1>11, CopyFits
    <2>3. QED
      BY <1>3, <1>6, <1>9, <2>1, <2>2 DEF First
  <1>13. Rebuilt(b)'
    <2>1. \A d \in 0..CHAR_MAX : dtable'[d] = SingleChars[d]
      BY <1>1, <1>3 DEF Rebuilt
    <2>2. \A j \in 1..(1 - 1) : FALSE
      OBVIOUS
    <2>3. dtable_size' = Size(1 - 1)
      BY <1>3, <1>6, SizeAtFirst
    <2>4. output' = Slice(input, 0, b[1]) /\ prev' = Slice(input, b[1 - 1], b[1])
      BY <1>2, <1>7, <1>8, <1>12
    <2>5. b[1] <= INPUT_SIZE - 2
      BY <1>7, <1>11
    <2>6. input' = input /\ k' = 1 /\ 1 # 0 /\ 1 > 0
      BY <1>4, <1>12
    <2>7. QED
      BY <2>1, <2>2, <2>3, <2>4, <2>5, <2>6 DEF Rebuilt
  <1>14. QED
    BY <1>1, <1>2, <1>3, <1>4, <1>12, <1>13 DEF Decoding

\* The next phrase continues the output, and the phrase before with its first
\* character is the encoder's entry.
LEMMA WriteKeeps ==
  ASSUME TypeOK, NEW b, Encoded(b), Decoding(b), Write, UNCHANGED evars
  PROVE  Decoding(b)'
  <1> DEFINE n == Len(output_code)
  <1>1. /\ epc = "encoded" /\ encoded_data = output_code
        /\ Rebuilt(b)
    BY DEF Decoding
  <1>2. /\ input \in Seq(Char) /\ Len(input) \in Nat /\ n \in Nat \ {0}
        /\ \A j \in 0..n : b[j] \in Nat /\ b[j] <= Len(input)
        /\ \A j, l \in 0..n : j < l => b[j] <= b[l] /\ (input # <<>> => b[j] < b[l])
    BY <1>1, CodeFacts
  <1>3. PICK m \in 1..(n - 1) : m = k /\ k' = m + 1
    BY <1>1 DEF Write
  <1>4. UNCHANGED <<input, output_code, epc, encoded_data, dpc>> /\ dpc = "decode"
    BY DEF evars, Write
  <1>5. /\ m \in Nat /\ m - 1 \in Nat /\ m > 0 /\ 1 < n
        /\ m - 1 + 1 = m /\ m + 1 - 1 = m
        /\ m \in 0..n /\ m - 1 \in 0..n /\ m + 1 \in 0..n /\ m - 1 < m /\ m < m + 1
    BY <1>2, <1>3
  <1>6. PICK x, y, z \in Nat :
          /\ x = b[m - 1] /\ y = b[m] /\ z = b[m + 1]
          /\ x < y /\ y < z /\ z <= Len(input)
    <2>1. input # <<>>
      BY <1>1, <1>5, CodeFacts
    <2>2. b[m - 1] \in Nat /\ b[m] \in Nat /\ b[m + 1] \in Nat /\ b[m + 1] <= Len(input)
      BY <1>2, <1>5
    <2>3. b[m - 1] < b[m] /\ b[m] < b[m + 1]
      BY <1>2, <1>5, <2>1
    <2>4. QED
      BY <2>2, <2>3
  <1>7. PICK Q : Q = Slice(input, y, z)
    OBVIOUS
  <1>8. Phrases = {Q} /\ Len(Q) < INPUT_SIZE
    BY <1>3, <1>6, <1>7, NextPhrase
  <1>9. Fits(Q) /\ output' = output \o Q /\ AddEntry(Q) /\ prev' = string_copy(Q)
    BY <1>8 DEF Write
  <1>10. /\ dtable_size = Size(m - 1) /\ prev = Slice(input, x, y)
         /\ output = Slice(input, 0, y) /\ y <= INPUT_SIZE - 2
    BY <1>1, <1>3, <1>5, <1>6 DEF Rebuilt
  <1>11. /\ x <= y /\ y <= z /\ 0 <= y /\ y < Len(input) /\ y <= Len(input) /\ 0 \in Nat
         /\ y - x < INPUT_SIZE /\ y - 0 = y
    <2>1. PICK l, s \in Nat : l = Len(input) /\ s = INPUT_SIZE
      BY <1>2, EncoderAssumption
    <2>2. x < y /\ y < z /\ z <= l
      BY <1>6, <2>1
    <2>3. y <= s - 2
      BY <1>10, <2>1
    <2>4. /\ x <= y /\ y <= z /\ 0 <= y /\ y < l /\ y <= l /\ 0 \in Nat
          /\ y - x < s /\ y - 0 = y
      BY <2>2, <2>3
    <2>5. QED
      BY <2>1, <2>4
  <1>12. Q \in Seq(Char) /\ Len(Q) = z - y /\ Q[1] = input[y + 1] /\ Q # <<>>
    <2>1. Q \in Seq(Char) /\ Len(Q) = z - y
      BY <1>2, <1>6, <1>7, <1>11, StringSliceIs
    <2>2. Q[1] = input[y + 1] /\ Q # <<>>
      BY Zenon, <1>2, <1>6, <1>7, SliceFirst
    <2>3. QED
      BY <2>1, <2>2
  <1>13. prev' = Q
    BY <1>8, <1>9, <1>12, CopyFits
  <1>14. output' = Slice(input, 0, z)
    <2>1. Slice(input, 0, y) \o Slice(input, y, z) = Slice(input, 0, z)
      <3>1. PICK o \in Nat : o = 0 /\ o <= y /\ y <= z /\ z <= Len(input)
        BY <1>6, <1>11
      <3>2. Slice(input, o, y) \o Slice(input, y, z) = Slice(input, o, z)
        <4>1. input \in Seq(Char)
          BY <1>2
        <4>2. QED
          BY ONLY <3>1, <4>1, SlicesJoin
      <3>3. QED
        BY <3>1, <3>2
    <2>2. QED
      BY <1>7, <1>9, <1>10, <2>1
  <1>15. z <= INPUT_SIZE - 2
    <2>1. Len(output) = y
      BY <1>2, <1>10, <1>11, SliceIs
    <2>2. y + (z - y) < INPUT_SIZE - 1
      BY <1>9, <1>12, <2>1 DEF Fits
    <2>3. QED
      BY <2>2, EncoderAssumption
  <1>16. PICK f : f = Slice(input, x, y + 1)
    OBVIOUS
  <1>17. Followed(prev, Q) = f
    <2>1. prev \in Seq(Char) /\ Len(prev) = y - x
      BY <1>2, <1>10, <1>11, StringSliceIs
    <2>2. string_copy(prev) = prev
      BY <1>11, <2>1, CopyFits
    <2>3. Slice(input, x, y) \o <<input[y + 1]>> = Slice(input, x, y + 1)
      BY <1>2, <1>11, SliceGrows
    <2>4. Followed(prev, Q) = prev \o <<input[y + 1]>>
      BY <1>12, <2>2 DEF Followed
    <2>5. QED
      BY <1>10, <1>16, <2>3, <2>4
  <1>18. PICK q \in (CHAR_MAX + 1)..TABLE_SIZE :
           /\ q = Size(m - 1) /\ q \in Nat
           /\ q <= CHAR_MAX + m
           /\ q < TABLE_SIZE => q = CHAR_MAX + m
           /\ Size(m) = (IF q < TABLE_SIZE THEN q + 1 ELSE q)
    <2>1. /\ Size(m - 1) \in (CHAR_MAX + 1)..TABLE_SIZE
          /\ Size(m - 1) <= CHAR_MAX + 1 + (m - 1)
          /\ Size(m - 1) < TABLE_SIZE => Size(m - 1) = CHAR_MAX + 1 + (m - 1)
          /\ Size(m - 1 + 1) = IF Size(m - 1) < TABLE_SIZE THEN Size(m - 1) + 1
                                                      ELSE Size(m - 1)
      BY <1>5, SizeIs
    <2>2. CHAR_MAX + 1 + (m - 1) = CHAR_MAX + m
      BY <1>5, EncoderAssumption
    <2>3. QED
      BY <1>5, <2>1, <2>2, EncoderAssumption
  <1>19. /\ dtable_size' = Size(m)
         /\ \A c \in 0..(q - 1) : dtable'[c] = dtable[c]
         /\ CHAR_MAX + m < TABLE_SIZE => dtable'[CHAR_MAX + m] = f
    <2>1. CASE q < TABLE_SIZE
      <3>1. /\ dtable_size' = q + 1
            /\ dtable' = [c \in 0..q |-> IF c = q THEN f ELSE dtable[c]]
        BY <1>9, <1>10, <1>17, <1>18, <2>1 DEF AddEntry
      <3>2. \A c \in 0..(q - 1) : c \in 0..q /\ c # q
        BY <1>18
      <3>3. q \in 0..q /\ q = CHAR_MAX + m
        BY <1>18, <2>1
      <3>4. dtable'[q] = f
        BY <3>1, <3>3
      <3>5. QED
        BY <1>18, <2>1, <3>1, <3>2, <3>3, <3>4
    <2>2. CASE ~ (q < TABLE_SIZE)
      <3>1. UNCHANGED <<dtable, dtable_size>>
        BY <1>9, <1>10, <1>18, <2>2 DEF AddEntry
      <3>2. ~ (CHAR_MAX + m < TABLE_SIZE)
        BY <1>5, <1>18, <2>2, EncoderAssumption
      <3>3. QED
        BY <1>10, <1>18, <2>2, <3>1, <3>2
    <2>3. QED
      BY <2>1, <2>2
  <1>20. \A c \in 0..CHAR_MAX : dtable'[c] = SingleChars[c]
    <2>1. \A c \in 0..CHAR_MAX : c \in 0..(q - 1)
      BY <1>18, EncoderAssumption
    <2>2. QED
      BY <1>1, <1>19, <2>1 DEF Rebuilt
  <1>21. ASSUME NEW j \in 1..m, CHAR_MAX + j < TABLE_SIZE
         PROVE  dtable'[CHAR_MAX + j] = Slice(input, b[j - 1], b[j] + 1)
    <2>1. CASE j = m
      BY <1>6, <1>16, <1>19, <1>21, <2>1
    <2>2. CASE j # m
      <3>1. j \in 1..(m - 1)
        BY <1>5, <2>2
      <3>2. CHAR_MAX + j \in 0..(q - 1)
        BY <1>5, <1>18, <1>21, <3>1, EncoderAssumption
      <3>3. dtable[CHAR_MAX + j] = Slice(input, b[j - 1], b[j] + 1)
        BY <1>1, <1>3, <1>21, <3>1 DEF Rebuilt
      <3>4. QED
        BY <1>19, <3>2, <3>3
    <2>3. QED
      BY <2>1, <2>2
  <1>22. Rebuilt(b)'
    <2>1. /\ output' = Slice(input, 0, b[m + 1]) /\ b[m + 1] <= INPUT_SIZE - 2
          /\ prev' = Slice(input, b[m], b[m + 1])
      BY <1>6, <1>7, <1>13, <1>14, <1>15
    <2>2. input' = input /\ k' = m + 1 /\ m + 1 # 0 /\ m + 1 > 0
      BY <1>3, <1>4, <1>5
    <2>3. QED
      BY <1>5, <1>19, <1>20, <1>21, <2>1, <2>2 DEF Rebuilt
  <1>23. QED
    BY <1>1, <1>3, <1>4, <1>5, <1>22 DEF Decoding


\* The steps that end the decoding write nothing.  A code is never invalid.
LEMMA EndKeeps ==
  ASSUME TypeOK, NEW b, Encoded(b), Decoding(b), Invalid \/ Full \/ Last, UNCHANGED evars
  PROVE  Decoding(b)'
  <1> DEFINE n == Len(output_code)
  <1>1. /\ epc = "encoded" /\ encoded_data = output_code /\ k \in 0..n
        /\ Rebuilt(b)
    BY DEF Decoding
  <1>2. UNCHANGED <<input, output_code, epc, encoded_data, k, prev, dtable, dtable_size, output>>
    BY DEF evars, Invalid, Full, Last
  <1>3. Rebuilt(b)'
    BY <1>1, <1>2 DEF Rebuilt
  <1>4. CASE Last
    <2>1. dpc' = "decoded" /\ k = n
      BY <1>1, <1>4 DEF Last
    <2>2. QED
      BY <1>1, <1>2, <1>3, <2>1 DEF Decoding
  <1>5. CASE Invalid \/ Full
    <2>1. k \in 1..(n - 1) /\ dpc' = "stopped"
      BY <1>1, <1>5 DEF Invalid, Full
    <2>2. /\ Phrases = {Slice(input, b[k], b[k + 1])}
          /\ Len(Slice(input, b[k], b[k + 1])) < INPUT_SIZE
      BY <2>1, NextPhrase
    <2>3. ~ Fits(Slice(input, b[k], b[k + 1]))
      BY <1>5, <2>2 DEF Invalid, Full
    <2>4. PICK y, z \in Nat : /\ y = b[k] /\ z = b[k + 1] /\ y <= z /\ z <= Len(input)
                             /\ Len(input) \in Nat
      <3>1. k \in 0..n /\ k + 1 \in 0..n /\ k < k + 1
        BY <2>1
      <3>2. QED
        BY SMTT(30), <1>1, <3>1, CodeFacts
    <2>5. Len(output) = y /\ Len(Slice(input, y, z)) = z - y
      <3>1. PICK o \in Nat : o = 0 /\ o <= y /\ y <= Len(input)
        BY <2>4
      <3>2. input \in Seq(Char)
        BY <1>1, CodeFacts
      <3>3. Len(Slice(input, o, y)) = y - o /\ Len(Slice(input, y, z)) = z - y
        BY <2>4, <3>1, <3>2, StringSliceIs
      <3>4. output = Slice(input, o, y)
        BY <1>1, <2>4, <3>1 DEF Rebuilt
      <3>5. QED
        BY <3>1, <3>3, <3>4
    <2>6. ~ (y + (z - y) < INPUT_SIZE - 1)
      BY <2>3, <2>4, <2>5 DEF Fits
    <2>7. b[k + 1] > INPUT_SIZE - 2
      BY <2>4, <2>6, EncoderAssumption
    <2>8. k > 0 /\ k < n
      BY <2>1
    <2>9. QED
      BY <1>1, <1>2, <1>3, <2>1, <2>7, <2>8 DEF Decoding
  <1>6. QED
    BY <1>4, <1>5

\* decoding starts with the encoder's codes and a dictionary of its own.
LEMMA CallKeeps ==
  ASSUME TypeOK, NEW b, Encoded(b), Fresh, CallDecoding
  PROVE  Decoding(b)'
  <1>1. /\ epc = "encoded" /\ encoded_data' = output_code
        /\ UNCHANGED <<input, output_code, epc, k, prev, dtable, dtable_size, output, dpc>>
    BY DEF CallDecoding, evars
  <1>2. /\ k = 0 /\ prev = <<>> /\ dtable = SingleChars /\ dtable_size = CHAR_MAX + 1
        /\ output = <<>> /\ dpc = "decode"
    BY DEF Fresh
  <1>3. input \in Seq(Char) /\ b[0] = 0 /\ 0 \in 0..Len(output_code)
    BY <1>1, CodeFacts
  <1>4. Rebuilt(b)'
    <2>1. output' = Slice(input, 0, b[0]) /\ b[0] <= INPUT_SIZE - 2
      BY <1>1, <1>2, <1>3, SliceOfNone, EncoderAssumption
    <2>2. \A j \in 1..(0 - 1) : FALSE
      OBVIOUS
    <2>3. QED
      BY <1>1, <1>2, <2>1, <2>2 DEF Rebuilt
  <1>5. QED
    BY <1>1, <1>2, <1>3, <1>4 DEF Decoding

-----------------------------------------------------------------------------
(* The kernel. *)

LEMMA InitKernel == Init => KernelInv
  <1> SUFFICES ASSUME Init, InKernel
               PROVE  TypeOK /\ \E b : Encoded(b) /\ Decoded(b)
    BY DEF KernelInv
  <1>1. EncodeInit /\ encoded_data = <<>> /\ Fresh
    BY DEF Init, KernelInit, DecodingInit, InKernel
  <1>2. TypeOK /\ \E b : Encoded(b)
    BY <1>1, InitTyped, InitHasCuts
  <1>3. QED
    BY <1>1, <1>2 DEF Decoded

LEMMA NextKernel == KernelInv /\ [Next]_lzw_vars => KernelInv'
  <1> SUFFICES ASSUME KernelInv, [Next]_lzw_vars, InKernel'
               PROVE  (TypeOK /\ \E b : Encoded(b) /\ Decoded(b))'
    BY DEF KernelInv
  <1>1. InKernel
    <2>1. EncodeNext => epc = "encode"
      BY DEF EncodeNext, Extend, Emit, EmitLast
    <2>2. QED
      BY <2>1 DEF InKernel, Next, Encode, CallDecoding, Decode, lzw_vars, evars
  <1>2. TypeOK
    BY <1>1 DEF KernelInv
  <1>3. PICK b : Encoded(b) /\ Decoded(b)
    BY <1>1 DEF KernelInv
  <1>4. TypeOK'
    <2>1. [EncodeNext]_evars
      BY DEF Next, Encode, CallDecoding, Decode, lzw_vars
    <2>2. QED
      BY <1>2, <2>1, NextTyped
  <1>5. ASSUME UNCHANGED evars
        PROVE  Encoded(b)'
    BY <1>3, <1>5 DEF evars, Encoded, Cut, InLoop, Entries, CodesOf, Through
  <1>6. CASE Encode
    <2>1. EncodeNext /\ UNCHANGED dvars /\ epc = "encode"
      BY <1>6 DEF Encode, EncodeNext, Extend, Emit, EmitLast
    <2>2. encoded_data = <<>> /\ Fresh
      BY <1>3, <2>1 DEF Decoded, Decoding
    <2>3. encoded_data' = <<>> /\ Fresh'
      BY <2>1, <2>2 DEF dvars, Fresh
    <2>4. \E w : Encoded(w)'
      BY <1>2, <1>3, <2>1, ExtendKeepsCuts, EmitAddsCut, LastAddsCut DEF EncodeNext
    <2>5. QED
      BY <1>4, <2>3, <2>4 DEF Decoded
  <1>7. CASE CallDecoding
    <2>1. UNCHANGED evars /\ encoded_data = <<>> /\ encoded_data' = output_code
          /\ epc = "encoded"
      BY <1>7 DEF CallDecoding
    <2>2. Decoding(b)'
      BY <1>2, <1>3, <1>7, <2>1, CallKeeps DEF Decoded
    <2>3. encoded_data' # <<>>
      BY <1>2, <1>3, <2>1, CodeFacts
    <2>4. QED
      BY <1>4, <1>5, <2>1, <2>2, <2>3 DEF Decoded
  <1>8. CASE Decode
    <2>1. encoded_data # <<>> /\ DecodeNext /\ UNCHANGED evars
      BY <1>8 DEF Decode
    <2>2. Decoding(b)
      BY <1>3, <2>1 DEF Decoded
    <2>3. Decoding(b)'
      BY <1>2, <1>3, <2>1, <2>2, FirstKeeps, WriteKeeps, EndKeeps DEF DecodeNext
    <2>4. encoded_data' # <<>>
      BY <2>1 DEF DecodeNext, First, Invalid, Full, Write, Last
    <2>5. QED
      BY <1>4, <1>5, <2>1, <2>3, <2>4 DEF Decoded
  <1>9. CASE UNCHANGED lzw_vars
    <2>1. UNCHANGED evars /\ UNCHANGED dvars
      BY <1>9 DEF lzw_vars
    <2>2. Decoded(b)'
      BY <1>3, <2>1 DEF evars, dvars, Decoded, Decoding, Rebuilt, Fresh
    <2>3. QED
      BY <1>4, <1>5, <2>1, <2>2
  <1>10. QED
    BY <1>6, <1>7, <1>8, <1>9 DEF Next

LEMMA AlwaysKernel == Spec => []KernelInv
  BY InitKernel, NextKernel, PTL DEF Spec

\* Whatever the sizes of the arrays and the dictionary, an input that leaves room
\* for a character and the NUL in the decoder's array comes back from lzw_fpga
\* (lzw_hls.cpp:32-165).
THEOREM InputComesBack == Spec => []RoundTrip
  <1>1. KernelInv => RoundTrip
    <2> SUFFICES ASSUME KernelInv, Finished, Len(input) <= INPUT_SIZE - 2
                 PROVE  dpc = "decoded" /\ output = input
      BY DEF RoundTrip
    <2>1. TypeOK /\ dpc \in {"decoded", "stopped"}
      BY DEF KernelInv, Finished
    <2>2. PICK b : Encoded(b) /\ Decoding(b)
      BY <2>1 DEF KernelInv, Finished, Decoded, Fresh
    <2>3. epc = "encoded" /\ Rebuilt(b)
      BY <2>2 DEF Decoding
    <2>4. dpc # "stopped"
      <3> SUFFICES ASSUME dpc = "stopped"
                   PROVE  FALSE
        OBVIOUS
      <3>1. k > 0 /\ k < Len(output_code) /\ b[k + 1] > INPUT_SIZE - 2
            /\ k \in 0..Len(output_code)
        BY <2>2 DEF Decoding
      <3>2. k + 1 \in 0..Len(output_code)
        BY <2>1, <2>2, <2>3, <3>1, CodeFacts
      <3>3. b[k + 1] \in Nat /\ b[k + 1] <= Len(input) /\ Len(input) \in Nat
        BY <2>1, <2>2, <2>3, <3>2, CodeFacts
      <3>4. QED
        BY <3>1, <3>3, EncoderAssumption
    <2>5. k = Len(output_code)
      BY <2>1, <2>2, <2>4 DEF Decoding
    <2>6. input \in Seq(Char) /\ b[k] = Len(input)
      BY <2>1, <2>2, <2>3, <2>5, CodeFacts
    <2>7. output = Slice(input, 0, Len(input))
      BY <2>3, <2>6 DEF Rebuilt
    <2>8. QED
      BY <2>1, <2>4, <2>6, <2>7, SliceOfAll
  <1>2. QED
    BY AlwaysKernel, <1>1, PTL

\* Whatever the input, also one too long to come back, the decoder has written
\* its beginning, and no code of the encoder is unknown to the decoder when it
\* gets there (lzw_hls.cpp:130-165).
THEOREM BeginningIsDecoded == Spec => []DecodedIsPrefix
  <1>1. KernelInv => DecodedIsPrefix
    <2> SUFFICES ASSUME KernelInv, InKernel, encoded_data # <<>>
                 PROVE  /\ Len(output) <= Len(input)
                        /\ output = SubSeq(input, 1, Len(output))
                        /\ dpc = "decode" /\ k \in 1..(Len(encoded_data) - 1) => Phrases # {}
      BY DEF DecodedIsPrefix
    <2>1. TypeOK
      BY DEF KernelInv
    <2>2. PICK b : Encoded(b) /\ Decoding(b)
      BY DEF KernelInv, Decoded
    <2>3. /\ epc = "encoded" /\ Rebuilt(b) /\ k \in 0..Len(output_code)
          /\ encoded_data = output_code
      BY <2>2 DEF Decoding
    <2>4. PICK y \in Nat : y = b[k] /\ y <= Len(input) /\ 0 <= y /\ y - 0 = y
      BY <2>1, <2>2, <2>3, CodeFacts
    <2>5. output = Slice(input, 0, y) /\ input \in Seq(Char)
      BY <2>1, <2>2, <2>3, <2>4, CodeFacts DEF Rebuilt
    <2>6. Len(output) = y
      BY <2>4, <2>5, SliceIs
    <2>7. output = SubSeq(input, 1, Len(output))
      BY <2>5, <2>6 DEF Slice
    <2>8. k \in 1..(Len(encoded_data) - 1) => Phrases # {}
      BY <2>1, <2>2, <2>3, NextPhrase
    <2>9. QED
      BY <2>4, <2>6, <2>7, <2>8
  <1>2. QED
    BY AlwaysKernel, <1>1, PTL

-----------------------------------------------------------------------------

LessThan == {ss \in Nat \X Nat : ss[1] < ss[2]}

LEMMA LessThanWellFounded == IsWellFoundedOn(LessThan, Nat)
  <1>1. OpToRel(<, Nat) = LessThan
    BY Zenon DEF OpToRel, LessThan
  <1>2. QED
    BY <1>1, NatLessThanWellFounded

\* A set of naturals has a least element.
LEMMA LeastOf ==
  ASSUME NEW T, T \subseteq Nat, T # {}
  PROVE  \E m \in T : \A n \in T : m <= n
  <1>1. PICK m \in T : \A n \in T : ~ (<<n, m>> \in LessThan)
    BY LessThanWellFounded, WFMin
  <1>2. ASSUME NEW n \in T PROVE m <= n
    <2>1. n \in Nat /\ m \in Nat
      OBVIOUS
    <2>2. ~ (n < m)
      BY <1>1, <2>1 DEF LessThan
    <2>3. QED
      BY <2>1, <2>2
  <1>3. QED
    BY <1>2

\* Induction on the naturals.
LEMMA Induct ==
  ASSUME NEW T, 0 \in T, \A n \in Nat : n \in T => n + 1 \in T
  PROVE  \A n \in Nat : n \in T
  <1>1. SUFFICES ASSUME NEW b \in Nat, b \notin T PROVE FALSE
    OBVIOUS
  <1> DEFINE U == Nat \ T
  <1>2. U \subseteq Nat /\ U # {}
    BY <1>1
  <1> HIDE DEF U
  <1>3. PICK m \in U : \A n \in U : m <= n
    BY <1>2, LeastOf
  <1>4. m \in Nat /\ m \notin T /\ m # 0 /\ m - 1 \in Nat /\ m - 1 + 1 = m
    BY <1>3 DEF U
  <1>5. m - 1 \in U
    BY <1>4 DEF U
  <1>6. QED
    BY <1>3, <1>4, <1>5

-----------------------------------------------------------------------------
(* Functions defined by recursion over 0..N. *)

\* f goes from a in N steps.
Runs(f, a, step, N) ==
  /\ DOMAIN f = 0..N
  /\ f[0] = a
  /\ \A n \in 1..N : f[n] = step[n][f[n - 1]]

\* A function is defined by its first value and by its steps.
LEMMA Iterate ==
  ASSUME NEW S, NEW N \in Nat, NEW a \in S, NEW step \in [1..N -> [S -> S]]
  PROVE  \E f \in [0..N -> S] : Runs(f, a, step, N)
  <1> DEFINE T == {n \in Nat : n <= N => \E f \in [0..n -> S] : Runs(f, a, step, n)}
  <1>1. 0 \in T
    <2> DEFINE f == [n \in 0..0 |-> a]
    <2>1. f \in [0..0 -> S] /\ Runs(f, a, step, 0)
      BY DEF Runs
    <2>2. QED
      BY <2>1
  <1>2. ASSUME NEW n \in Nat, n \in T PROVE n + 1 \in T
    <2>1. SUFFICES ASSUME n + 1 <= N
                   PROVE  \E f \in [0..(n + 1) -> S] : Runs(f, a, step, n + 1)
      OBVIOUS
    <2>2. PICK f \in [0..n -> S] : Runs(f, a, step, n)
      BY <1>2, <2>1
    <2> DEFINE last == step[n + 1][f[n]]
               g == [K \in 0..(n + 1) |-> IF K = n + 1 THEN last ELSE f[K]]
    <2>3. last \in S
      <3>1. n + 1 \in 1..N /\ n \in 0..n
        BY <2>1
      <3>2. step[n + 1] \in [S -> S] /\ f[n] \in S
        BY <2>2, <3>1
      <3>3. QED
        BY <3>2
    <2>4. g \in [0..(n + 1) -> S]
      <3> HIDE DEF last
      <3>1. ASSUME NEW K \in 0..(n + 1), K # n + 1 PROVE f[K] \in S
        BY <2>2, <3>1
      <3>2. QED
        BY <2>3, <3>1
    <2>5. g[0] = a /\ DOMAIN g = 0..(n + 1)
      <3> HIDE DEF last
      <3>1. 0 \in 0..(n + 1) /\ 0 # n + 1
        OBVIOUS
      <3>2. QED
        BY <2>2, <3>1 DEF Runs
    <2>6. ASSUME NEW K \in 1..(n + 1) PROVE g[K] = step[K][g[K - 1]]
      <3>1. CASE K = n + 1
        <4>1. g[n + 1] = last /\ g[n] = f[n]
          <5> HIDE DEF last
          <5>1. n + 1 \in 0..(n + 1) /\ n \in 0..(n + 1) /\ n # n + 1
            OBVIOUS
          <5>2. QED
            BY <5>1
        <4>2. K - 1 = n
          BY <3>1
        <4>3. QED
          BY <3>1, <4>1, <4>2
      <3>2. CASE K # n + 1
        <4>1. K \in 1..n /\ K \in 0..(n + 1) /\ K - 1 \in 0..(n + 1) /\ K - 1 # n + 1
          BY <3>2
        <4>2. g[K] = f[K] /\ g[K - 1] = f[K - 1]
          BY <3>2, <4>1
        <4>3. QED
          BY <2>2, <4>1, <4>2 DEF Runs
      <3>3. QED
        BY <3>1, <3>2
    <2> HIDE DEF g
    <2>7. Runs(g, a, step, n + 1)
      BY <2>5, <2>6 DEF Runs
    <2>8. QED
      BY <2>4, <2>7
  <1> HIDE DEF T
  <1>3. N \in T
    BY <1>1, <1>2, Induct
  <1>4. QED
    BY <1>3 DEF T

\* Induction up to N.
LEMMA UpTo ==
  ASSUME NEW N \in Nat, NEW T, 0 \in T, \A n \in 1..N : n - 1 \in T => n \in T
  PROVE  \A n \in 0..N : n \in T
  <1> DEFINE U == {n \in Nat : n <= N => n \in T}
  <1>1. 0 \in U
    OBVIOUS
  <1>2. ASSUME NEW n \in Nat, n \in U PROVE n + 1 \in U
    <2>1. SUFFICES ASSUME n + 1 <= N PROVE n + 1 \in T
      OBVIOUS
    <2>2. n + 1 \in 1..N /\ (n + 1) - 1 = n /\ n \in T
      BY <1>2, <2>1
    <2>3. QED
      BY <2>2
  <1> HIDE DEF U
  <1>3. \A n \in Nat : n \in U
    BY <1>1, <1>2, Induct
  <1>4. QED
    BY <1>3 DEF U

-----------------------------------------------------------------------------
(* The tables of the stream decoder's model. *)

LEMMA PowersOfTwo ==
  /\ Pow2[0] = 1
  /\ \A n \in 0..CODE_LENGTH : Pow2[n] \in Nat \ {0}
  /\ \A n \in 1..CODE_LENGTH : Pow2[n] = 2 * Pow2[n - 1]
  <1> DEFINE N == CODE_LENGTH
             S == Nat \ {0}
             step == [n \in 1..N |-> [x \in S |-> 2 * x]]
  <1>1. N \in Nat
    BY WidthAssumption
  <1>2. step \in [1..N -> [S -> S]] /\ 1 \in S
    OBVIOUS
  <1>3. \A n \in 1..N, x \in S : step[n][x] = 2 * x
    OBVIOUS
  <1> HIDE DEF step
  <1>4. PICK f \in [0..N -> S] : Runs(f, 1, step, N)
    BY <1>1, <1>2, Iterate
  <1> HIDE DEF N
  <1>5. \A n \in 1..N : f[n] = 2 * f[n - 1]
    <2> TAKE n \in 1..N
    <2>1. f[n - 1] \in S
      BY <1>1
    <2>2. QED
      BY <1>3, <1>4, <2>1 DEF Runs
  <1> DEFINE Table(h) == h = [n \in 0..N |-> IF n = 0 THEN 1 ELSE 2 * h[n - 1]]
             C == CHOOSE h : Table(h)
  <1>6. Table(f)
    <2>1. f[0] = 1 /\ \A n \in 0..N : n = 0 \/ n \in 1..N
      BY <1>1, <1>4 DEF Runs
    <2>2. f = [n \in 0..N |-> f[n]]
      BY Zenon
    <2>3. QED
      BY Zenon, <1>5, <2>1, <2>2
  <1>7. Table(C) /\ Pow2 = C
    BY Zenon, <1>6 DEF Pow2, N
  <1> HIDE DEF C
  <1>8. C[0] = 1 /\ \A n \in 1..N : C[n] = 2 * C[n - 1]
    BY <1>1, <1>7
  <1> HIDE DEF Table
  <1>9. f[0] = C[0]
    BY <1>4, <1>8 DEF Runs
  <1>10. ASSUME NEW n \in 1..N, f[n - 1] = C[n - 1] PROVE f[n] = C[n]
    BY <1>5, <1>8, <1>10
  <1>11. \A n \in 0..N : f[n] = C[n]
    <2> DEFINE T == {n \in 0..N : f[n] = C[n]}
    <2>1. 0 \in T /\ \A n \in 1..N : n - 1 \in T => n \in T
      BY <1>1, <1>9, <1>10
    <2> HIDE DEF T
    <2>2. \A n \in 0..N : n \in T
      BY <1>1, <2>1, UpTo
    <2>3. QED
      BY <2>2 DEF T
  <1>12. QED
    BY <1>7, <1>8, <1>11 DEF N

LEMMA NumberTable ==
  ASSUME NEW bits \in [1..CODE_LENGTH -> {0, 1}]
  PROVE  \E c \in [0..CODE_LENGTH -> Nat] :
           /\ c[0] = 0
           /\ \A n \in 1..CODE_LENGTH : c[n] = 2 * c[n - 1] + bits[n]
           /\ NumberOf(bits) = c[CODE_LENGTH]
  <1> DEFINE N == CODE_LENGTH
             step == [n \in 1..N |-> [x \in Nat |-> 2 * x + bits[n]]]
  <1>1. N \in Nat
    BY WidthAssumption
  <1>2. step \in [1..N -> [Nat -> Nat]]
    <2>1. \A n \in 1..N : bits[n] \in Nat
      OBVIOUS
    <2>2. QED
      BY <2>1
  <1>3. \A n \in 1..N, x \in Nat : step[n][x] = 2 * x + bits[n]
    OBVIOUS
  <1> HIDE DEF step
  <1>4. PICK f \in [0..N -> Nat] : Runs(f, 0, step, N)
    BY <1>1, <1>2, Iterate
  <1> HIDE DEF N
  <1>5. \A n \in 1..N : f[n] = 2 * f[n - 1] + bits[n]
    <2> TAKE n \in 1..N
    <2>1. f[n - 1] \in Nat
      BY <1>1
    <2>2. QED
      BY <1>3, <1>4, <2>1 DEF Runs
  <1> DEFINE Table(h) == h = [n \in 0..N |-> IF n = 0 THEN 0 ELSE 2 * h[n - 1] + bits[n]]
             C == CHOOSE h : Table(h)
  <1>6. Table(f)
    <2>1. f[0] = 0 /\ \A n \in 0..N : n = 0 \/ n \in 1..N
      BY <1>1, <1>4 DEF Runs
    <2>2. f = [n \in 0..N |-> f[n]]
      BY Zenon
    <2>3. QED
      BY Zenon, <1>5, <2>1, <2>2
  <1>7. Table(C) /\ NumberOf(bits) = C[N]
    BY Zenon, <1>6 DEF NumberOf, N
  <1> HIDE DEF C
  <1>8. C[0] = 0 /\ \A n \in 1..N : C[n] = 2 * C[n - 1] + bits[n]
    BY <1>1, <1>7
  <1> HIDE DEF Table
  <1>9. f[0] = C[0]
    BY <1>4, <1>8 DEF Runs
  <1>10. ASSUME NEW n \in 1..N, f[n - 1] = C[n - 1] PROVE f[n] = C[n]
    BY <1>5, <1>8, <1>10
  <1>11. \A n \in 0..N : f[n] = C[n]
    <2> DEFINE T == {n \in 0..N : f[n] = C[n]}
    <2>1. 0 \in T /\ \A n \in 1..N : n - 1 \in T => n \in T
      BY <1>1, <1>9, <1>10
    <2> HIDE DEF T
    <2>2. \A n \in 0..N : n \in T
      BY <1>1, <2>1, UpTo
    <2>3. QED
      BY <2>2 DEF T
  <1>12. f[0] = 0 /\ N \in 0..N
    BY <1>1, <1>4 DEF Runs
  <1>13. QED
    BY <1>5, <1>7, <1>11, <1>12 DEF N

\* The quotient and the rest of a division are what they are.
LEMMA Quotient ==
  ASSUME NEW a \in Nat, NEW d \in Nat \ {0}, NEW q \in Nat, NEW r \in Nat,
         r < d, a = q * d + r
  PROVE  a \div d = q /\ a % d = r
  OBVIOUS

LEMMA Division ==
  ASSUME NEW a \in Nat, NEW d \in Nat \ {0}
  PROVE  /\ a = (a \div d) * d + (a % d)
         /\ a \div d \in Nat /\ a % d \in Nat /\ a % d < d
  OBVIOUS

\* Dividing by twice d is dividing by d and halving.
LEMMA Halving ==
  ASSUME NEW a \in Nat, NEW d \in Nat \ {0}
  PROVE  /\ a \div d = 2 * (a \div (2 * d)) + ((a \div d) % 2)
         /\ (a \div d) % 2 \in {0, 1}
  <1> DEFINE q == a \div d
             r == a % d
             h == q \div 2
             e == q % 2
  <1>1. a = q * d + r /\ q \in Nat /\ r \in Nat /\ r < d
    BY Division
  <1> HIDE DEF q, r
  <1>2. q = h * 2 + e /\ h \in Nat /\ e \in {0, 1}
    BY <1>1
  <1> HIDE DEF h, e
  <1>3. e * d + r \in Nat /\ e * d + r < 2 * d
    BY <1>1, <1>2
  <1>4. q * d = h * (2 * d) + e * d
    BY <1>1, <1>2
  <1>5. a = h * (2 * d) + (e * d + r) /\ 2 * d \in Nat \ {0}
    <2>1. h * (2 * d) \in Nat /\ e * d \in Nat /\ q * d \in Nat
      BY <1>1, <1>2
    <2>2. QED
      BY <1>1, <1>4, <2>1
  <1>6. a \div (2 * d) = h
    <2> DEFINE t == 2 * d
               s == e * d + r
    <2>1. t \in Nat \ {0} /\ s \in Nat /\ s < t /\ a = h * t + s
      BY <1>3, <1>5
    <2> HIDE DEF t, s
    <2>2. a \div t = h
      BY <1>2, <2>1, Quotient
    <2>3. QED
      BY <2>2 DEF t
  <1>7. QED
    BY <1>2, <1>6 DEF q, h, e

\* The bits of a code are those of the code.
LEMMA NumberOfBits ==
  ASSUME NEW code \in Codes
  PROVE  NumberOf([n \in 1..CODE_LENGTH |-> (code \div Pow2[CODE_LENGTH - n]) % 2]) = code
  <1> DEFINE N == CODE_LENGTH
             bits == [n \in 1..N |-> (code \div Pow2[N - n]) % 2]
  <1>1. N \in Nat /\ code \in Nat /\ code < Pow2[N]
    BY WidthAssumption, PowersOfTwo DEF Codes
  <1>2. /\ \A n \in 0..N : Pow2[n] \in Nat \ {0}
        /\ \A n \in 1..N : Pow2[n] = 2 * Pow2[n - 1]
        /\ Pow2[0] = 1
    BY PowersOfTwo
  <1>3. \A n \in 1..N : /\ N - n \in 0..N /\ N - n + 1 \in 1..N
                        /\ Pow2[N - n + 1] = 2 * Pow2[N - n]
    <2> TAKE n \in 1..N
    <2>1. N - n \in 0..N /\ N - n + 1 \in 1..N /\ (N - n + 1) - 1 = N - n
      BY <1>1
    <2>2. QED
      BY <1>2, <2>1
  <1>4. ASSUME NEW n \in 1..N
        PROVE  /\ bits[n] \in {0, 1}
               /\ code \div Pow2[N - n] = 2 * (code \div Pow2[N - n + 1]) + bits[n]
    <2>1. Pow2[N - n] \in Nat \ {0}
      BY <1>2, <1>3
    <2>2. QED
      BY <1>1, <1>3, <2>1, Halving
  <1>5. bits \in [1..N -> {0, 1}]
    BY <1>4
  <1>6. \A n \in 1..N : code \div Pow2[N - n] = 2 * (code \div Pow2[N - n + 1]) + bits[n]
    BY <1>4
  <1> HIDE DEF bits
  <1>7. PICK c \in [0..N -> Nat] :
          /\ c[0] = 0
          /\ \A n \in 1..N : c[n] = 2 * c[n - 1] + bits[n]
          /\ NumberOf(bits) = c[N]
    BY <1>5, NumberTable
  <1> DEFINE d == [n \in 0..N |-> code \div Pow2[N - n]]
  <1>8. d[0] = 0
    <2>1. Pow2[N] \in Nat \ {0} /\ N - 0 = N
      BY <1>1, <1>2
    <2>2. code \div Pow2[N] = 0
      <3>1. code = 0 * Pow2[N] + code
        BY <1>1, <2>1
      <3>2. QED
        BY <1>1, <2>1, <3>1, Quotient
    <2>3. QED
      BY <1>1, <2>1, <2>2
  <1>9. \A n \in 1..N : d[n] = 2 * d[n - 1] + bits[n]
    <2> TAKE n \in 1..N
    <2>1. n \in 0..N /\ n - 1 \in 0..N /\ N - (n - 1) = N - n + 1
      BY <1>1
    <2>2. QED
      BY <1>6, <2>1
  <1>10. d[N] = code
    <2>1. N \in 0..N /\ N - N = 0 /\ code \div 1 = code
      BY <1>1
    <2>2. QED
      BY <1>2, <2>1
  <1> HIDE DEF d
  <1>11. c[0] = d[0]
    BY <1>7, <1>8
  <1>12. ASSUME NEW n \in 1..N, c[n - 1] = d[n - 1] PROVE c[n] = d[n]
    BY <1>7, <1>9, <1>12
  <1>13. \A n \in 0..N : c[n] = d[n]
    <2> DEFINE T == {n \in 0..N : c[n] = d[n]}
    <2>1. 0 \in T /\ \A n \in 1..N : n - 1 \in T => n \in T
      BY <1>1, <1>11, <1>12
    <2> HIDE DEF T
    <2>2. \A n \in 0..N : n \in T
      BY <1>1, <2>1, UpTo
    <2>3. QED
      BY <2>2 DEF T
  <1>14. QED
    BY <1>1, <1>7, <1>10, <1>13 DEF bits

-----------------------------------------------------------------------------
(* The file. *)

LEMMA JoinedTable ==
  ASSUME NEW S, NEW parts \in Seq(Seq(S))
  PROVE  /\ Joined(parts) \in [0..Len(parts) -> Seq(S)]
         /\ Joined(parts)[0] = <<>>
         /\ \A n \in 1..Len(parts) : Joined(parts)[n] = Joined(parts)[n - 1] \o parts[n]
  <1> DEFINE N == Len(parts)
             step == [n \in 1..N |-> [x \in Seq(S) |-> x \o parts[n]]]
  <1>1. N \in Nat /\ \A n \in 1..N : parts[n] \in Seq(S)
    OBVIOUS
  <1>2. step \in [1..N -> [Seq(S) -> Seq(S)]] /\ <<>> \in Seq(S)
    BY <1>1
  <1>3. \A n \in 1..N, x \in Seq(S) : step[n][x] = x \o parts[n]
    OBVIOUS
  <1> HIDE DEF step
  <1>4. PICK f \in [0..N -> Seq(S)] : Runs(f, <<>>, step, N)
    BY <1>1, <1>2, Iterate
  <1> HIDE DEF N
  <1>5. \A n \in 1..N : f[n] = f[n - 1] \o parts[n]
    <2> TAKE n \in 1..N
    <2>1. f[n - 1] \in Seq(S)
      BY <1>1
    <2>2. QED
      BY <1>3, <1>4, <2>1 DEF Runs
  <1> DEFINE Table(h) == h = [n \in 0..N |-> IF n = 0 THEN <<>> ELSE h[n - 1] \o parts[n]]
             C == CHOOSE h : Table(h)
  <1>6. Table(f)
    <2>1. f[0] = <<>> /\ \A n \in 0..N : n = 0 \/ n \in 1..N
      BY <1>1, <1>4 DEF Runs
    <2>2. f = [n \in 0..N |-> f[n]]
      BY Zenon
    <2>3. QED
      BY Zenon, <1>5, <2>1, <2>2
  <1>7. Table(C) /\ Joined(parts) = C
    BY Zenon, <1>6 DEF Joined, N
  <1> HIDE DEF C
  <1>8. /\ C[0] = <<>> /\ \A n \in 1..N : C[n] = C[n - 1] \o parts[n]
        /\ C = [n \in 0..N |-> C[n]]
    <2>1. C[0] = <<>> /\ \A n \in 1..N : C[n] = C[n - 1] \o parts[n]
      <3>1. 0 \in 0..N /\ \A n \in 1..N : n \in 0..N /\ n # 0
        BY <1>1
      <3>2. QED
        BY Zenon, <1>7, <3>1
    <2>2. C = [n \in 0..N |-> C[n]]
      BY Zenon, <1>7
    <2>3. QED
      BY <2>1, <2>2
  <1> HIDE DEF Table
  <1>9. f[0] = C[0]
    BY <1>4, <1>8 DEF Runs
  <1>10. ASSUME NEW n \in 1..N, f[n - 1] = C[n - 1] PROVE f[n] = C[n]
    BY <1>5, <1>8, <1>10
  <1>11. \A n \in 0..N : f[n] = C[n]
    <2> DEFINE T == {n \in 0..N : f[n] = C[n]}
    <2>1. 0 \in T /\ \A n \in 1..N : n - 1 \in T => n \in T
      BY <1>1, <1>9, <1>10
    <2> HIDE DEF T
    <2>2. \A n \in 0..N : n \in T
      BY <1>1, <2>1, UpTo
    <2>3. QED
      BY <2>2 DEF T
  <1>12. C \in [0..N -> Seq(S)]
    <2>1. \A n \in 0..N : C[n] \in Seq(S)
      BY <1>11
    <2>2. QED
      BY Zenon, <1>8, <2>1
  <1>13. QED
    BY <1>7, <1>8, <1>12 DEF N

\* u is the beginning of v.
Begins(u, v) == Len(u) <= Len(v) /\ \A x \in 1..Len(u) : u[x] = v[x]

\* What is joined from more parts begins with what is joined from fewer.
LEMMA JoinedBegins ==
  ASSUME NEW S, NEW parts \in Seq(Seq(S)), NEW m \in 0..Len(parts), NEW n \in 0..Len(parts),
         m <= n
  PROVE  Begins(Joined(parts)[m], Joined(parts)[n])
  <1> DEFINE N == Len(parts)
             J == Joined(parts)
             T == {x \in 0..N : m <= x => Begins(J[m], J[x])}
  <1>1. N \in Nat /\ \A x \in 1..N : parts[x] \in Seq(S)
    OBVIOUS
  <1>2. /\ J \in [0..N -> Seq(S)] /\ J[0] = <<>>
        /\ \A x \in 1..N : J[x] = J[x - 1] \o parts[x]
    BY JoinedTable
  <1> HIDE DEF N, J
  <1>3. Begins(J[m], J[m])
    BY <1>2 DEF Begins, N
  <1>4. 0 \in T
    BY <1>1, <1>3 DEF N
  <1>5. ASSUME NEW x \in 1..N, x - 1 \in T PROVE x \in T
    <2>1. SUFFICES ASSUME m <= x, m # x PROVE Begins(J[m], J[x])
      BY <1>3
    <2>2. x - 1 \in 0..N /\ m <= x - 1
      BY <1>1, <2>1 DEF N
    <2> DEFINE u == J[m]
               v == J[x - 1]
               w == parts[x]
    <2>3. u \in Seq(S) /\ v \in Seq(S) /\ w \in Seq(S) /\ J[x] = v \o w
      BY <1>1, <1>2, <2>2 DEF N
    <2>4. Begins(u, v)
      BY <1>5, <2>2
    <2> HIDE DEF u, v, w
    <2>5. Begins(u, v \o w)
      BY <2>3, <2>4 DEF Begins
    <2>6. QED
      BY <2>3, <2>5 DEF u
  <1> HIDE DEF T
  <1>6. \A x \in 0..N : x \in T
    BY <1>1, <1>4, <1>5, UpTo
  <1>7. QED
    BY <1>6 DEF T, N, J

\* The items of a file.
Item == [kind : {"chunk", "ref"}, n : Nat] \cup [1..BYTE_BITS -> {0, 1}]

\* The bytes of the payload of k codes.
Bytes(K) == (CODE_LENGTH * K + BYTE_BITS - 1) \div BYTE_BITS

LEMMA WidthFacts ==
  /\ BYTE_BITS \in Nat \ {0} /\ CODE_LENGTH \in Nat \ {0} /\ BYTE_BITS < CODE_LENGTH
  /\ Pow2[BYTE_BITS] \in Nat \ {0} /\ Pow2[CODE_LENGTH] \in Nat \ {0}
  BY WidthAssumption, PowersOfTwo

LEMMA BytesIs ==
  ASSUME NEW K \in Nat
  PROVE  /\ CODE_LENGTH * K \in Nat
         /\ Bytes(K) \in Nat
         /\ Bytes(K) * BYTE_BITS \in Nat
         /\ Bytes(K) * BYTE_BITS <= CODE_LENGTH * K + BYTE_BITS - 1
         /\ CODE_LENGTH * K <= Bytes(K) * BYTE_BITS
  <1> DEFINE t == CODE_LENGTH * K + BYTE_BITS - 1
             q == t \div BYTE_BITS
             r == t % BYTE_BITS
  <1>1. CODE_LENGTH * K \in Nat /\ t \in Nat /\ BYTE_BITS \in Nat \ {0}
    BY WidthFacts
  <1> HIDE DEF t
  <1>2. t = q * BYTE_BITS + r /\ q \in Nat /\ r \in Nat /\ r < BYTE_BITS
    BY <1>1, Division
  <1> HIDE DEF q, r
  <1>3. q * BYTE_BITS \in Nat
    BY <1>1, <1>2
  <1>4. Bytes(K) = q
    BY DEF Bytes, q, t
  <1>5. t = CODE_LENGTH * K + BYTE_BITS - 1
    BY DEF t
  <1>6. QED
    BY <1>1, <1>2, <1>3, <1>4, <1>5

LEMMA PayloadIs ==
  ASSUME NEW codes \in Seq(Codes)
  PROVE  /\ Payload(codes) \in Seq(Item)
         /\ Len(Payload(codes)) = Bytes(Len(codes))
         /\ \A n \in 1..Bytes(Len(codes)), b \in 1..BYTE_BITS :
              Payload(codes)[n][b] = BitOf(codes, (n - 1) * BYTE_BITS + b - 1)
  <1> DEFINE S == Bytes(Len(codes))
             bit(n, b) == BitOf(codes, (n - 1) * BYTE_BITS + b - 1)
  <1>1. Len(codes) \in Nat /\ S \in Nat
    BY BytesIs
  <1>2. Payload(codes) = [n \in 1..S |-> [b \in 1..BYTE_BITS |-> bit(n, b)]]
    BY DEF Payload, Bytes
  <1> HIDE DEF S
  <1>3. ASSUME NEW n \in 1..S, NEW b \in 1..BYTE_BITS PROVE bit(n, b) \in {0, 1}
    <2> DEFINE x == (n - 1) * BYTE_BITS + b - 1
               q == x \div CODE_LENGTH
               r == x % CODE_LENGTH
    <2>1. x \in Nat
      <3>1. n - 1 \in Nat /\ b - 1 \in Nat /\ BYTE_BITS \in Nat
        BY <1>1, WidthFacts
      <3>2. (n - 1) * BYTE_BITS \in Nat
        BY <3>1
      <3>3. QED
        BY <3>1, <3>2
    <2> HIDE DEF x
    <2>2. q \in Nat /\ r \in Nat /\ r < CODE_LENGTH
      BY <2>1, WidthFacts, Division
    <2> HIDE DEF q, r
    <2>3. CASE q < Len(codes)
      <3>1. codes[q + 1] \in Codes
        BY <1>1, <2>2, <2>3
      <3>2. codes[q + 1] \in Nat
        BY <3>1, WidthFacts DEF Codes
      <3>3. CODE_LENGTH - 1 - r \in 0..CODE_LENGTH
        BY <2>2, WidthFacts
      <3>4. Pow2[CODE_LENGTH - 1 - r] \in Nat \ {0}
        BY <3>3, PowersOfTwo
      <3>5. (codes[q + 1] \div Pow2[CODE_LENGTH - 1 - r]) % 2 \in {0, 1}
        BY <3>2, <3>4, Halving
      <3>6. BitOf(codes, x) = (codes[q + 1] \div Pow2[CODE_LENGTH - 1 - r]) % 2
        BY <1>1, <2>2, <2>3 DEF BitOf, q, r
      <3>7. QED
        BY <3>5, <3>6 DEF x
    <2>4. CASE ~ (q < Len(codes))
      <3>1. BitOf(codes, x) = 0
        BY <1>1, <2>2, <2>4 DEF BitOf, q
      <3>2. QED
        BY <3>1 DEF x
    <2>5. QED
      BY <2>3, <2>4
  <1> HIDE DEF bit
  <1>4. \A n \in 1..S : [b \in 1..BYTE_BITS |-> bit(n, b)] \in Item
    BY <1>3 DEF Item
  <1>5. [n \in 1..S |-> [b \in 1..BYTE_BITS |-> bit(n, b)]] \in Seq(Item)
    <2>1. [n \in 1..S |-> [b \in 1..BYTE_BITS |-> bit(n, b)]] \in [1..S -> Item]
      BY <1>4, Zenon
    <2>2. QED
      BY <1>1, <2>1, SeqDef, Zenon
  <1>6. Len(Payload(codes)) = S
    BY <1>1, <1>2
  <1>7. \A n \in 1..S, b \in 1..BYTE_BITS : Payload(codes)[n][b] = bit(n, b)
    BY <1>2
  <1>8. QED
    BY <1>2, <1>5, <1>6, <1>7 DEF S, bit

\* Each bit of the codes is where the reader looks for it.
LEMMA BitIsInPayload ==
  ASSUME NEW codes \in Seq(Codes), NEW x \in Nat, x < CODE_LENGTH * Len(codes)
  PROVE  /\ x \div BYTE_BITS + 1 \in 1..Bytes(Len(codes))
         /\ Payload(codes)[x \div BYTE_BITS + 1][(x % BYTE_BITS) + 1] = BitOf(codes, x)
  <1> DEFINE q == x \div BYTE_BITS
             r == x % BYTE_BITS
             S == Bytes(Len(codes))
             L == CODE_LENGTH * Len(codes)
  <1>1. BYTE_BITS \in Nat \ {0} /\ Len(codes) \in Nat
    BY WidthFacts
  <1>2. x = q * BYTE_BITS + r /\ q \in Nat /\ r \in Nat /\ r < BYTE_BITS
    BY <1>1, Division
  <1>3. S \in Nat /\ L \in Nat /\ L <= S * BYTE_BITS /\ x < L
    BY <1>1, BytesIs
  <1> HIDE DEF q, r, S, L
  <1>4. q + 1 <= S
    <2> SUFFICES ASSUME ~ (q + 1 <= S)
                 PROVE  FALSE
      OBVIOUS
    <2>1. q >= S
      BY <1>2, <1>3
    <2>2. PICK y \in Nat : q = S + y
      <3>1. q - S \in Nat /\ q = S + (q - S)
        BY <1>2, <1>3, <2>1
      <3>2. QED
        BY <3>1
    <2>3. q * BYTE_BITS = S * BYTE_BITS + y * BYTE_BITS
      BY <1>1, <1>3, <2>2
    <2>4. /\ q * BYTE_BITS \in Nat /\ S * BYTE_BITS \in Nat /\ y * BYTE_BITS \in Nat
      BY <1>1, <1>2, <1>3
    <2>5. QED
      BY <1>2, <1>3, <2>3, <2>4
  <1>5. q + 1 \in 1..S /\ r + 1 \in 1..BYTE_BITS /\ (q + 1) - 1 = q /\ r + 1 - 1 = r
    BY <1>1, <1>2, <1>3, <1>4
  <1>6. (q + 1 - 1) * BYTE_BITS + (r + 1) - 1 = x
    <2>1. q * BYTE_BITS \in Nat
      BY <1>1, <1>2
    <2>2. (q + 1 - 1) * BYTE_BITS = q * BYTE_BITS
      BY <1>5
    <2>3. QED
      BY <1>2, <2>1, <2>2
  <1>7. Payload(codes)[q + 1][r + 1] = BitOf(codes, (q + 1 - 1) * BYTE_BITS + (r + 1) - 1)
    BY <1>5, PayloadIs DEF S
  <1>8. QED
    BY <1>5, <1>6, <1>7 DEF q, r, S

\* Code m + 1 has the bits from bit CODE_LENGTH * m on.
LEMMA BitOfCode ==
  ASSUME NEW codes \in Seq(Codes), NEW m \in 0..(Len(codes) - 1), NEW n \in 1..CODE_LENGTH
  PROVE  /\ CODE_LENGTH * m + n - 1 \in Nat
         /\ CODE_LENGTH * m + n - 1 < CODE_LENGTH * Len(codes)
         /\ BitOf(codes, CODE_LENGTH * m + n - 1)
              = (codes[m + 1] \div Pow2[CODE_LENGTH - n]) % 2
  <1> DEFINE N == CODE_LENGTH
             K == Len(codes)
             x == N * m + n - 1
  <1>1. N \in Nat \ {0} /\ K \in Nat /\ m \in Nat /\ m + 1 <= K /\ n - 1 \in Nat /\ n - 1 < N
    BY WidthFacts
  <1> HIDE DEF N, K
  <1>2. N * m \in Nat /\ N * K \in Nat /\ m * N = N * m
    BY <1>1
  <1>3. x \in Nat /\ x = m * N + (n - 1)
    BY <1>1, <1>2
  <1>4. N * m + N <= N * K
    <2>1. PICK y \in Nat : K = m + 1 + y
      <3>1. K - m - 1 \in Nat /\ K = m + 1 + (K - m - 1)
        BY <1>1
      <3>2. QED
        BY <3>1
    <2>2. N * K = N * m + N + N * y /\ N * y \in Nat
      BY <1>1, <2>1
    <2>3. QED
      BY <1>1, <1>2, <2>2
  <1>5. x < N * K
    BY <1>1, <1>2, <1>3, <1>4
  <1>6. x \div N = m /\ x % N = n - 1
    <2> HIDE DEF x
    <2> DEFINE r == n - 1
    <2>1. r \in Nat /\ r < N /\ x = m * N + r
      BY <1>1, <1>3
    <2> HIDE DEF r
    <2>2. x \div N = m /\ x % N = r
      BY <1>1, <1>3, <2>1, Quotient
    <2>3. QED
      BY <2>2 DEF r
  <1>7. N - 1 - (n - 1) = N - n
    BY <1>1
  <1>8. BitOf(codes, x) = (codes[m + 1] \div Pow2[N - n]) % 2
    <2> HIDE DEF x
    <2>1. BitOf(codes, x)
            = IF x \div N >= K THEN 0
              ELSE (codes[x \div N + 1] \div Pow2[N - 1 - (x % N)]) % 2
      BY DEF BitOf, N, K
    <2>2. ~ (m >= K)
      BY <1>1
    <2>3. QED
      BY <1>6, <1>7, <2>1, <2>2
  <1>9. QED
    BY <1>3, <1>5, <1>8 DEF N, K, x

\* Counting whole bytes, the loop takes all codes and not one more.
LEMMA LoopCounts ==
  ASSUME NEW K \in Nat \ {0}, NEW m \in 1..K
  PROVE  /\ Bytes(K) # 0
         /\ (CODE_LENGTH * m) \div BYTE_BITS < Bytes(K) - 1 <=> m < K
  <1> DEFINE B == BYTE_BITS
             a == CODE_LENGTH * m
             L == CODE_LENGTH * K
             S == Bytes(K)
             q == a \div B
             r == a % B
  <1>1. B \in Nat \ {0} /\ CODE_LENGTH \in Nat \ {0} /\ B < CODE_LENGTH
    BY WidthFacts
  <1>2. L \in Nat /\ S \in Nat /\ S * B \in Nat /\ S * B <= L + B - 1 /\ L <= S * B
    BY BytesIs
  <1>3. a \in Nat
    BY <1>1
  <1>4. m < K => a + CODE_LENGTH <= L
    <2> SUFFICES ASSUME m < K
                 PROVE  a + CODE_LENGTH <= L
      OBVIOUS
    <2>1. PICK y \in Nat : K = m + 1 + y
      <3>1. K - m - 1 \in Nat /\ K = m + 1 + (K - m - 1)
        OBVIOUS
      <3>2. QED
        BY <3>1
    <2>2. CODE_LENGTH * K = CODE_LENGTH * m + CODE_LENGTH + CODE_LENGTH * y
      BY <1>1, <2>1
    <2>3. CODE_LENGTH * y \in Nat /\ CODE_LENGTH * m \in Nat
      BY <1>1
    <2>4. QED
      BY <1>1, <2>2, <2>3
  <1>5. L >= CODE_LENGTH
    <2>1. PICK y \in Nat : K = 1 + y
      <3>1. K - 1 \in Nat /\ K = 1 + (K - 1)
        OBVIOUS
      <3>2. QED
        BY <3>1
    <2>2. CODE_LENGTH * K = CODE_LENGTH + CODE_LENGTH * y /\ CODE_LENGTH * y \in Nat
      BY <1>1, <2>1
    <2>3. QED
      BY <1>1, <2>2
  <1>6. m = K => a = L
    OBVIOUS
  <1> HIDE DEF a, L, S, B
  <1>7. a = q * B + r /\ q \in Nat /\ r \in Nat /\ r < B
    BY <1>1, <1>3, Division
  <1> HIDE DEF q, r
  <1>8. S # 0
    BY <1>1, <1>2, <1>5
  <1>9. q * B \in Nat /\ S * B \in Nat
    BY <1>1, <1>2, <1>7
  <1>10. ASSUME m = K PROVE ~ (q < S - 1)
    <2> SUFFICES ASSUME q < S - 1
                 PROVE  FALSE
      OBVIOUS
    <2>1. PICK y \in Nat : S = q + 2 + y
      <3>1. S - q - 2 \in Nat /\ S = q + 2 + (S - q - 2)
        BY <1>2, <1>7
      <3>2. QED
        BY <3>1
    <2>2. S * B = q * B + 2 * B + y * B /\ y * B \in Nat
      BY <1>1, <1>7, <2>1
    <2>3. QED
      BY <1>1, <1>2, <1>3, <1>6, <1>7, <1>9, <1>10, <2>2
  <1>11. ASSUME m < K PROVE q < S - 1
    <2> SUFFICES ASSUME ~ (q < S - 1)
                 PROVE  FALSE
      OBVIOUS
    <2>1. PICK y \in Nat : q + 1 = S + y
      <3>1. q + 1 - S \in Nat /\ q + 1 = S + (q + 1 - S)
        BY <1>2, <1>7
      <3>2. QED
        BY <3>1
    <2>2. q * B + B = S * B + y * B /\ y * B \in Nat
      <3>1. (q + 1) * B = q * B + B /\ (S + y) * B = S * B + y * B /\ y * B \in Nat
        BY <1>1, <1>2, <1>7
      <3>2. QED
        BY <2>1, <3>1
    <2>3. QED
      BY <1>1, <1>2, <1>3, <1>4, <1>7, <1>9, <1>11, <2>2
  <1>12. m < K \/ m = K
    OBVIOUS
  <1>13. q < S - 1 <=> m < K
    BY <1>10, <1>11, <1>12
  <1>14. QED
    BY <1>8, <1>13 DEF S, q, a, B

-----------------------------------------------------------------------------
(* The invariant of the stream decoder. *)

\* What the loop has built from the first m codes c of text t, cut at b.
Unpacked(t, c, b, m) ==
  /\ Len(Code_table) = Pow2[BYTE_BITS] + m - 1
  /\ \A x \in 1..Pow2[BYTE_BITS] : Code_table[x] = <<x - 1>>
  /\ \A j \in 1..(m - 1) :
       Code_table[Pow2[BYTE_BITS] + j] = Slice(t, b[j - 1], b[j] + 1)
  /\ Old = c[m] /\ Old < Len(Code_table)
  /\ Code_table[Old + 1] = Slice(t, b[m - 1], b[m])
  /\ Symbol = t[b[m - 1] + 1]
  /\ Output = Slice(t, 0, b[m])

\* m codes of text t are read; what they gave is known when the file has all of
\* the chunk.
InText(t) ==
  LET c == WriterCodes(t)
  IN  /\ size = Bytes(Len(c))
      /\ \E m \in 0..Len(c), b \in [0..Len(c) -> 0..Len(t)] :
           /\ IsLzwOf(c, t, b)
           /\ Input_position = CODE_LENGTH * m
           /\ m = 0 <=> pc = "first"
           /\ pc = "codes" /\ at + size <= Len(file) => Unpacked(t, c, b, m)

\* n blocks are read, and nothing is left of them to be read.
Behind(n) ==
  /\ written = Meaning(blocks)[n]
  /\ Chunks = TextsOfFirst(blocks)[n]

\* The chunk of block n + 1 is being read.
InChunk(n) ==
  /\ n < Len(blocks)
  /\ at = Len(ItemsOfFirst(blocks)[n]) + 1
  /\ Behind(n)
  /\ \/ blocks[n + 1].kind = "zero" /\ size = 0
     \/ blocks[n + 1].kind = "text" /\ InText(blocks[n + 1].text)

FileOK ==
  /\ blocks \in Files
  /\ file \in Seq(Item)
  /\ Begins(file, ItemsOfFirst(blocks)[Len(blocks)])

\* A chunk that is cut off ends behind the end of the file, whatever it gave.
StreamInv ==
  /\ FileOK
  /\ at \in Nat
  /\ pc \in {"header", "first", "codes", "undefined", "end"}
  /\ pc \in {"header", "end"} =>
       \/ at >= Len(file) /\ ~ Whole
       \/ \E n \in 0..Len(blocks) : at = Len(ItemsOfFirst(blocks)[n]) /\ Behind(n)
  /\ pc = "end" => at >= Len(file)
  /\ pc \in {"first", "codes"} => \E n \in 0..Len(blocks) : InChunk(n)
  /\ pc = "undefined" => ~ (Whole /\ Proper)

-----------------------------------------------------------------------------
(* One code. *)

\* Read_code gives the code the writer packed, when all its bits are in the file.
LEMMA ReadsCode ==
  ASSUME NEW CONSTANT c \in Seq(Codes), NEW CONSTANT m \in 0..(Len(c) - 1),
         Input_position = CODE_LENGTH * m, at \in Nat, Len(file) \in Nat,
         at + Bytes(Len(c)) <= Len(file),
         \A n \in 1..Bytes(Len(c)) : file[at + n] = Payload(c)[n]
  PROVE  Read_code = c[m + 1]
  <1> DEFINE bit(x) == ByteAt(at + x \div BYTE_BITS + 1)[(x % BYTE_BITS) + 1]
             bits == [n \in 1..CODE_LENGTH |-> bit(Input_position + n - 1)]
             code == c[m + 1]
  <1>1. Len(c) \in Nat /\ Bytes(Len(c)) \in Nat /\ code \in Codes /\ BYTE_BITS \in Nat \ {0}
    <2>1. Len(c) \in Nat /\ m + 1 \in 1..Len(c)
      OBVIOUS
    <2>2. code \in Codes
      BY <2>1
    <2>3. QED
      BY <2>1, <2>2, BytesIs, WidthFacts
  <1>2. ASSUME NEW x \in Nat, x < CODE_LENGTH * Len(c) PROVE bit(x) = BitOf(c, x)
    <2> DEFINE q == x \div BYTE_BITS
               r == x % BYTE_BITS
    <2>1. q + 1 \in 1..Bytes(Len(c)) /\ Payload(c)[q + 1][r + 1] = BitOf(c, x)
      BY <1>2, BitIsInPayload
    <2>2. q \in Nat
      BY <1>1, Division
    <2> HIDE DEF q, r
    <2>3. at + q + 1 = at + (q + 1) /\ at + q + 1 <= Len(file)
      BY <1>1, <2>1, <2>2
    <2>4. ByteAt(at + q + 1) = Payload(c)[q + 1]
      BY <2>1, <2>3 DEF ByteAt
    <2>5. QED
      BY <2>1, <2>4 DEF q, r
  <1> HIDE DEF bit
  <1>3. \A n \in 1..CODE_LENGTH :
          bit(Input_position + n - 1) = (code \div Pow2[CODE_LENGTH - n]) % 2
    <2> TAKE n \in 1..CODE_LENGTH
    <2>1. /\ CODE_LENGTH * m + n - 1 \in Nat
          /\ CODE_LENGTH * m + n - 1 < CODE_LENGTH * Len(c)
          /\ BitOf(c, CODE_LENGTH * m + n - 1) = (c[m + 1] \div Pow2[CODE_LENGTH - n]) % 2
      BY BitOfCode
    <2>2. QED
      BY <1>2, <2>1
  <1>4. bits = [n \in 1..CODE_LENGTH |-> (code \div Pow2[CODE_LENGTH - n]) % 2]
    BY <1>3
  <1>5. Read_code = NumberOf(bits)
    BY DEF Read_code, bit
  <1>6. QED
    BY <1>1, <1>4, <1>5, NumberOfBits

LEMMA InNat == \A x, n : x \in 0..n => x \in Nat /\ (n \in Nat => x <= n)
  OBVIOUS

\* What IsLzwOf says of code m.
LEMMA PhraseFacts ==
  ASSUME NEW t \in Seq(Symbols), NEW c \in Seq(Codes), NEW b \in [0..Len(c) -> 0..Len(t)],
         IsLzwOf(c, t, b), NEW m \in 1..Len(c)
  PROVE  /\ b[m - 1] \in Nat /\ b[m] \in Nat /\ b[m - 1] < b[m] /\ b[m] <= Len(t)
         /\ m < Len(c) => b[m] + 1 <= Len(t)
         /\ \/ c[m] \in Symbols /\ Slice(t, b[m - 1], b[m]) = <<c[m]>>
            \/ \E j \in 1..(m - 1) :
                 /\ c[m] = Pow2[BYTE_BITS] + j - 1
                 /\ Slice(t, b[m - 1], b[m]) = Slice(t, b[j - 1], b[j] + 1)
  <1>1. Len(c) \in Nat /\ Len(t) \in Nat /\ m - 1 \in 0..Len(c) /\ m \in 0..Len(c)
    OBVIOUS
  <1>2. b[m - 1] \in 0..Len(t) /\ b[m] \in 0..Len(t)
    BY <1>1
  <1>3. b[m - 1] < b[m]
    BY DEF IsLzwOf
  <1>4. m < Len(c) => b[m] + 1 <= Len(t)
    <2> SUFFICES ASSUME m < Len(c)
                 PROVE  b[m] + 1 <= Len(t)
      OBVIOUS
    <2>1. m + 1 \in 1..Len(c) /\ m + 1 \in 0..Len(c) /\ (m + 1) - 1 = m
      BY <1>1
    <2>2. b[m] < b[m + 1] /\ b[m + 1] \in 0..Len(t)
      BY <2>1 DEF IsLzwOf
    <2>3. QED
      BY <1>1, <1>2, <2>2
  <1>5. \/ c[m] \in Symbols /\ SubSeq(t, b[m - 1] + 1, b[m]) = <<c[m]>>
        \/ \E j \in 1..(m - 1) :
             /\ c[m] = Pow2[BYTE_BITS] + j - 1
             /\ SubSeq(t, b[m - 1] + 1, b[m]) = SubSeq(t, b[j - 1] + 1, b[j] + 1)
    BY Zenon DEF IsLzwOf
  <1>6. QED
    BY Zenon, <1>1, <1>2, <1>3, <1>4, <1>5, InNat DEF Slice

\* The first code is that of a symbol.
LEMMA FirstUnpacks ==
  ASSUME NEW CONSTANT t \in Seq(Symbols), NEW CONSTANT c \in Seq(Codes), c # <<>>,
         NEW CONSTANT b \in [0..Len(c) -> 0..Len(t)],
         IsLzwOf(c, t, b), FirstCode, Read_code = c[1]
  PROVE  Unpacked(t, c, b, 1)'
  <1> DEFINE W == Pow2[BYTE_BITS]
  <1>1. W \in Nat \ {0} /\ Len(c) \in Nat /\ 1 \in 1..Len(c) /\ Len(t) \in Nat
    BY WidthFacts
  <1>2. /\ b[0] \in Nat /\ b[1] \in Nat /\ b[0] < b[1] /\ b[1] <= Len(t)
        /\ c[1] \in Symbols /\ Slice(t, b[0], b[1]) = <<c[1]>>
    <2>1. 1 - 1 = 0 /\ ~ \E j \in 1..(1 - 1) : TRUE
      OBVIOUS
    <2>2. QED
      BY <1>1, <2>1, PhraseFacts
  <1>3. /\ Code_table' = [x \in 1..W |-> <<x - 1>>]
        /\ Old' = c[1] /\ Symbol' = c[1] % W /\ Output' = <<Symbol'>>
    BY DEF FirstCode, SingleSymbols
  <1>4. c[1] \in Nat /\ c[1] < W /\ c[1] % W = c[1] /\ c[1] + 1 \in 1..W
    <2>1. c[1] \in Nat /\ c[1] < W
      BY <1>1, <1>2 DEF Symbols
    <2>2. c[1] = 0 * W + c[1]
      BY <1>1, <2>1
    <2>3. c[1] % W = c[1]
      BY <1>1, <2>1, <2>2, Quotient
    <2>4. c[1] + 1 \in 1..W
      BY <1>1, <2>1
    <2>5. QED
      BY Zenon, <2>1, <2>3, <2>4
  <1> HIDE DEF W
  <1>5. b[0] = 0
    BY DEF IsLzwOf
  <1>6. t[b[0] + 1] = c[1]
    <2>1. Slice(t, b[0], b[1])[1] = t[b[0] + 1]
      BY <1>1, <1>2, SliceFirst
    <2>2. QED
      BY <1>2, <2>1
  <1>7. Len(Code_table') = W /\ \A x \in 1..W : Code_table'[x] = <<x - 1>>
    BY <1>1, <1>3
  <1>8. Code_table'[Old' + 1] = Slice(t, b[0], b[1])
    BY <1>2, <1>3, <1>4, <1>7
  <1>9. Output' = Slice(t, 0, b[1])
    BY <1>2, <1>3, <1>4, <1>5
  <1>10. Len(Code_table') = W + 1 - 1 /\ 1 - 1 = 0
    BY <1>1, <1>7
  <1>11. \A j \in 1..(1 - 1) : FALSE
    OBVIOUS
  <1>12. Old' < Len(Code_table')
    BY <1>1, <1>3, <1>4, <1>7
  <1>13. QED
    BY <1>3, <1>4, <1>6, <1>7, <1>8, <1>9, <1>10, <1>11, <1>12 DEF Unpacked, W

\* The string of the next code is the next phrase, also when the code is the one
\* the table does not have yet.
LEMMA StringIsPhrase ==
  ASSUME NEW CONSTANT t \in Seq(Symbols), NEW CONSTANT c \in Seq(Codes),
         NEW CONSTANT b \in [0..Len(c) -> 0..Len(t)], IsLzwOf(c, t, b),
         NEW CONSTANT m \in 1..(Len(c) - 1), Unpacked(t, c, b, m)
  PROVE  /\ c[m + 1] \in Nat
         /\ c[m + 1] <= Pow2[BYTE_BITS] + m - 1
         /\ StringOf(c[m + 1]) = Slice(t, b[m], b[m + 1])
         /\ c[m + 1] < Len(Code_table) => Code_table[c[m + 1] + 1] = Slice(t, b[m], b[m + 1])
         /\ c[m + 1] >= Len(Code_table) =>
              /\ c[m + 1] = Pow2[BYTE_BITS] + m - 1
              /\ Slice(t, b[m], b[m + 1]) = Slice(t, b[m - 1], b[m] + 1)
  <1> DEFINE W == Pow2[BYTE_BITS]
             new == c[m + 1]
             u == Slice(t, b[m], b[m + 1])
  <1>1. W \in Nat \ {0} /\ Len(c) \in Nat /\ m + 1 \in 1..Len(c) /\ (m + 1) - 1 = m
        /\ m \in 1..Len(c) /\ m \in Nat /\ Len(t) \in Nat
    BY WidthFacts
  <1>2. /\ b[m] \in Nat /\ b[m + 1] \in Nat /\ b[m] < b[m + 1] /\ b[m + 1] <= Len(t)
        /\ \/ new \in Symbols /\ u = <<new>>
           \/ \E j \in 1..m : new = W + j - 1 /\ u = Slice(t, b[j - 1], b[j] + 1)
    <2>1. PICK n \in 1..Len(c) : n = m + 1 /\ n - 1 = m
      BY <1>1
    <2>2. /\ b[n - 1] \in Nat /\ b[n] \in Nat /\ b[n - 1] < b[n] /\ b[n] <= Len(t)
          /\ \/ c[n] \in Symbols /\ Slice(t, b[n - 1], b[n]) = <<c[n]>>
             \/ \E j \in 1..(n - 1) :
                  /\ c[n] = Pow2[BYTE_BITS] + j - 1
                  /\ Slice(t, b[n - 1], b[n]) = Slice(t, b[j - 1], b[j] + 1)
      BY Zenon, PhraseFacts
    <2>3. QED
      BY Zenon, <2>1, <2>2
  <1>3. b[m - 1] \in Nat /\ b[m - 1] < b[m] /\ b[m] < Len(t)
    <2>1. b[m - 1] \in Nat /\ b[m - 1] < b[m]
      BY Zenon, <1>1, PhraseFacts
    <2>2. QED
      BY <1>1, <1>2, <2>1
  <1>4. /\ Len(Code_table) = W + m - 1
        /\ \A x \in 1..W : Code_table[x] = <<x - 1>>
        /\ \A j \in 1..(m - 1) : Code_table[W + j] = Slice(t, b[j - 1], b[j] + 1)
        /\ Code_table[Old + 1] = Slice(t, b[m - 1], b[m])
        /\ Symbol = t[b[m - 1] + 1]
    BY DEF Unpacked
  <1>5. u[1] = t[b[m] + 1]
    BY <1>1, <1>2, SliceFirst
  <1> HIDE DEF W, new, u
  <1>6. CASE new \in Symbols /\ u = <<new>>
    <2>1. new \in Nat /\ new < W
      BY <1>1, <1>6 DEF Symbols, W
    <2>2. new + 1 \in 1..W /\ (new + 1) - 1 = new /\ new < Len(Code_table)
          /\ ~ (new >= Len(Code_table)) /\ new <= W + m - 1
      BY <1>1, <1>4, <2>1
    <2>3. Code_table[new + 1] = u
      BY <1>4, <1>6, <2>2
    <2>4. QED
      BY <2>1, <2>2, <2>3 DEF StringOf, new, u, W
  <1>7. ASSUME NEW j \in 1..m, new = W + j - 1, u = Slice(t, b[j - 1], b[j] + 1), j < m
        PROVE  /\ new \in Nat /\ new <= W + m - 1 /\ new < Len(Code_table)
               /\ ~ (new >= Len(Code_table)) /\ Code_table[new + 1] = u
    <2>1. new \in Nat /\ new < Len(Code_table) /\ new <= W + m - 1 /\ new + 1 = W + j
          /\ ~ (new >= Len(Code_table)) /\ j \in 1..(m - 1)
      BY <1>1, <1>4, <1>7
    <2>2. QED
      BY <1>4, <1>7, <2>1
  <1>8. ASSUME new = W + m - 1, u = Slice(t, b[m - 1], b[m] + 1)
        PROVE  /\ new \in Nat /\ new >= Len(Code_table) /\ ~ (new < Len(Code_table))
               /\ Append(Code_table[Old + 1], Symbol) = u
    <2>1. new \in Nat /\ new >= Len(Code_table) /\ ~ (new < Len(Code_table))
      BY <1>1, <1>4, <1>8
    <2> DEFINE s == Slice(t, b[m - 1], b[m])
    <2>2. s \o <<t[b[m] + 1]>> = u /\ s \in Seq(Symbols)
      <3>1. b[m - 1] <= b[m] /\ b[m] <= Len(t)
        BY <1>1, <1>2, <1>3
      <3>2. QED
        BY Zenon, <1>2, <1>3, <1>8, <3>1, SliceGrows, SliceIs
    <2>3. t[b[m] + 1] = Symbol
      <3>1. PICK e \in Nat : e = b[m] + 1
        BY <1>2
      <3>2. b[m - 1] < e /\ e <= Len(t)
        BY <1>1, <1>2, <1>3, <3>1
      <3>3. Slice(t, b[m - 1], e)[1] = t[b[m - 1] + 1]
        BY <1>3, <3>2, SliceFirst
      <3>4. QED
        BY <1>4, <1>5, <1>8, <3>1, <3>3
    <2> HIDE DEF s
    <2>4. Append(s, Symbol) = s \o <<Symbol>>
      BY <2>2
    <2>5. QED
      BY <1>4, <2>1, <2>2, <2>3, <2>4 DEF s
  <1>9. CASE \E j \in 1..m : new = W + j - 1 /\ u = Slice(t, b[j - 1], b[j] + 1)
    <2>1. PICK j \in 1..m : new = W + j - 1 /\ u = Slice(t, b[j - 1], b[j] + 1)
      BY <1>9
    <2>2. CASE j < m
      BY <1>7, <2>1, <2>2 DEF StringOf, new, u, W
    <2>3. CASE j = m
      <3>1. new <= W + m - 1
        BY <1>1, <2>1, <2>3
      <3>2. new = W + m - 1 /\ u = Slice(t, b[m - 1], b[m] + 1)
        BY <2>1, <2>3
      <3>3. QED
        BY <1>8, <3>1, <3>2 DEF StringOf, new, u, W
    <2>4. QED
      BY <1>1, <2>2, <2>3
  <1>10. QED
    BY <1>2, <1>6, <1>9 DEF W, new, u

\* A code more keeps what is unpacked in step.
LEMMA NextUnpacks ==
  ASSUME NEW CONSTANT t \in Seq(Symbols), NEW CONSTANT c \in Seq(Codes),
         NEW CONSTANT b \in [0..Len(c) -> 0..Len(t)], IsLzwOf(c, t, b),
         NEW CONSTANT m \in 1..(Len(c) - 1), Unpacked(t, c, b, m),
         NextCode, Read_code = c[m + 1]
  PROVE  Unpacked(t, c, b, m + 1)'
  <1> DEFINE W == Pow2[BYTE_BITS]
             new == c[m + 1]
             u == Slice(t, b[m], b[m + 1])
             s == Slice(t, b[m - 1], b[m])
             e == Slice(t, b[m - 1], b[m] + 1)
  <1>1. W \in Nat \ {0} /\ Len(c) \in Nat /\ m + 1 \in 1..Len(c) /\ (m + 1) - 1 = m
        /\ m \in 1..Len(c) /\ m \in Nat /\ Len(t) \in Nat
    BY WidthFacts
  <1>2. b[m] \in Nat /\ b[m + 1] \in Nat /\ b[m] < b[m + 1] /\ b[m + 1] <= Len(t)
    BY <1>1, PhraseFacts
  <1>3. b[m - 1] \in Nat /\ b[m - 1] < b[m] /\ b[m] < Len(t)
    <2>1. b[m - 1] \in Nat /\ b[m - 1] < b[m]
      BY Zenon, <1>1, PhraseFacts
    <2>2. QED
      BY <1>1, <1>2, <2>1
  <1>4. /\ Len(Code_table) = W + m - 1
        /\ \A x \in 1..W : Code_table[x] = <<x - 1>>
        /\ \A j \in 1..(m - 1) : Code_table[W + j] = Slice(t, b[j - 1], b[j] + 1)
        /\ Code_table[Old + 1] = s
        /\ Output = Slice(t, 0, b[m])
    BY DEF Unpacked
  <1>5. /\ new \in Nat /\ new <= W + m - 1
        /\ StringOf(new) = u
        /\ new < Len(Code_table) => Code_table[new + 1] = u
        /\ new >= Len(Code_table) => new = W + m - 1 /\ u = e
    BY StringIsPhrase
  <1>6. u[1] = t[b[m] + 1] /\ u \in Seq(Symbols) /\ u # <<>>
    <2>1. b[m] <= b[m + 1]
      BY <1>2
    <2>2. QED
      BY Zenon, <1>2, <2>1, SliceFirst, SliceIs
  <1>7. s \o <<t[b[m] + 1]>> = e /\ s \in Seq(Symbols)
    <2>1. b[m - 1] <= b[m] /\ b[m] <= Len(t)
      BY <1>1, <1>2, <1>3
    <2>2. QED
      BY Zenon, <1>2, <1>3, <2>1, SliceGrows, SliceIs
  <1>8. Slice(t, 0, b[m]) \o u = Slice(t, 0, b[m + 1])
    <2>1. 0 \in Nat /\ 0 <= b[m] /\ b[m] <= b[m + 1]
      BY <1>2
    <2>2. QED
      BY <1>1, <1>2, <2>1, SlicesJoin
  <1> HIDE DEF W, new, u, s, e
  <1>9. /\ Output' = Output \o u
        /\ Symbol' = t[b[m] + 1]
        /\ Code_table' = Append(Code_table, Append(s, Symbol'))
        /\ Old' = new
    <2>1. /\ Output' = Output \o StringOf(new)
          /\ Symbol' = Head(StringOf(new))
          /\ Code_table' = Append(Code_table, Append(Code_table[Old + 1], Symbol'))
          /\ Old' = new
      BY DEF NextCode, new
    <2>2. Head(u) = u[1]
      BY <1>6
    <2>3. QED
      BY <1>4, <1>5, <1>6, <2>1, <2>2
  <1>10. Append(s, Symbol') = e
    <2>1. Append(s, t[b[m] + 1]) = s \o <<t[b[m] + 1]>>
      BY <1>7
    <2>2. QED
      BY <1>7, <1>9, <2>1
  <1>11. /\ Len(Code_table') = W + m
         /\ \A x \in 1..(W + m - 1) : Code_table'[x] = Code_table[x]
         /\ Code_table'[W + m] = e
    <2>1. Len(Code_table) + 1 = W + m /\ Len(Code_table) \in Nat
      BY <1>1, <1>4
    <2>2. QED
      BY <1>4, <1>9, <1>10, <2>1
  <1>12. \A x \in 1..W : Code_table'[x] = <<x - 1>>
    <2>1. \A x \in 1..W : x \in 1..(W + m - 1)
      BY <1>1
    <2>2. QED
      BY Zenon, <1>4, <1>11, <2>1
  <1>13. \A j \in 1..m : Code_table'[W + j] = Slice(t, b[j - 1], b[j] + 1)
    <2> TAKE j \in 1..m
    <2>1. CASE j = m
      BY <1>11, <2>1 DEF e
    <2>2. CASE j # m
      <3>1. j \in 1..(m - 1) /\ W + j \in 1..(W + m - 1)
        BY <1>1, <2>2
      <3>2. QED
        BY <1>4, <1>11, <3>1
    <2>3. QED
      BY <2>1, <2>2
  <1>14. Old' < Len(Code_table') /\ Code_table'[Old' + 1] = u
    <2>1. new < W + m
      BY <1>1, <1>5
    <2>2. CASE new < Len(Code_table)
      <3>1. Len(Code_table) = W + m - 1 /\ new \in Nat
        BY <1>4, <1>5
      <3>2. new + 1 \in 1..(W + m - 1)
        BY <1>1, <2>2, <3>1
      <3>3. QED
        BY <1>5, <1>9, <1>11, <2>1, <2>2, <3>2
    <2>3. CASE new >= Len(Code_table)
      <3>1. new + 1 = W + m
        BY <1>1, <1>5, <2>3
      <3>2. QED
        BY <1>5, <1>9, <1>11, <2>1, <2>3, <3>1
    <2>4. QED
      BY <1>1, <1>4, <1>5, <2>2, <2>3
  <1>15. Output' = Slice(t, 0, b[m + 1])
    BY <1>4, <1>8, <1>9
  <1>16. Len(Code_table') = W + (m + 1) - 1
    BY <1>1, <1>11
  <1>17. QED
    BY Zenon, <1>1, <1>9, <1>12, <1>13, <1>14, <1>15, <1>16 DEF Unpacked, W, new, u

-----------------------------------------------------------------------------
(* The blocks. *)

LEMMA BlockFacts ==
  ASSUME NEW bs \in Files, NEW n \in 1..Len(bs)
  PROVE  /\ Len(bs) \in Nat
         /\ bs[n].kind \in {"text", "ref", "zero"}
         /\ bs[n].kind = "ref" => bs[n].ref \in Nat
         /\ bs[n].kind = "text" =>
              /\ bs[n].text \in Seq(Symbols)
              /\ WriterCodes(bs[n].text) \in Seq(Codes)
              /\ WriterCodes(bs[n].text) # <<>>
              /\ \E b \in [0..Len(WriterCodes(bs[n].text)) -> 0..Len(bs[n].text)] :
                   IsLzwOf(WriterCodes(bs[n].text), bs[n].text, b)
  <1>1. /\ bs \in Seq(Block)
        /\ bs[n].kind = "text" =>
             /\ WriterCodes(bs[n].text) \in Seq(Codes)
             /\ WriterCodes(bs[n].text) # <<>>
             /\ \E b \in [0..Len(WriterCodes(bs[n].text)) -> 0..Len(bs[n].text)] :
                  IsLzwOf(WriterCodes(bs[n].text), bs[n].text, b)
    BY Zenon, WriterAssumption
  <1>2. bs[n] \in Block /\ Len(bs) \in Nat
    BY <1>1
  <1>3. /\ bs[n].kind \in {"text", "ref", "zero"}
        /\ bs[n].kind = "ref" => bs[n].ref \in Nat
        /\ bs[n].kind = "text" => bs[n].text \in Seq(Symbols)
    BY <1>2 DEF Block
  <1>4. QED
    BY Zenon, <1>1, <1>2, <1>3

LEMMA ItemsOfBlock ==
  ASSUME NEW bs \in Files, NEW n \in 1..Len(bs)
  PROVE  /\ ItemsOf(bs[n]) \in Seq(Item)
         /\ Len(ItemsOf(bs[n])) >= 1
         /\ bs[n].kind = "zero" => ItemsOf(bs[n])[1] = [kind |-> "chunk", n |-> 0]
         /\ bs[n].kind = "ref" =>
              /\ Len(ItemsOf(bs[n])) = 1
              /\ ItemsOf(bs[n])[1] = [kind |-> "ref", n |-> bs[n].ref]
         /\ bs[n].kind = "text" =>
              LET c == WriterCodes(bs[n].text)
              IN  /\ Len(ItemsOf(bs[n])) = 1 + Bytes(Len(c))
                  /\ ItemsOf(bs[n])[1] = [kind |-> "chunk", n |-> Bytes(Len(c))]
                  /\ \A x \in 1..Bytes(Len(c)) : ItemsOf(bs[n])[1 + x] = Payload(c)[x]
  <1> DEFINE items == ItemsOf(bs[n])
  <1>1. CASE bs[n].kind = "zero"
    <2>1. items = <<[kind |-> "chunk", n |-> 0]>>
      BY <1>1 DEF ItemsOf, Header
    <2>2. [kind |-> "chunk", n |-> 0] \in Item
      BY DEF Item
    <2>3. QED
      BY <1>1, <2>1, <2>2
  <1>2. CASE bs[n].kind = "ref"
    <2>1. items = <<[kind |-> "ref", n |-> bs[n].ref]>>
      BY <1>2 DEF ItemsOf, Header
    <2>2. [kind |-> "ref", n |-> bs[n].ref] \in Item
      BY <1>2, BlockFacts DEF Item
    <2>3. QED
      BY <1>2, <2>1, <2>2
  <1>3. CASE bs[n].kind = "text"
    <2> DEFINE c == WriterCodes(bs[n].text)
               S == Bytes(Len(c))
               h == [kind |-> "chunk", n |-> S]
    <2>1. c \in Seq(Codes) /\ Len(c) \in Nat
      BY <1>3, BlockFacts
    <2>2. S \in Nat /\ Payload(c) \in Seq(Item) /\ Len(Payload(c)) = S
      BY <2>1, BytesIs, PayloadIs
    <2>3. items = <<h>> \o Payload(c)
      BY <1>3, <2>2 DEF ItemsOf, Header
    <2> HIDE DEF c, S
    <2>4. h \in Item
      BY <2>2 DEF Item
    <2> HIDE DEF h
    <2>5. /\ items \in Seq(Item) /\ Len(items) = 1 + S /\ items[1] = h
          /\ \A x \in 1..S : items[1 + x] = Payload(c)[x]
      <3> DEFINE pay == Payload(c)
      <3>1. pay \in Seq(Item) /\ Len(pay) = S /\ items = <<h>> \o pay
        BY <2>2, <2>3
      <3> HIDE DEF pay, items
      <3>2. QED
        BY <2>2, <2>4, <3>1 DEF pay
    <2>6. QED
      BY <1>3, <2>2, <2>5 DEF c, S, h
  <1>4. QED
    BY <1>1, <1>2, <1>3, BlockFacts

LEMMA TableIsSeq ==
  ASSUME NEW S, NEW N \in Nat, NEW f \in [1..N -> S]
  PROVE  f \in Seq(S) /\ Len(f) = N
  <1>1. f \in Seq(S)
    BY Zenon, SeqDef
  <1>2. DOMAIN f = 1..N
    OBVIOUS
  <1>3. QED
    BY <1>1, <1>2

LEMMA ItemsTable ==
  ASSUME NEW bs \in Files
  PROVE  /\ Len(bs) \in Nat
         /\ ItemsOfFirst(bs) \in [0..Len(bs) -> Seq(Item)]
         /\ ItemsOfFirst(bs)[0] = <<>>
         /\ \A n \in 1..Len(bs) :
              ItemsOfFirst(bs)[n] = ItemsOfFirst(bs)[n - 1] \o ItemsOf(bs[n])
         /\ \A m, n \in 0..Len(bs) :
              m <= n => Begins(ItemsOfFirst(bs)[m], ItemsOfFirst(bs)[n])
  <1> DEFINE N == Len(bs)
             parts == [n \in 1..N |-> ItemsOf(bs[n])]
  <1>1. N \in Nat
    BY WriterAssumption
  <1>2. \A n \in 1..N : ItemsOf(bs[n]) \in Seq(Item)
    BY ItemsOfBlock
  <1>3. ItemsOfFirst(bs) = Joined(parts)
    BY DEF ItemsOfFirst
  <1> HIDE DEF N
  <1>4. parts \in Seq(Seq(Item)) /\ Len(parts) = N /\ \A n \in 1..N : parts[n] = ItemsOf(bs[n])
    <2>1. parts \in [1..N -> Seq(Item)]
      BY Zenon, <1>2
    <2>2. parts \in Seq(Seq(Item)) /\ Len(parts) = N
      BY Zenon, <1>1, <2>1, TableIsSeq
    <2>3. QED
      BY <2>1, <2>2
  <1> HIDE DEF parts
  <1>5. /\ Joined(parts) \in [0..N -> Seq(Item)] /\ Joined(parts)[0] = <<>>
        /\ \A n \in 1..N : Joined(parts)[n] = Joined(parts)[n - 1] \o parts[n]
    BY <1>4, JoinedTable
  <1>6. \A m, n \in 0..N : m <= n => Begins(Joined(parts)[m], Joined(parts)[n])
    BY <1>4, JoinedBegins
  <1>7. QED
    BY Zenon, <1>1, <1>3, <1>4, <1>5, <1>6 DEF N

LEMMA BlockInFile ==
  ASSUME NEW bs \in Files, NEW n \in 0..(Len(bs) - 1), NEW I, I = ItemsOfFirst(bs)
  PROVE  /\ n + 1 \in 1..Len(bs)
         /\ Len(I[n]) \in Nat /\ Len(I[n + 1]) \in Nat /\ Len(I[Len(bs)]) \in Nat
         /\ Len(I[n + 1]) = Len(I[n]) + Len(ItemsOf(bs[n + 1]))
         /\ Len(I[n + 1]) <= Len(I[Len(bs)])
         /\ \A x \in 1..Len(ItemsOf(bs[n + 1])) :
              I[Len(bs)][Len(I[n]) + x] = ItemsOf(bs[n + 1])[x]
  <1> DEFINE N == Len(bs)
             u == I[n]
             v == ItemsOf(bs[n + 1])
             w == I[N]
  <1>1. /\ N \in Nat /\ I \in [0..N -> Seq(Item)]
        /\ \A x \in 1..N : I[x] = I[x - 1] \o ItemsOf(bs[x])
        /\ \A m, x \in 0..N : m <= x => Begins(I[m], I[x])
    BY ItemsTable
  <1>2. n + 1 \in 1..N /\ n \in 0..N /\ N \in 0..N /\ n + 1 \in 0..N /\ n + 1 <= N
        /\ (n + 1) - 1 = n
    BY <1>1
  <1>3. I[n + 1] = u \o v /\ u \in Seq(Item) /\ w \in Seq(Item) /\ Begins(I[n + 1], w)
    BY <1>1, <1>2
  <1>4. v \in Seq(Item)
    BY <1>2, ItemsOfBlock
  <1> HIDE DEF u, v, w, N
  <1>5. /\ Len(u) \in Nat /\ Len(v) \in Nat /\ Len(w) \in Nat /\ Len(u \o v) = Len(u) + Len(v)
        /\ \A x \in 1..Len(v) : Len(u) + x \in 1..Len(u \o v) /\ (u \o v)[Len(u) + x] = v[x]
    BY <1>3, <1>4
  <1>6. Begins(u \o v, w)
    BY <1>3
  <1>7. Len(u \o v) <= Len(w) /\ \A x \in 1..Len(v) : w[Len(u) + x] = v[x]
    BY <1>5, <1>6 DEF Begins
  <1>8. Len(I[n + 1]) = Len(u) + Len(v) /\ Len(I[n + 1]) \in Nat /\ Len(I[n + 1]) <= Len(w)
    BY <1>3, <1>5, <1>7
  <1>9. QED
    BY Zenon, <1>2, <1>5, <1>7, <1>8 DEF u, v, w, N

\* The texts so far and what was meant so far.
LEMMA TextsTable ==
  ASSUME NEW bs \in Files
  PROVE  /\ TextsOfFirst(bs) \in [0..Len(bs) -> Seq(Seq(Symbols))]
         /\ TextsOfFirst(bs)[0] = <<>>
         /\ \A n \in 1..Len(bs) :
              TextsOfFirst(bs)[n] = TextsOfFirst(bs)[n - 1]
                \o (IF bs[n].kind = "text" THEN <<bs[n].text>> ELSE <<>>)
  <1> DEFINE N == Len(bs)
             part(n) == IF bs[n].kind = "text" THEN <<bs[n].text>> ELSE <<>>
             parts == [n \in 1..N |-> part(n)]
  <1>1. N \in Nat
    BY WriterAssumption
  <1>2. \A n \in 1..N : part(n) \in Seq(Seq(Symbols))
    <2> TAKE n \in 1..N
    <2>1. CASE bs[n].kind = "text"
      <3>1. bs[n].text \in Seq(Symbols)
        BY <2>1, BlockFacts
      <3>2. QED
        BY <2>1, <3>1
    <2>2. CASE bs[n].kind # "text"
      BY <2>2
    <2>3. QED
      BY <2>1, <2>2
  <1>3. TextsOfFirst(bs) = Joined(parts)
    BY DEF TextsOfFirst
  <1> HIDE DEF N, part
  <1>4. parts \in Seq(Seq(Seq(Symbols))) /\ Len(parts) = N /\ \A n \in 1..N : parts[n] = part(n)
    <2>1. parts \in [1..N -> Seq(Seq(Symbols))]
      BY Zenon, <1>2
    <2>2. parts \in Seq(Seq(Seq(Symbols))) /\ Len(parts) = N
      BY Zenon, <1>1, <2>1, TableIsSeq
    <2>3. QED
      BY <2>1, <2>2
  <1> HIDE DEF parts
  <1>5. /\ Joined(parts) \in [0..N -> Seq(Seq(Symbols))] /\ Joined(parts)[0] = <<>>
        /\ \A n \in 1..N : Joined(parts)[n] = Joined(parts)[n - 1] \o parts[n]
    BY <1>4, JoinedTable
  <1>6. QED
    BY Zenon, <1>3, <1>4, <1>5 DEF N, part

LEMMA MeaningTable ==
  ASSUME NEW bs \in Files
  PROVE  /\ Meaning(bs) \in [0..Len(bs) -> Seq(Symbols)]
         /\ Meaning(bs)[0] = <<>>
         /\ \A n \in 1..Len(bs) :
              Meaning(bs)[n] = Meaning(bs)[n - 1] \o MeaningOf(bs[n], TextsOfFirst(bs)[n - 1])
  <1> DEFINE N == Len(bs)
             part(n) == MeaningOf(bs[n], TextsOfFirst(bs)[n - 1])
             parts == [n \in 1..N |-> part(n)]
  <1>1. N \in Nat
    BY WriterAssumption
  <1>2. \A n \in 1..N : part(n) \in Seq(Symbols)
    <2> TAKE n \in 1..N
    <2>1. PICK texts \in Seq(Seq(Symbols)) : texts = TextsOfFirst(bs)[n - 1]
      <3>1. n - 1 \in 0..N
        BY <1>1
      <3>2. QED
        BY <3>1, TextsTable
    <2>2. CASE bs[n].kind = "text"
      BY <2>2, BlockFacts DEF MeaningOf
    <2>3. CASE bs[n].kind = "ref"
      <3>1. bs[n].ref \in Nat
        BY <2>3, BlockFacts
      <3>2. bs[n].ref < Len(texts) => texts[bs[n].ref + 1] \in Seq(Symbols)
        BY <3>1
      <3>3. part(n) = IF bs[n].ref < Len(texts) THEN texts[bs[n].ref + 1] ELSE <<>>
        BY <2>1, <2>3 DEF MeaningOf
      <3>4. QED
        BY <3>2, <3>3
    <2>4. CASE bs[n].kind = "zero"
      BY <2>4 DEF MeaningOf
    <2>5. QED
      BY <2>2, <2>3, <2>4, BlockFacts
  <1>3. Meaning(bs) = Joined(parts)
    BY DEF Meaning
  <1> HIDE DEF N, part
  <1>4. parts \in Seq(Seq(Symbols)) /\ Len(parts) = N /\ \A n \in 1..N : parts[n] = part(n)
    <2>1. parts \in [1..N -> Seq(Symbols)]
      BY Zenon, <1>2
    <2>2. parts \in Seq(Seq(Symbols)) /\ Len(parts) = N
      BY Zenon, <1>1, <2>1, TableIsSeq
    <2>3. QED
      BY <2>1, <2>2
  <1> HIDE DEF parts
  <1>5. /\ Joined(parts) \in [0..N -> Seq(Symbols)] /\ Joined(parts)[0] = <<>>
        /\ \A n \in 1..N : Joined(parts)[n] = Joined(parts)[n - 1] \o parts[n]
    BY <1>4, JoinedTable
  <1>6. QED
    BY Zenon, <1>3, <1>4, <1>5 DEF N, part

-----------------------------------------------------------------------------
(* The steps. *)

LEMMA FileFacts ==
  ASSUME FileOK, NEW I, I = ItemsOfFirst(blocks)
  PROVE  /\ blocks \in Files /\ Len(blocks) \in Nat
         /\ Len(file) \in Nat /\ Len(I[Len(blocks)]) \in Nat
         /\ Len(file) <= Len(I[Len(blocks)])
         /\ Whole => Len(file) = Len(I[Len(blocks)])
         /\ \A x \in 1..Len(file) : file[x] = I[Len(blocks)][x]
  <1>1. blocks \in Files /\ file \in Seq(Item) /\ Begins(file, I[Len(blocks)])
    BY DEF FileOK
  <1>2. Len(blocks) \in Nat /\ I \in [0..Len(blocks) -> Seq(Item)]
    BY <1>1, ItemsTable
  <1>3. I[Len(blocks)] \in Seq(Item)
    BY <1>2
  <1>4. QED
    BY <1>1, <1>2, <1>3 DEF Begins, Whole

\* A header is the next block's.
LEMMA HeaderIsNext ==
  ASSUME StreamInv, pc = "header", at < Len(file)
  PROVE  \E n \in 0..(Len(blocks) - 1) :
           /\ at = Len(ItemsOfFirst(blocks)[n]) /\ at \in Nat
           /\ Behind(n)
           /\ file[at + 1] = ItemsOf(blocks[n + 1])[1]
           /\ Len(ItemsOfFirst(blocks)[n + 1]) = at + Len(ItemsOf(blocks[n + 1]))
           /\ Len(ItemsOfFirst(blocks)[n + 1]) <= Len(ItemsOfFirst(blocks)[Len(blocks)])
  <1> PICK I : I = ItemsOfFirst(blocks)
    OBVIOUS
  <1>1. /\ blocks \in Files /\ Len(blocks) \in Nat
        /\ Len(file) \in Nat /\ Len(I[Len(blocks)]) \in Nat
        /\ Len(file) <= Len(I[Len(blocks)])
        /\ \A x \in 1..Len(file) : file[x] = I[Len(blocks)][x]
    BY FileFacts DEF StreamInv
  <1>2. PICK n \in 0..Len(blocks) : at = Len(I[n]) /\ Behind(n)
    <2>1. \/ at >= Len(file) /\ ~ Whole
          \/ \E n \in 0..Len(blocks) : at = Len(I[n]) /\ Behind(n)
      BY DEF StreamInv
    <2>2. ~ (at >= Len(file))
      BY <1>1 DEF StreamInv
    <2>3. QED
      BY <2>1, <2>2
  <1>3. n # Len(blocks)
    BY <1>1, <1>2
  <1>4. n \in 0..(Len(blocks) - 1)
    BY <1>1, <1>3
  <1>5. /\ n + 1 \in 1..Len(blocks)
        /\ Len(I[n]) \in Nat
        /\ Len(I[n + 1]) = Len(I[n]) + Len(ItemsOf(blocks[n + 1]))
        /\ Len(I[n + 1]) <= Len(I[Len(blocks)])
        /\ \A x \in 1..Len(ItemsOf(blocks[n + 1])) :
             I[Len(blocks)][Len(I[n]) + x] = ItemsOf(blocks[n + 1])[x]
    BY Zenon, <1>1, <1>4, BlockInFile
  <1>6. 1 \in 1..Len(ItemsOf(blocks[n + 1]))
    <2>1. ItemsOf(blocks[n + 1]) \in Seq(Item) /\ Len(ItemsOf(blocks[n + 1])) >= 1
      BY <1>1, <1>5, ItemsOfBlock
    <2>2. QED
      BY <2>1
  <1>7. at + 1 \in 1..Len(file)
    BY <1>1, <1>2, <1>5
  <1>8. file[at + 1] = ItemsOf(blocks[n + 1])[1]
    BY <1>1, <1>2, <1>5, <1>6, <1>7
  <1>9. QED
    BY <1>2, <1>4, <1>5, <1>8

LEMMA StreamStarts ==
  ASSUME StreamInit
  PROVE  StreamInv
  <1> DEFINE w == ItemsOfFirst(blocks)[Len(blocks)]
  <1>1. blocks \in Files /\ at = 0 /\ pc = "header" /\ Chunks = <<>> /\ written = <<>>
    BY DEF StreamInit
  <1>2. Len(blocks) \in Nat /\ w \in Seq(Item) /\ ItemsOfFirst(blocks)[0] = <<>>
    <2>1. /\ Len(blocks) \in Nat
          /\ ItemsOfFirst(blocks) \in [0..Len(blocks) -> Seq(Item)]
          /\ ItemsOfFirst(blocks)[0] = <<>>
      BY Zenon, <1>1, ItemsTable
    <2>2. QED
      BY <2>1
  <1>3. PICK cut \in Nat : cut <= Len(w) /\ file = SubSeq(w, 1, Len(w) - cut)
    BY WriterAssumption DEF StreamInit
  <1> HIDE DEF w
  <1>4. PICK K \in Nat : K = Len(w) - cut /\ K <= Len(w)
    BY <1>2, <1>3
  <1>5. file = Slice(w, 0, K)
    BY <1>3, <1>4 DEF Slice
  <1>6. /\ file \in Seq(Item) /\ Len(file) = K /\ \A x \in 1..K : file[x] = w[x]
    <2>1. 0 \in Nat /\ 0 <= K /\ K - 0 = K /\ K <= Len(w) /\ w \in Seq(Item)
      BY <1>2, <1>4
    <2>2. Slice(w, 0, K) \in Seq(Item) /\ Len(Slice(w, 0, K)) = K - 0
          /\ \A x \in 1..(K - 0) : Slice(w, 0, K)[x] = w[0 + x]
      BY <2>1, SliceIs
    <2>3. QED
      BY <1>5, <2>1, <2>2
  <1>7. FileOK
    BY <1>1, <1>4, <1>6 DEF FileOK, Begins, w
  <1>8. 0 \in 0..Len(blocks) /\ at = Len(ItemsOfFirst(blocks)[0]) /\ Behind(0)
    <2>1. Meaning(blocks)[0] = <<>> /\ TextsOfFirst(blocks)[0] = <<>>
      BY Zenon, <1>1, TextsTable, MeaningTable
    <2>2. Behind(0)
      BY Zenon, <1>1, <2>1 DEF Behind
    <2>3. QED
      BY <1>1, <1>2, <2>2
  <1>9. QED
    BY <1>1, <1>7, <1>8 DEF StreamInv

LEMMA EndOfFileKeeps ==
  ASSUME StreamInv, EndOfFile
  PROVE  StreamInv'
  <1>1. /\ pc = "header" /\ at >= Len(file) /\ pc' = "end"
        /\ blocks' = blocks /\ file' = file /\ at' = at
        /\ Chunks' = Chunks /\ written' = written
    BY DEF EndOfFile
  <1>2. FileOK /\ FileOK' /\ (Whole' <=> Whole)
    BY <1>1 DEF StreamInv, FileOK, Whole
  <1>3. \/ at >= Len(file) /\ ~ Whole
        \/ \E n \in 0..Len(blocks) : at = Len(ItemsOfFirst(blocks)[n]) /\ Behind(n)
    BY <1>1 DEF StreamInv
  <1>4. (\/ at >= Len(file) /\ ~ Whole
         \/ \E n \in 0..Len(blocks) : at = Len(ItemsOfFirst(blocks)[n]) /\ Behind(n))'
    BY <1>1, <1>2, <1>3 DEF Behind
  <1>5. QED
    BY <1>1, <1>2, <1>4 DEF StreamInv

LEMMA ReferenceKeeps ==
  ASSUME StreamInv, Reference
  PROVE  StreamInv'
  <1> PICK I : I = ItemsOfFirst(blocks)
    OBVIOUS
  <1> PICK T : T = TextsOfFirst(blocks)
    OBVIOUS
  <1>1. /\ pc = "header" /\ at < Len(file) /\ file[at + 1].kind = "ref"
        /\ blocks' = blocks /\ file' = file /\ at' = at + 1
        /\ Chunks' = Chunks /\ pc' = pc
        /\ written' = IF Location(file[at + 1].n) \in 1..Len(Chunks)
                        THEN written \o Chunks[Location(file[at + 1].n)]
                        ELSE written
    BY DEF Reference
  <1>2. FileOK' /\ blocks \in Files /\ at \in Nat
    BY <1>1 DEF StreamInv, FileOK
  <1>3. PICK n \in 0..(Len(blocks) - 1) :
           /\ at = Len(I[n])
           /\ Behind(n)
           /\ file[at + 1] = ItemsOf(blocks[n + 1])[1]
           /\ Len(I[n + 1]) = at + Len(ItemsOf(blocks[n + 1]))
    BY <1>1, HeaderIsNext
  <1>4. PICK K \in 1..Len(blocks) : K = n + 1 /\ K - 1 = n /\ K \in 0..Len(blocks) /\ n \in 0..Len(blocks)
    BY <1>2, ItemsTable
  <1>5. PICK block : block = blocks[K]
    OBVIOUS
  <1>6. block.kind = "ref"
    <2>1. block.kind = "zero" => ItemsOf(block)[1] = [kind |-> "chunk", n |-> 0]
      BY <1>2, <1>5, ItemsOfBlock
    <2>2. block.kind = "text" =>
            ItemsOf(block)[1] = [kind |-> "chunk", n |-> Bytes(Len(WriterCodes(block.text)))]
      BY <1>2, <1>5, ItemsOfBlock
    <2>3. block.kind \in {"text", "ref", "zero"}
      BY Zenon, <1>2, <1>5, BlockFacts
    <2>4. ItemsOf(block)[1].kind = "ref"
      BY <1>1, <1>3, <1>4, <1>5
    <2>5. QED
      BY <2>1, <2>2, <2>3, <2>4
  <1>7. /\ block.ref \in Nat /\ Len(ItemsOf(block)) = 1 /\ file[at + 1].n = block.ref
    <2>1. Len(ItemsOf(block)) = 1 /\ ItemsOf(block)[1] = [kind |-> "ref", n |-> block.ref]
      BY Zenon, <1>2, <1>5, <1>6, ItemsOfBlock
    <2>2. block.ref \in Nat
      BY Zenon, <1>2, <1>5, <1>6, BlockFacts
    <2>3. QED
      BY <1>3, <1>4, <1>5, <2>1, <2>2
  <1>8. T[n] \in Seq(Seq(Symbols)) /\ T[K] = T[n]
    <2>1. T[n] \in Seq(Seq(Symbols))
      BY <1>2, <1>4, TextsTable
    <2>2. T[K] = T[n] \o (IF block.kind = "text" THEN <<block.text>> ELSE <<>>)
      BY Zenon, <1>2, <1>4, <1>5, TextsTable
    <2>3. QED
      BY <1>6, <2>1, <2>2
  <1>9. Meaning(blocks)[n] \in Seq(Symbols)
        /\ Meaning(blocks)[K] = Meaning(blocks)[n] \o MeaningOf(block, T[n])
    <2>1. Meaning(blocks)[n] \in Seq(Symbols)
      BY <1>2, <1>4, MeaningTable
    <2>2. Meaning(blocks)[K] = Meaning(blocks)[n] \o MeaningOf(block, T[n])
      BY Zenon, <1>2, <1>4, <1>5, MeaningTable
    <2>3. QED
      BY <2>1, <2>2
  <1>10. written = Meaning(blocks)[n] /\ Chunks = T[n]
    BY <1>3 DEF Behind
  <1>11. MeaningOf(block, T[n]) = IF block.ref < Len(T[n]) THEN T[n][block.ref + 1] ELSE <<>>
    BY <1>6 DEF MeaningOf
  <1>12. written' = Meaning(blocks)[K]
    <2>1. Location(file[at + 1].n) = block.ref + 1
      BY <1>7 DEF Location
    <2>2. block.ref + 1 \in 1..Len(Chunks) <=> block.ref < Len(T[n])
      BY <1>7, <1>8, <1>10
    <2>3. CASE block.ref < Len(T[n])
      BY Zenon, <1>1, <1>9, <1>10, <1>11, <2>1, <2>2, <2>3
    <2>4. CASE ~ (block.ref < Len(T[n]))
      <3>1. written' = written
        BY Zenon, <1>1, <2>1, <2>2, <2>4
      <3>2. Meaning(blocks)[K] = Meaning(blocks)[n] \o <<>>
        BY Zenon, <1>9, <1>11, <2>4
      <3>3. QED
        BY <1>9, <1>10, <3>1, <3>2
    <2>5. QED
      BY <2>3, <2>4
  <1>13. at' = Len(I[K]) /\ at' \in Nat
    BY <1>1, <1>2, <1>3, <1>4, <1>5, <1>7
  <1>14. (\E x \in 0..Len(blocks) : at = Len(ItemsOfFirst(blocks)[x]) /\ Behind(x))'
    <2>1. Behind(K)'
      BY Zenon, <1>1, <1>8, <1>10, <1>12 DEF Behind
    <2>2. QED
      BY Zenon, <1>1, <1>4, <1>13, <2>1
  <1>15. QED
    BY <1>1, <1>2, <1>13, <1>14 DEF StreamInv

LEMMA ChunkHeaderKeeps ==
  ASSUME StreamInv, ChunkHeader
  PROVE  StreamInv'
  <1> PICK I : I = ItemsOfFirst(blocks)
    OBVIOUS
  <1>1. /\ pc = "header" /\ at < Len(file) /\ file[at + 1].kind = "chunk"
        /\ size' = file[at + 1].n
        /\ blocks' = blocks /\ file' = file /\ at' = at + 1
        /\ Chunks' = Chunks /\ written' = written
        /\ Input_position' = 0 /\ pc' = "first"
    BY DEF ChunkHeader
  <1>2. FileOK' /\ blocks \in Files /\ at \in Nat /\ at' \in Nat /\ Len(blocks) \in Nat
    <2>1. FileOK /\ FileOK' /\ at \in Nat
      BY <1>1 DEF StreamInv, FileOK
    <2>2. QED
      BY <1>1, <2>1, WriterAssumption DEF FileOK
  <1>3. PICK n \in 0..(Len(blocks) - 1) :
           /\ at = Len(I[n])
           /\ Behind(n)
           /\ file[at + 1] = ItemsOf(blocks[n + 1])[1]
    BY <1>1, HeaderIsNext
  <1>4. PICK K \in 1..Len(blocks) : K = n + 1 /\ n < Len(blocks) /\ n \in 0..Len(blocks)
    BY <1>2
  <1>5. PICK block : block = blocks[K]
    OBVIOUS
  <1>6. Behind(n)'
    BY <1>1, <1>3 DEF Behind
  <1>7. \/ blocks[n + 1].kind = "zero" /\ size' = 0
        \/ blocks[n + 1].kind = "text" /\ InText(blocks[n + 1].text)'
    <2>1. file[at + 1] = ItemsOf(block)[1]
      BY <1>3, <1>4, <1>5
    <2>2. CASE block.kind = "zero"
      <3>1. ItemsOf(block)[1] = [kind |-> "chunk", n |-> 0]
        BY Zenon, <1>2, <1>5, <2>2, ItemsOfBlock
      <3>2. QED
        BY <1>1, <1>4, <1>5, <2>1, <2>2, <3>1
    <2>3. CASE block.kind = "ref"
      <3>1. ItemsOf(block)[1] = [kind |-> "ref", n |-> block.ref]
        BY Zenon, <1>2, <1>5, <2>3, ItemsOfBlock
      <3>2. QED
        BY <1>1, <2>1, <3>1
    <2>4. CASE block.kind = "text"
      <3>1. PICK t \in Seq(Symbols) : t = block.text
        BY Zenon, <1>2, <1>5, <2>4, BlockFacts
      <3>2. PICK c \in Seq(Codes) : c = WriterCodes(t) /\ c # <<>>
        BY Zenon, <1>2, <1>5, <2>4, <3>1, BlockFacts
      <3>3. PICK b \in [0..Len(c) -> 0..Len(t)] : IsLzwOf(c, t, b)
        BY Zenon, <1>2, <1>5, <2>4, <3>1, <3>2, BlockFacts
      <3>4. ItemsOf(block)[1] = [kind |-> "chunk", n |-> Bytes(Len(c))]
        BY Zenon, <1>2, <1>5, <2>4, <3>1, <3>2, ItemsOfBlock
      <3>5. size' = Bytes(Len(c))
        BY <1>1, <2>1, <3>4
      <3>6. 0 \in 0..Len(c) /\ CODE_LENGTH * 0 = 0
        BY WidthFacts
      <3>7. (0 = 0 <=> pc' = "first") /\ ~ (pc' = "codes")
        BY <1>1
      <3>8. InText(t)'
        BY Zenon, <1>1, <3>2, <3>3, <3>5, <3>6, <3>7 DEF InText
      <3>9. QED
        BY Zenon, <1>1, <1>4, <1>5, <2>4, <3>1, <3>8
    <2>5. QED
      BY Zenon, <1>2, <1>5, <2>2, <2>3, <2>4, BlockFacts
  <1>8. (InChunk(n))'
    <2>1. at' = Len(I[n]) + 1
      BY <1>1, <1>3
    <2>2. QED
      BY Zenon, <1>1, <1>4, <1>6, <1>7, <2>1 DEF InChunk
  <1>9. QED
    BY <1>1, <1>2, <1>4, <1>8 DEF StreamInv

\* The chunk of a text, its place in the file, and how far it is read.
LEMMA TextChunk ==
  ASSUME StreamInv, NEW n \in 0..Len(blocks), InChunk(n), blocks[n + 1].kind # "zero"
  PROVE  \E t \in Seq(Symbols), c \in Seq(Codes) :
           /\ n + 1 \in 1..Len(blocks) /\ n + 1 \in 0..Len(blocks)
           /\ blocks[n + 1].kind = "text" /\ t = blocks[n + 1].text
           /\ c = WriterCodes(t) /\ c # <<>> /\ Len(c) \in Nat \ {0}
           /\ at \in Nat /\ Len(file) \in Nat /\ size = Bytes(Len(c)) /\ size \in Nat
           /\ at + size = Len(ItemsOfFirst(blocks)[n + 1])
           /\ Whole => at + size <= Len(file)
           /\ at + size <= Len(file) => \A x \in 1..size : file[at + x] = Payload(c)[x]
           /\ \E m \in 0..Len(c), b \in [0..Len(c) -> 0..Len(t)] :
                /\ IsLzwOf(c, t, b)
                /\ Input_position = CODE_LENGTH * m
                /\ m = 0 <=> pc = "first"
                /\ pc = "codes" /\ at + size <= Len(file) => Unpacked(t, c, b, m)
  <1> PICK I : I = ItemsOfFirst(blocks)
    OBVIOUS
  <1>1. /\ blocks \in Files /\ Len(blocks) \in Nat
        /\ Len(file) \in Nat /\ Len(I[Len(blocks)]) \in Nat
        /\ Len(file) <= Len(I[Len(blocks)])
        /\ Whole => Len(file) = Len(I[Len(blocks)])
        /\ \A x \in 1..Len(file) : file[x] = I[Len(blocks)][x]
    BY FileFacts DEF StreamInv
  <1>2. /\ n < Len(blocks) /\ at = Len(I[n]) + 1
        /\ blocks[n + 1].kind = "text" /\ InText(blocks[n + 1].text)
    BY DEF InChunk
  <1>3. n \in 0..(Len(blocks) - 1) /\ n + 1 \in 1..Len(blocks) /\ n + 1 \in 0..Len(blocks)
    BY <1>1, <1>2
  <1>4. PICK K \in 1..Len(blocks) : K = n + 1
    BY <1>3
  <1>5. PICK block : block = blocks[K] /\ block.kind = "text"
    BY <1>2, <1>4
  <1>6. PICK t \in Seq(Symbols) : t = block.text /\ InText(t)
    <2>1. block.text \in Seq(Symbols)
      BY Zenon, <1>1, <1>5, BlockFacts
    <2>2. QED
      BY <1>2, <1>4, <1>5, <2>1
  <1>7. PICK c \in Seq(Codes) : c = WriterCodes(t) /\ c # <<>>
    BY Zenon, <1>1, <1>5, <1>6, BlockFacts
  <1>8. Len(c) \in Nat \ {0} /\ Bytes(Len(c)) \in Nat
    <2>1. Len(c) \in Nat /\ Len(c) # 0
      BY <1>7
    <2>2. QED
      BY <2>1, BytesIs
  <1>9. /\ size = Bytes(Len(c))
        /\ \E m \in 0..Len(c), b \in [0..Len(c) -> 0..Len(t)] :
                /\ IsLzwOf(c, t, b)
                /\ Input_position = CODE_LENGTH * m
                /\ m = 0 <=> pc = "first"
                /\ pc = "codes" /\ at + size <= Len(file) => Unpacked(t, c, b, m)
    BY Zenon, <1>6, <1>7 DEF InText
  <1>10. /\ Len(ItemsOf(block)) = 1 + Bytes(Len(c))
         /\ \A x \in 1..Bytes(Len(c)) : ItemsOf(block)[1 + x] = Payload(c)[x]
    BY Zenon, <1>1, <1>5, <1>6, <1>7, ItemsOfBlock
  <1>11. /\ Len(I[n]) \in Nat
         /\ Len(I[K]) = Len(I[n]) + Len(ItemsOf(block))
         /\ Len(I[K]) <= Len(I[Len(blocks)])
         /\ \A x \in 1..Len(ItemsOf(block)) :
              I[Len(blocks)][Len(I[n]) + x] = ItemsOf(block)[x]
    BY ZenonT(60), <1>1, <1>3, <1>4, <1>5, BlockInFile
  <1> DEFINE S == Bytes(Len(c))
             l == Len(I[n])
             items == ItemsOf(block)
             w == I[Len(blocks)]
             pay == Payload(c)
  <1> HIDE DEF S, l, items, w, pay
  <1>12. at \in Nat /\ size \in Nat /\ at + size = Len(I[K]) /\ at = l + 1 /\ size = S
    <2>1. at = l + 1 /\ S \in Nat /\ size = S /\ Len(items) = 1 + S
          /\ l \in Nat /\ Len(I[K]) = l + Len(items)
      BY Zenon, <1>2, <1>8, <1>9, <1>10, <1>11 DEF S, l, items
    <2>2. QED
      BY <2>1
  <1>13. Whole => at + size <= Len(file)
    BY <1>1, <1>11, <1>12
  <1>14. ASSUME at + size <= Len(file), NEW x \in 1..size
         PROVE  file[at + x] = pay[x]
    <2>1. l \in Nat /\ Len(items) = 1 + S /\ items[1 + x] = pay[x]
          /\ \A y \in 1..Len(items) : w[l + y] = items[y]
      BY <1>10, <1>11, <1>12 DEF S, l, items, w, pay
    <2>2. 1 + x \in 1..Len(items) /\ at + x = l + (1 + x) /\ at + x \in 1..Len(file)
      <3>1. /\ Len(file) \in Nat /\ l \in Nat /\ at = l + 1 /\ size = S /\ size \in Nat
            /\ Len(items) = 1 + S /\ x \in 1..size /\ at + size <= Len(file)
        BY Zenon, <1>1, <1>12, <1>14, <2>1
      <3>2. QED
        BY <3>1
    <2>3. file[at + x] = w[at + x]
      BY <1>1, <2>2 DEF w
    <2>4. QED
      BY Zenon, <2>1, <2>2, <2>3
  <1>15. at + size <= Len(file) => \A x \in 1..size : file[at + x] = Payload(c)[x]
    BY Zenon, <1>14 DEF pay
  <1>16. blocks[n + 1].kind = "text" /\ t = blocks[n + 1].text /\ at + size = Len(I[n + 1])
    BY Zenon, <1>4, <1>5, <1>6, <1>12
  <1>17. QED
    BY ZenonT(60), <1>1, <1>3, <1>7, <1>8, <1>9, <1>12, <1>13, <1>15, <1>16

\* What a step inside of a chunk leaves to be shown.
LEMMA ChunkGoesOn ==
  ASSUME StreamInv, NEW CONSTANT n \in 0..Len(blocks), InChunk(n),
         blocks' = blocks, file' = file, at' = at, size' = size,
         Chunks' = Chunks, written' = written, pc' \in {"first", "codes"},
         blocks[n + 1].kind = "zero" \/ InText(blocks[n + 1].text)'
  PROVE  StreamInv'
  <1>1. FileOK' /\ at' \in Nat
    BY DEF StreamInv, FileOK
  <1>2. Behind(n)'
    BY DEF Behind, InChunk
  <1>3. (\/ blocks[n + 1].kind = "zero" /\ size = 0
         \/ blocks[n + 1].kind = "text" /\ InText(blocks[n + 1].text))'
    <2>1. \/ blocks[n + 1].kind = "zero" /\ size = 0
          \/ blocks[n + 1].kind = "text" /\ InText(blocks[n + 1].text)
      BY DEF InChunk
    <2>2. CASE blocks[n + 1].kind = "zero"
      BY Zenon, <2>1, <2>2
    <2>3. CASE blocks[n + 1].kind # "zero"
      <3>1. InText(blocks[n + 1].text)' /\ blocks[n + 1].kind = "text"
        BY Zenon, <2>1, <2>3
      <3>2. QED
        BY Zenon, <3>1
    <2>4. QED
      BY <2>2, <2>3
  <1>4. n < Len(blocks') /\ at' = Len(ItemsOfFirst(blocks')[n]) + 1
    BY DEF InChunk
  <1>5. InChunk(n)'
    BY Zenon, <1>2, <1>3, <1>4 DEF InChunk
  <1>6. n \in 0..Len(blocks') /\ pc' \notin {"header", "end", "undefined"}
    OBVIOUS
  <1>7. QED
    BY <1>1, <1>5, <1>6 DEF StreamInv

LEMMA FirstCodeKeeps ==
  ASSUME StreamInv, FirstCode
  PROVE  StreamInv'
  <1>1. /\ pc = "first" /\ pc' = "codes"
        /\ Input_position' = Input_position + CODE_LENGTH
        /\ blocks' = blocks /\ file' = file /\ at' = at /\ size' = size
        /\ Chunks' = Chunks /\ written' = written
    BY DEF FirstCode
  <1>2. PICK n \in 0..Len(blocks) : InChunk(n)
    BY <1>1 DEF StreamInv
  <1>3. CASE blocks[n + 1].kind = "zero"
    BY <1>1, <1>2, <1>3, ChunkGoesOn
  <1>4. CASE blocks[n + 1].kind # "zero"
    <2>1. PICK t \in Seq(Symbols), c \in Seq(Codes) :
           /\ t = blocks[n + 1].text
           /\ c = WriterCodes(t) /\ c # <<>> /\ Len(c) \in Nat \ {0}
           /\ at \in Nat /\ Len(file) \in Nat /\ size = Bytes(Len(c)) /\ size \in Nat
           /\ at + size <= Len(file) => \A x \in 1..size : file[at + x] = Payload(c)[x]
           /\ \E m \in 0..Len(c), b \in [0..Len(c) -> 0..Len(t)] :
                /\ IsLzwOf(c, t, b)
                /\ Input_position = CODE_LENGTH * m
                /\ m = 0 <=> pc = "first"
      BY Zenon, <1>2, <1>4, TextChunk
    <2>2. PICK b \in [0..Len(c) -> 0..Len(t)] : IsLzwOf(c, t, b) /\ Input_position = CODE_LENGTH * 0
      BY Zenon, <1>1, <2>1
    <2>3. 0 \in 0..(Len(c) - 1) /\ 1 \in 0..Len(c) /\ 0 + 1 = 1
      BY <2>1
    <2>4. Input_position' = CODE_LENGTH * 1
      BY <1>1, <2>2, WidthFacts
    <2>5. at + size <= Len(file) => Unpacked(t, c, b, 1)'
      <3>1. SUFFICES ASSUME at + size <= Len(file)
                     PROVE  Unpacked(t, c, b, 1)'
        OBVIOUS
      <3>2. Read_code = c[0 + 1]
        BY Zenon, <2>1, <2>2, <2>3, <3>1, ReadsCode
      <3>3. QED
        BY <2>1, <2>2, <2>3, <3>2, FirstUnpacks
    <2>6. InText(t)'
      <3>1. (1 = 0 <=> pc' = "first") /\ size' = Bytes(Len(c))
        BY <1>1, <2>1
      <3>2. at' + size' <= Len(file') => Unpacked(t, c, b, 1)'
        BY Zenon, <1>1, <2>5
      <3>3. QED
        BY Zenon, <2>1, <2>2, <2>3, <2>4, <3>1, <3>2 DEF InText
    <2>7. QED
      BY <1>1, <1>2, <2>1, <2>6, ChunkGoesOn
  <1>5. QED
    BY <1>3, <1>4

LEMMA NextCodeKeeps ==
  ASSUME StreamInv, NextCode
  PROVE  StreamInv'
  <1>1. /\ pc = "codes" /\ pc' = "codes" /\ MoreCodes
        /\ Input_position' = Input_position + CODE_LENGTH
        /\ blocks' = blocks /\ file' = file /\ at' = at /\ size' = size
        /\ Chunks' = Chunks /\ written' = written
    BY DEF NextCode
  <1>2. PICK n \in 0..Len(blocks) : InChunk(n)
    BY <1>1 DEF StreamInv
  <1>3. CASE blocks[n + 1].kind = "zero"
    BY <1>1, <1>2, <1>3, ChunkGoesOn
  <1>4. CASE blocks[n + 1].kind # "zero"
    <2>1. PICK t \in Seq(Symbols), c \in Seq(Codes) :
           /\ t = blocks[n + 1].text
           /\ c = WriterCodes(t) /\ c # <<>> /\ Len(c) \in Nat \ {0}
           /\ at \in Nat /\ Len(file) \in Nat /\ size = Bytes(Len(c)) /\ size \in Nat
           /\ at + size <= Len(file) => \A x \in 1..size : file[at + x] = Payload(c)[x]
           /\ \E m \in 0..Len(c), b \in [0..Len(c) -> 0..Len(t)] :
                /\ IsLzwOf(c, t, b)
                /\ Input_position = CODE_LENGTH * m
                /\ m = 0 <=> pc = "first"
                /\ pc = "codes" /\ at + size <= Len(file) => Unpacked(t, c, b, m)
      BY Zenon, <1>2, <1>4, TextChunk
    <2>2. PICK m \in 0..Len(c), b \in [0..Len(c) -> 0..Len(t)] :
            /\ IsLzwOf(c, t, b) /\ Input_position = CODE_LENGTH * m /\ m # 0
            /\ at + size <= Len(file) => Unpacked(t, c, b, m)
      <3>1. pc # "first"
        BY <1>1
      <3>2. QED
        BY Zenon, <1>1, <2>1, <3>1
    <2>3. m < Len(c)
      <3>1. m \in 1..Len(c)
        BY <2>1, <2>2
      <3>2. /\ Bytes(Len(c)) # 0
            /\ (CODE_LENGTH * m) \div BYTE_BITS < Bytes(Len(c)) - 1 <=> m < Len(c)
        BY Zenon, <2>1, <3>1, LoopCounts
      <3>3. QED
        BY Zenon, <1>1, <2>1, <2>2, <3>2 DEF MoreCodes
    <2>4. m \in 0..(Len(c) - 1) /\ m \in 1..(Len(c) - 1) /\ m + 1 \in 0..Len(c) /\ m + 1 # 0
      BY <2>1, <2>2, <2>3
    <2>5. Input_position' = CODE_LENGTH * (m + 1)
      <3>1. CODE_LENGTH * (m + 1) = CODE_LENGTH * m + CODE_LENGTH
        BY <2>4, WidthFacts
      <3>2. QED
        BY <1>1, <2>2, <3>1
    <2>6. at + size <= Len(file) => Unpacked(t, c, b, m + 1)'
      <3>1. SUFFICES ASSUME at + size <= Len(file)
                     PROVE  Unpacked(t, c, b, m + 1)'
        OBVIOUS
      <3>2. Read_code = c[m + 1]
        BY Zenon, <2>1, <2>2, <2>4, <3>1, ReadsCode
      <3>3. Unpacked(t, c, b, m)
        BY <2>2, <3>1
      <3>4. QED
        BY <2>1, <2>2, <2>4, <3>2, <3>3, NextUnpacks
    <2>7. InText(t)'
      <3>1. (m + 1 = 0 <=> pc' = "first") /\ size' = Bytes(Len(c))
        BY <1>1, <2>1, <2>4
      <3>2. at' + size' <= Len(file') => Unpacked(t, c, b, m + 1)'
        BY Zenon, <1>1, <2>6
      <3>3. QED
        BY Zenon, <2>1, <2>2, <2>4, <2>5, <3>1, <3>2 DEF InText
    <2>8. QED
      BY <1>1, <1>2, <2>1, <2>7, ChunkGoesOn
  <1>5. QED
    BY <1>3, <1>4

LEMMA UndefinedKeeps ==
  ASSUME StreamInv, Undefined
  PROVE  StreamInv'
  <1>1. /\ pc = "codes" /\ pc' = "undefined" /\ MoreCodes /\ Old >= Len(Code_table)
        /\ blocks' = blocks /\ file' = file /\ at' = at
    BY DEF Undefined
  <1>2. PICK n \in 0..Len(blocks) : InChunk(n)
    BY <1>1 DEF StreamInv
  <1>3. ~ (Whole /\ Proper)
    <2>1. SUFFICES ASSUME Whole, Proper
                   PROVE  FALSE
      OBVIOUS
    <2>2. blocks[n + 1].kind # "zero"
      <3>1. n + 1 \in 1..Len(blocks)
        <4>1. Len(blocks) \in Nat /\ n < Len(blocks)
          BY <1>2, FileFacts DEF StreamInv, InChunk
        <4>2. QED
          BY <4>1
      <3>2. QED
        BY <2>1, <3>1 DEF Proper
    <2>3. PICK t \in Seq(Symbols), c \in Seq(Codes) :
            /\ Len(c) \in Nat
            /\ at + size <= Len(file)
            /\ \E m \in 0..Len(c), b \in [0..Len(c) -> 0..Len(t)] :
                 /\ m = 0 <=> pc = "first"
                 /\ pc = "codes" /\ at + size <= Len(file) => Unpacked(t, c, b, m)
      BY Zenon, <1>1, <1>2, <2>1, <2>2, TextChunk
    <2>4. PICK m \in 0..Len(c), b \in [0..Len(c) -> 0..Len(t)] :
            m # 0 /\ Unpacked(t, c, b, m)
      <3>1. pc # "first"
        BY <1>1
      <3>2. QED
        BY Zenon, <1>1, <2>3, <3>1
    <2>5. Old < Len(Code_table) /\ Len(Code_table) = Pow2[BYTE_BITS] + m - 1
          /\ Old = c[m]
      BY <2>4 DEF Unpacked
    <2>6. Len(Code_table) \in Int /\ Old \in Nat
      <3>1. m \in 1..Len(c)
        BY <2>3, <2>4
      <3>2. c[m] \in Codes
        BY <3>1
      <3>3. Codes \subseteq Nat
        BY WidthFacts DEF Codes
      <3>4. Pow2[BYTE_BITS] \in Nat /\ m \in Nat
        BY <2>3, WidthFacts
      <3>5. Len(Code_table) \in Int
        BY <2>5, <3>4
      <3>6. c[m] \in Nat
        BY Zenon, <3>2, <3>3
      <3>7. QED
        BY Zenon, <2>5, <3>5, <3>6
    <2>7. QED
      BY <1>1, <2>5, <2>6
  <1>4. FileOK' /\ at' \in Nat /\ ~ (Whole' /\ Proper')
    BY <1>1, <1>3 DEF StreamInv, FileOK, Whole, Proper
  <1>5. QED
    BY <1>1, <1>4 DEF StreamInv

LEMMA ChunkDoneKeeps ==
  ASSUME StreamInv, ChunkDone
  PROVE  StreamInv'
  <1> PICK I : I = ItemsOfFirst(blocks)
    OBVIOUS
  <1> PICK T : T = TextsOfFirst(blocks)
    OBVIOUS
  <1>1. /\ pc = "codes" /\ pc' = "header" /\ ~ MoreCodes
        /\ blocks' = blocks /\ file' = file
        /\ at' = at + (Input_position + BYTE_BITS - 1) \div BYTE_BITS
        /\ Chunks' = Append(Chunks, Output) /\ written' = written \o Output
    BY DEF ChunkDone
  <1>2. PICK n \in 0..Len(blocks) : InChunk(n)
    BY <1>1 DEF StreamInv
  <1>3. blocks[n + 1].kind # "zero"
    <2>1. size # 0
      BY <1>1 DEF MoreCodes
    <2>2. QED
      BY <1>2, <2>1 DEF InChunk, InText
  <1>4. blocks[n + 1].kind # "zero" => blocks[n + 1].kind = "text"
    BY <1>2 DEF InChunk
  <1>5. PICK t \in Seq(Symbols), c \in Seq(Codes) :
         /\ n + 1 \in 1..Len(blocks) /\ n + 1 \in 0..Len(blocks)
         /\ blocks[n + 1].kind = "text" /\ t = blocks[n + 1].text
         /\ Len(c) \in Nat \ {0}
         /\ at \in Nat /\ Len(file) \in Nat /\ size = Bytes(Len(c)) /\ size \in Nat
         /\ at + size = Len(ItemsOfFirst(blocks)[n + 1])
         /\ Whole => at + size <= Len(file)
         /\ \E m \in 0..Len(c), b \in [0..Len(c) -> 0..Len(t)] :
              /\ IsLzwOf(c, t, b)
              /\ Input_position = CODE_LENGTH * m
              /\ m = 0 <=> pc = "first"
              /\ pc = "codes" /\ at + size <= Len(file) => Unpacked(t, c, b, m)
    BY Zenon, <1>2, <1>3, TextChunk
  <1>6. PICK K \in 1..Len(blocks) : K = n + 1 /\ K - 1 = n /\ K \in 0..Len(blocks)
    BY <1>5
  <1>7. PICK m \in 0..Len(c), b \in [0..Len(c) -> 0..Len(t)] :
          /\ IsLzwOf(c, t, b) /\ Input_position = CODE_LENGTH * m /\ m # 0
          /\ at + size <= Len(file) => Unpacked(t, c, b, m)
    <2>1. pc # "first"
      BY <1>1
    <2>2. QED
      BY Zenon, <1>1, <1>5, <2>1
  <1>8. m = Len(c)
    <2>1. m \in 1..Len(c)
      BY <1>5, <1>7
    <2>2. /\ Bytes(Len(c)) # 0
          /\ (CODE_LENGTH * m) \div BYTE_BITS < Bytes(Len(c)) - 1 <=> m < Len(c)
      BY Zenon, <1>5, <2>1, LoopCounts
    <2>3. ~ (m < Len(c))
      BY Zenon, <1>1, <1>5, <1>7, <2>2 DEF MoreCodes
    <2>4. QED
      BY <1>5, <2>1, <2>3
  <1>9. at' = at + size /\ at' = Len(I[K]) /\ at' \in Nat
    <2>1. at' = at + size
      BY <1>1, <1>5, <1>7, <1>8 DEF Bytes
    <2>2. at + size = Len(I[K]) /\ at \in Nat /\ size \in Nat
      BY Zenon, <1>5, <1>6
    <2>3. QED
      BY <2>1, <2>2
  <1>10. FileOK' /\ (Whole' <=> Whole)
    BY <1>1 DEF StreamInv, FileOK, Whole
  <1>11. CASE at + size <= Len(file)
    <2>1. Output = t
      <3>1. Output = Slice(t, 0, b[Len(c)]) /\ b[Len(c)] = Len(t)
        BY Zenon, <1>7, <1>8, <1>11 DEF Unpacked, IsLzwOf
      <3>2. QED
        BY Zenon, <3>1, SliceOfAll
    <2>2. blocks \in Files
      BY DEF StreamInv, FileOK
    <2>3. written = Meaning(blocks)[n] /\ Chunks = T[n]
      BY <1>2 DEF InChunk, Behind
    <2>4. T[n] \in Seq(Seq(Symbols)) /\ T[K] = Append(T[n], t)
      <3>1. T[n] \in Seq(Seq(Symbols))
        BY <2>2, TextsTable
      <3>2. T[K] = T[n] \o (IF blocks[K].kind = "text" THEN <<blocks[K].text>> ELSE <<>>)
        BY Zenon, <1>6, <2>2, TextsTable
      <3>3. T[K] = T[n] \o <<t>>
        BY Zenon, <1>5, <1>6, <3>2
      <3>4. QED
        BY <3>1, <3>3
    <2>5. Meaning(blocks)[K] = Meaning(blocks)[n] \o t
      <3>1. Meaning(blocks)[K] = Meaning(blocks)[n] \o MeaningOf(blocks[K], T[n])
        BY Zenon, <1>6, <2>2, MeaningTable
      <3>2. MeaningOf(blocks[K], T[n]) = t
        BY <1>5, <1>6 DEF MeaningOf
      <3>3. QED
        BY Zenon, <3>1, <3>2
    <2>6. Behind(K)'
      BY Zenon, <1>1, <2>1, <2>3, <2>4, <2>5 DEF Behind
    <2>7. (\E x \in 0..Len(blocks) : at = Len(ItemsOfFirst(blocks)[x]) /\ Behind(x))'
      BY Zenon, <1>1, <1>6, <1>9, <2>6
    <2>8. QED
      BY <1>1, <1>9, <1>10, <2>7 DEF StreamInv
  <1>12. CASE ~ (at + size <= Len(file))
    <2>1. ~ Whole' /\ at' >= Len(file')
      BY <1>1, <1>5, <1>9, <1>10, <1>12
    <2>2. QED
      BY <1>1, <1>9, <1>10, <2>1 DEF StreamInv
  <1>13. QED
    BY <1>11, <1>12

LEMMA StreamStutters ==
  ASSUME StreamInv, UNCHANGED stream_vars
  PROVE  StreamInv'
  <1>1. /\ blocks' = blocks /\ file' = file /\ at' = at /\ size' = size
        /\ Chunks' = Chunks /\ written' = written /\ pc' = pc
        /\ Input_position' = Input_position /\ Code_table' = Code_table
        /\ Old' = Old /\ Symbol' = Symbol /\ Output' = Output
    BY DEF stream_vars, chunk_vars
  <1>2. CASE pc \in {"first", "codes"}
    <2>1. PICK n \in 0..Len(blocks) : InChunk(n)
      BY <1>2 DEF StreamInv
    <2>2. blocks[n + 1].kind = "zero" \/ InText(blocks[n + 1].text)'
      BY <1>1, <2>1 DEF InChunk, InText, Unpacked
    <2>3. QED
      BY <1>1, <1>2, <2>1, <2>2, ChunkGoesOn
  <1>3. CASE pc \notin {"first", "codes"}
    <2>1. (Whole' <=> Whole) /\ (Proper' <=> Proper) /\ FileOK'
      BY <1>1 DEF StreamInv, FileOK, Whole, Proper
    <2>2. \A n : Behind(n)' <=> Behind(n)
      BY <1>1 DEF Behind
    <2>3. QED
      BY <1>1, <1>3, <2>1, <2>2 DEF StreamInv
  <1>4. QED
    BY <1>2, <1>3

\* The invariant holds in every state of the stream decoder.
THEOREM StreamInvariant == StreamSpec => []StreamInv
  <1>1. StreamInit => StreamInv
    BY StreamStarts
  <1>2. StreamInv /\ [StreamNext]_stream_vars => StreamInv'
    BY ChunkHeaderKeeps, ReferenceKeeps, EndOfFileKeeps, FirstCodeKeeps, NextCodeKeeps,
       UndefinedKeeps, ChunkDoneKeeps, StreamStutters DEF StreamNext
  <1>3. QED
    BY <1>1, <1>2, PTL DEF StreamSpec

\* Each header is read where the writer put it, and what was written before it
\* is what the blocks before it stand for (Decoder.cpp:24-30, 45-59, 84-113).
THEOREM HeadersAreFound == StreamSpec => []HeadersAlign
  <1>1. StreamInv => HeadersAlign
    <2> SUFFICES ASSUME StreamInv, pc = "header", at < Len(file)
                 PROVE  \E n \in 0..Len(blocks) :
                          at = Len(ItemsOfFirst(blocks)[n]) /\ written = Meaning(blocks)[n]
      BY DEF HeadersAlign
    <2>1. PICK n \in 0..(Len(blocks) - 1) : at = Len(ItemsOfFirst(blocks)[n]) /\ Behind(n)
      BY HeaderIsNext
    <2>2. n \in 0..Len(blocks)
      BY FileFacts DEF StreamInv
    <2>3. QED
      BY <2>1, <2>2 DEF Behind
  <1>2. QED
    BY <1>1, StreamInvariant, PTL

\* A whole file is decoded to the texts the writer put in, and no index is ever
\* outside the table (Decoder.cpp:42-57).
THEOREM FilesAreDecoded == StreamSpec => []DecodesWholeFiles
  <1>1. StreamInv => DecodesWholeFiles
    <2> SUFFICES ASSUME StreamInv, Whole, Proper
                 PROVE  /\ pc # "undefined"
                        /\ pc = "codes" => Old < Len(Code_table)
                        /\ pc = "end" => written = Meaning(blocks)[Len(blocks)]
      BY DEF DecodesWholeFiles
    <2> PICK I : I = ItemsOfFirst(blocks)
      OBVIOUS
    <2>1. /\ blocks \in Files /\ Len(blocks) \in Nat
          /\ Len(file) \in Nat /\ Len(file) = Len(I[Len(blocks)])
      BY FileFacts DEF StreamInv
    <2>2. pc # "undefined"
      BY DEF StreamInv
    <2>3. ASSUME pc = "codes"
          PROVE  Old < Len(Code_table)
      <3>1. PICK n \in 0..Len(blocks) : InChunk(n)
        BY <2>3 DEF StreamInv
      <3>2. blocks[n + 1].kind # "zero"
        <4>1. n + 1 \in 1..Len(blocks)
          BY <2>1, <3>1 DEF InChunk
        <4>2. QED
          BY <4>1 DEF Proper
      <3>3. PICK t \in Seq(Symbols), c \in Seq(Codes) :
              \E m \in 0..Len(c), b \in [0..Len(c) -> 0..Len(t)] : Unpacked(t, c, b, m)
        BY Zenon, <2>3, <3>1, <3>2, TextChunk
      <3>4. QED
        BY <3>3 DEF Unpacked
    <2>4. ASSUME pc = "end"
          PROVE  written = Meaning(blocks)[Len(blocks)]
      <3>1. PICK n \in 0..Len(blocks) : at = Len(I[n]) /\ Behind(n) /\ at >= Len(file)
        BY <2>4 DEF StreamInv
      <3>2. n = Len(blocks)
        <4>1. SUFFICES ASSUME n \in 0..(Len(blocks) - 1)
                       PROVE  FALSE
          BY <2>1
        <4>2. /\ n + 1 \in 1..Len(blocks)
              /\ Len(I[n]) \in Nat /\ Len(I[n + 1]) \in Nat
              /\ Len(I[n + 1]) = Len(I[n]) + Len(ItemsOf(blocks[n + 1]))
              /\ Len(I[n + 1]) <= Len(I[Len(blocks)])
          BY Zenon, <2>1, <4>1, BlockInFile
        <4>3. Len(ItemsOf(blocks[n + 1])) >= 1 /\ ItemsOf(blocks[n + 1]) \in Seq(Item)
          BY Zenon, <2>1, <4>2, ItemsOfBlock
        <4> DEFINE its == Len(ItemsOf(blocks[n + 1]))
                   l == Len(I[n])
                   e == Len(I[n + 1])
                   L == Len(I[Len(blocks)])
        <4>4. its \in Nat /\ its >= 1 /\ l \in Nat /\ e = l + its /\ e <= L /\ l >= L /\ L \in Nat
          <5>1. l >= L /\ L \in Nat
            BY Zenon, <2>1, <3>1
          <5>2. its \in Nat
            BY <4>3
          <5>3. QED
            BY Zenon, <4>2, <4>3, <5>1, <5>2
        <4> HIDE DEF its, l, e, L
        <4>5. QED
          BY <4>4
      <3>3. QED
        BY <3>1, <3>2 DEF Behind
    <2>5. QED
      BY <2>2, <2>3, <2>4
  <1>2. QED
    BY <1>1, StreamInvariant, PTL

-----------------------------------------------------------------------------
(* The codes of textbook LZW. *)

\* h is GreedyRun as far as n.
RunTo(h, text, chars, room, n) ==
  h = [m \in 0..n |-> IF m = 0 THEN NothingEncoded(chars)
                              ELSE GreedyStep(text, room, h[m - 1])]

\* What GreedyRun defines.
LEMMA GreedyTable ==
  ASSUME NEW text, Len(text) \in Nat, NEW chars, NEW room,
         NEW R, R = GreedyRun(text, chars, room)
  PROVE  /\ R[0] = NothingEncoded(chars)
         /\ \A n \in 1..(Len(text) + 1) : R[n] = GreedyStep(text, room, R[n - 1])
  <1> DEFINE N == Len(text) + 1
             T == {n \in Nat : \E h : RunTo(h, text, chars, room, n)}
  <1>1. GreedyRun(text, chars, room) = CHOOSE h : RunTo(h, text, chars, room, N)
    BY Zenon DEF GreedyRun, RunTo
  <1>2. 0 \in T
    <2> DEFINE h == [m \in 0..0 |-> NothingEncoded(chars)]
    <2>1. DOMAIN h = 0..0 /\ h[0] = NothingEncoded(chars)
      OBVIOUS
    <2>2. h = [m \in 0..0 |-> IF m = 0 THEN NothingEncoded(chars)
                                ELSE GreedyStep(text, room, h[m - 1])]
      OBVIOUS
    <2>3. QED
      BY <2>2 DEF RunTo
  <1>3. ASSUME NEW n \in Nat, n \in T PROVE n + 1 \in T
    <2>1. PICK h : RunTo(h, text, chars, room, n)
      BY <1>3
    <2> DEFINE g == [K \in 0..(n + 1) |-> IF K = n + 1 THEN GreedyStep(text, room, h[n])
                                            ELSE h[K]]
    <2>2. \A K \in 0..(n + 1) : g[K] = IF K = 0 THEN NothingEncoded(chars)
                                         ELSE GreedyStep(text, room, g[K - 1])
      <3> TAKE K \in 0..(n + 1)
      <3>1. CASE K = n + 1
        <4>1. K # 0 /\ K - 1 = n /\ n \in 0..(n + 1) /\ n # n + 1
          BY <3>1
        <4>2. g[K] = GreedyStep(text, room, h[n]) /\ g[n] = h[n]
          BY <3>1, <4>1
        <4> HIDE DEF g
        <4>3. QED
          BY <4>1, <4>2
      <3>2. CASE K # n + 1
        <4>1. K \in 0..n /\ (K # 0 => K - 1 \in 0..(n + 1) /\ K - 1 # n + 1)
          BY <3>2
        <4>2. g[K] = h[K] /\ (K # 0 => g[K - 1] = h[K - 1])
          BY <3>2, <4>1
        <4>3. h[K] = IF K = 0 THEN NothingEncoded(chars)
                       ELSE GreedyStep(text, room, h[K - 1])
          <5>1. h = [m \in 0..n |-> IF m = 0 THEN NothingEncoded(chars)
                                      ELSE GreedyStep(text, room, h[m - 1])]
            BY <2>1 DEF RunTo
          <5>2. QED
            BY ONLY <4>1, <5>1
        <4> HIDE DEF g
        <4>4. QED
          BY <4>2, <4>3
      <3>3. QED
        BY <3>1, <3>2
    <2>3. g = [K \in 0..(n + 1) |-> g[K]]
      BY Zenon
    <2> HIDE DEF g
    <2>4. RunTo(g, text, chars, room, n + 1)
      BY Zenon, <2>2, <2>3 DEF RunTo
    <2>5. QED
      BY <2>4
  <1>4. N \in Nat
    OBVIOUS
  <1> HIDE DEF T, N
  <1>5. N \in T
    BY <1>2, <1>3, <1>4, Induct
  <1>6. \E h : RunTo(h, text, chars, room, N)
    BY Zenon, <1>5 DEF T
  <1>7. R = [m \in 0..N |-> IF m = 0 THEN NothingEncoded(chars)
                              ELSE GreedyStep(text, room, R[m - 1])]
    BY Zenon, <1>1, <1>6 DEF RunTo
  <1>8. 0 \in 0..N /\ \A n \in 1..N : n \in 0..N /\ n # 0
    BY <1>4
  <1>9. R[0] = NothingEncoded(chars) /\ \A n \in 1..N : R[n] = GreedyStep(text, room, R[n - 1])
    BY Zenon, <1>7, <1>8
  <1>10. QED
    BY <1>9 DEF N

\* A slice of a slice.
LEMMA SliceOfSlice ==
  ASSUME NEW S, NEW s \in Seq(S), NEW a \in Nat, NEW e \in Nat, a <= e, e <= Len(s),
         NEW n \in Nat, n <= e - a
  PROVE  Slice(Slice(s, a, e), 0, n) = Slice(s, a, a + n)
  <1>1. Len(s) \in Nat
    BY LenProperties
  <1>2. PICK f \in Nat, z \in Nat : f = a + n /\ z = 0
    OBVIOUS
  <1>3. a <= f /\ f <= Len(s) /\ z <= n
    BY <1>1, <1>2
  <1> DEFINE u == Slice(s, a, e)
             v == Slice(u, z, n)
             w == Slice(s, a, f)
  <1>4. u \in Seq(S) /\ Len(u) = e - a /\ \A x \in 1..(e - a) : u[x] = s[a + x]
    BY ZenonT(60), SliceIs
  <1>5. n <= Len(u)
    BY <1>4
  <1> HIDE DEF u
  <1>6. /\ v \in Seq(S) /\ Len(v) = n - z
        /\ \A x \in 1..(n - z) : v[x] = u[z + x]
    <2>1. z \in Nat /\ n \in Nat /\ z <= n /\ n <= Len(u) /\ u \in Seq(S)
      BY Zenon, <1>3, <1>4, <1>5
    <2>2. QED
      BY ONLY ZenonT(60), <2>1, SliceIs
  <1>7. w \in Seq(S) /\ Len(w) = f - a /\ \A x \in 1..(f - a) : w[x] = s[a + x]
    BY ZenonT(60), <1>1, <1>3, SliceIs
  <1> HIDE DEF v, w
  <1>8. Len(v) = n /\ Len(w) = n
    BY <1>2, <1>6, <1>7
  <1>9. \A x \in 1..n : v[x] = w[x]
    <2> TAKE x \in 1..n
    <2>1. x \in 1..(e - a) /\ z + x = x /\ x \in 1..(n - z) /\ x \in 1..(f - a)
      BY <1>2
    <2>2. v[x] = u[x]
      BY <1>6, <2>1
    <2>3. w[x] = s[a + x]
      BY <1>7, <2>1
    <2>4. u[x] = s[a + x]
      BY <1>4, <2>1
    <2>5. QED
      BY <2>2, <2>3, <2>4
  <1>10. v = w
    BY <1>6, <1>7, <1>8, <1>9, SeqEqual
  <1>11. QED
    BY <1>2, <1>10 DEF u, v, w

\* A prefix is a slice from the beginning.
LEMMA PrefixIs ==
  ASSUME NEW s \in Seq(Char), NEW t \in Seq(Char)
  PROVE  Lib!IsPrefix(s, t) <=> Len(s) <= Len(t) /\ s = Slice(t, 0, Len(s))
  <1>1. SubSeq(s, 1, Len(s)) = s
    BY SubSeqFull
  <1>2. 0 + 1 = 1
    OBVIOUS
  <1>3. QED
    BY <1>1, <1>2 DEF Slice, Lib!IsPrefix

\* The dictionary with N entries as LzwReference has it.
DictOf(f, N) == [c \in 1..N |-> f[c - 1]]

LEMMA DictIs ==
  ASSUME NEW N \in Nat, NEW f \in [0..(N - 1) -> Seq(Char)]
  PROVE  /\ DictOf(f, N) \in Seq(Seq(Char))
         /\ Len(DictOf(f, N)) = N
         /\ \A c \in 0..(N - 1) : DictOf(f, N)[c + 1] = f[c]
  <1> DEFINE D == DictOf(f, N)
  <1>1. \A c \in 1..N : D[c] = f[c - 1] /\ f[c - 1] \in Seq(Char)
    BY DEF DictOf
  <1>2. D \in [1..N -> Seq(Char)]
    BY <1>1 DEF DictOf
  <1> HIDE DEF D
  <1>3. D \in Seq(Seq(Char)) /\ Len(D) = N
    BY <1>2, TableIsSeq
  <1>4. \A c \in 0..(N - 1) : D[c + 1] = f[c]
    <2> TAKE c \in 0..(N - 1)
    <2>1. c + 1 \in 1..N /\ c + 1 - 1 = c
      OBVIOUS
    <2>2. QED
      BY <1>1, <2>1
  <1>5. QED
    BY <1>3, <1>4 DEF D

\* An entry more.
LEMMA DictAppend ==
  ASSUME NEW N \in Nat, NEW f \in [0..(N - 1) -> Seq(Char)], NEW e \in Seq(Char),
         NEW g, g = [c \in 0..N |-> IF c = N THEN e ELSE f[c]]
  PROVE  DictOf(g, N + 1) = Append(DictOf(f, N), e)
  <1> DEFINE D == DictOf(f, N)
             E == DictOf(g, N + 1)
             A == Append(D, e)
  <1>1. \A c \in 0..N : g[c] = IF c = N THEN e ELSE f[c]
    OBVIOUS
  <1>2. g \in [0..N -> Seq(Char)]
    <2>1. \A c \in 0..N : c = N \/ c \in 0..(N - 1)
      OBVIOUS
    <2>2. \A c \in 0..N : g[c] \in Seq(Char)
      BY <1>1, <2>1
    <2>3. QED
      BY <2>2
  <1>3. D \in Seq(Seq(Char)) /\ Len(D) = N /\ \A c \in 0..(N - 1) : D[c + 1] = f[c]
    BY DictIs
  <1>4. /\ E \in Seq(Seq(Char)) /\ Len(E) = N + 1
        /\ \A c \in 0..N : E[c + 1] = g[c]
    <2>1. PICK M \in Nat : M = N + 1 /\ M - 1 = N
      OBVIOUS
    <2>2. /\ DictOf(g, M) \in Seq(Seq(Char))
          /\ Len(DictOf(g, M)) = M
          /\ \A c \in 0..(M - 1) : DictOf(g, M)[c + 1] = g[c]
      BY <1>2, <2>1, DictIs
    <2>3. QED
      BY <2>1, <2>2
  <1> HIDE DEF D, E
  <1>5. /\ A \in Seq(Seq(Char)) /\ Len(A) = N + 1
        /\ \A x \in 1..N : A[x] = D[x]
        /\ A[N + 1] = e
    BY <1>3, AppendProperties
  <1> HIDE DEF A
  <1>6. \A x \in 1..(N + 1) : E[x] = A[x]
    <2> TAKE x \in 1..(N + 1)
    <2>1. x - 1 \in 0..N /\ x - 1 + 1 = x
      OBVIOUS
    <2>2. E[x] = g[x - 1]
      BY <1>4, <2>1
    <2>3. CASE x = N + 1
      <3>1. x - 1 = N
        BY <2>3
      <3>2. g[x - 1] = e
        BY <1>1, <2>1, <3>1
      <3>3. QED
        BY <1>5, <2>2, <2>3, <3>2
    <2>4. CASE x # N + 1
      <3>1. x \in 1..N /\ x - 1 \in 0..(N - 1) /\ x - 1 # N
        BY <2>4
      <3>2. A[x] = D[x] /\ D[x - 1 + 1] = f[x - 1] /\ g[x - 1] = f[x - 1]
        BY <1>1, <1>3, <1>5, <2>1, <3>1
      <3>3. QED
        BY <2>1, <2>2, <3>2
    <2>5. QED
      BY <2>3, <2>4
  <1>7. E = A
    <2>1. Len(E) = Len(A) /\ \A x \in 1..Len(E) : E[x] = A[x]
      BY <1>4, <1>5, <1>6
    <2>2. E \in Seq(Seq(Char)) /\ A \in Seq(Seq(Char))
      BY Zenon, <1>4, <1>5
    <2>3. QED
      BY ONLY <2>1, <2>2, SeqEqual
  <1>8. QED
    BY <1>7 DEF A, D, E

\* Different entries have different codes, and the beginnings of an entry are
\* entries.
Distinct(f, N) == \A c, d \in 0..(N - 1) : f[c] = f[d] => c = d
Closed(f, N) ==
  \A c \in 0..(N - 1) : \A n \in 0..Len(f[c]) : \E d \in 0..(N - 1) : f[d] = Slice(f[c], 0, n)

\* In such a dictionary an entry that cannot be followed further is the longest.
LEMMA LongestIs ==
  ASSUME NEW N \in Nat, NEW f \in [0..(N - 1) -> Seq(Char)], Distinct(f, N), Closed(f, N),
         NEW t \in Seq(Char), NEW c \in 0..(N - 1),
         Len(f[c]) <= Len(t), f[c] = Slice(t, 0, Len(f[c])),
         Len(f[c]) < Len(t) => \A d \in 0..(N - 1) : f[d] # Slice(t, 0, Len(f[c]) + 1)
  PROVE  LongestCode(t, DictOf(f, N)) = c
  <1> DEFINE D == DictOf(f, N)
             Begun(d) == Len(f[d]) <= Len(t) /\ f[d] = Slice(t, 0, Len(f[d]))
             Best(d) == /\ Lib!IsPrefix(D[d + 1], t)
                        /\ \A e \in 0..(Len(D) - 1) :
                             Lib!IsPrefix(D[e + 1], t) => Len(D[e + 1]) <= Len(D[d + 1])
  <1>1. Len(D) = N /\ \A d \in 0..(N - 1) : D[d + 1] = f[d]
    BY DictIs
  <1> HIDE DEF D
  <1>2. \A d \in 0..(N - 1) : Len(f[d]) \in Nat
    <2> TAKE d \in 0..(N - 1)
    <2>1. f[d] \in Seq(Char)
      OBVIOUS
    <2>2. QED
      BY <2>1, LenProperties
  <1>3. \A d \in 0..(N - 1) : Lib!IsPrefix(D[d + 1], t) <=> Begun(d)
    <2> TAKE d \in 0..(N - 1)
    <2>1. f[d] \in Seq(Char) /\ D[d + 1] = f[d]
      BY <1>1
    <2>2. QED
      BY <2>1, PrefixIs
  <1>4. ASSUME NEW d \in 0..(N - 1), Begun(d)
        PROVE  Len(f[d]) <= Len(f[c])
    <2> SUFFICES ASSUME ~ (Len(f[d]) <= Len(f[c])) PROVE FALSE
      OBVIOUS
    <2>1. Len(t) \in Nat /\ Len(f[d]) \in Nat /\ Len(f[c]) \in Nat
      BY <1>2, LenProperties
    <2>2. PICK n \in Nat : n = Len(f[c]) + 1
      BY <2>1
    <2>3. PICK m \in Nat, z \in Nat : m = Len(f[d]) /\ z = 0
      BY <2>1
    <2>4. n \in 0..m /\ n <= m - z /\ z <= m /\ m <= Len(t) /\ Len(f[c]) < Len(t) /\ z + n = n
      BY <1>4, <2>1, <2>2, <2>3
    <2>5. PICK e \in 0..(N - 1) : f[e] = Slice(f[d], 0, n)
      BY <2>3, <2>4 DEF Closed
    <2>6. Slice(Slice(t, z, m), 0, n) = Slice(t, z, z + n)
      <3>1. /\ t \in Seq(Char) /\ n \in Nat /\ m \in Nat /\ z \in Nat
            /\ n <= m - z /\ z <= m /\ m <= Len(t)
        BY Zenon, <2>4
      <3>2. QED
        BY ONLY ZenonT(60), <3>1, SliceOfSlice
    <2>7. f[e] = Slice(t, 0, n)
      BY <1>4, <2>3, <2>4, <2>5, <2>6
    <2>8. QED
      BY <2>2, <2>4, <2>7
  <1>5. Begun(c)
    OBVIOUS
  <1>6. Best(c)
    BY <1>1, <1>3, <1>4, <1>5
  <1>7. ASSUME NEW d \in 0..(N - 1), Best(d) PROVE d = c
    <2>1. Begun(d)
      BY <1>3, <1>7
    <2>2. Len(f[c]) <= Len(f[d])
      BY <1>1, <1>3, <1>5, <1>7
    <2>3. Len(f[d]) = Len(f[c])
      BY <1>2, <1>4, <2>1, <2>2
    <2>4. f[d] = f[c]
      BY <1>5, <2>1, <2>3
    <2>5. QED
      BY <2>4 DEF Distinct
  <1>8. LongestCode(t, D) = CHOOSE d \in 0..(Len(D) - 1) : Best(d)
    BY Zenon DEF LongestCode
  <1> HIDE DEF Best
  <1>9. QED
    BY <1>1, <1>6, <1>7, <1>8 DEF D

\* One code more.
LEMMA GreedyStepIs ==
  ASSUME NEW t, NEW s, NEW room, ~ AllEncoded(t, s),
         NEW rest, rest = Slice(t, s.at, Len(t)),
         NEW c, c = LongestCode(rest, s.dict),
         NEW n, n = Len(s.dict[c + 1])
  PROVE  GreedyStep(t, room, s)
           = [at    |-> s.at + n,
              dict  |-> IF n < Len(rest) /\ Len(s.dict) < room
                          THEN Append(s.dict, Slice(rest, 0, n + 1)) ELSE s.dict,
              codes |-> Append(s.codes, c)]
  <1>1. GreedyStep(t, room, s) = OneCodeMore(t, room, s)
    BY Zenon DEF GreedyStep
  <1>2. SubSeq(t, s.at + 1, Len(t)) = rest
    BY DEF Slice
  <1>3. SubSeq(rest, 1, n + 1) = Slice(rest, 0, n + 1)
    <2>1. 0 + 1 = 1
      OBVIOUS
    <2>2. QED
      BY <2>1 DEF Slice
  <1>4. QED
    BY Zenon, <1>1, <1>2, <1>3 DEF OneCodeMore

\* When all is encoded nothing more happens.
LEMMA RunStays ==
  ASSUME NEW text, Len(text) \in Nat, NEW chars, NEW room,
         NEW R, R = GreedyRun(text, chars, room),
         NEW n \in 0..(Len(text) + 1), AllEncoded(text, R[n])
  PROVE  LzwCodes(text, chars, room) = R[n].codes
  <1> DEFINE N == Len(text) + 1
             T == {m \in 0..N : m >= n => R[m] = R[n]}
  <1>1. \A m \in 1..N : R[m] = GreedyStep(text, room, R[m - 1])
    BY GreedyTable
  <1>2. N \in Nat /\ n \in 0..N /\ N >= n /\ N \in 0..N
    OBVIOUS
  <1>3. LzwCodes(text, chars, room) = R[N].codes
    BY Zenon DEF LzwCodes
  <1> HIDE DEF N
  <1>4. 0 \in T
    BY <1>2
  <1>5. ASSUME NEW m \in 1..N, m - 1 \in T PROVE m \in T
    <2>1. SUFFICES ASSUME m >= n, m # n PROVE R[m] = R[n]
      BY <1>2
    <2>2. R[m - 1] = R[n]
      BY <1>2, <1>5, <2>1
    <2>3. R[m] = GreedyStep(text, room, R[m - 1])
      BY <1>1
    <2>4. QED
      BY Zenon, <2>2, <2>3 DEF GreedyStep
  <1> HIDE DEF T
  <1>6. \A m \in 0..N : m \in T
    BY <1>2, <1>4, <1>5, UpTo
  <1>7. R[N] = R[n]
    BY <1>2, <1>6 DEF T
  <1>8. QED
    BY <1>3, <1>7

\* The dictionary keeps its form when a new string enters it.
LEMMA NewEntryKeeps ==
  ASSUME NEW N \in Nat, NEW f \in [0..(N - 1) -> Seq(Char)], Distinct(f, N), Closed(f, N),
         NEW e \in Seq(Char), \A d \in 0..(N - 1) : f[d] # e,
         \A n \in 0..(Len(e) - 1) : \E d \in 0..(N - 1) : f[d] = Slice(e, 0, n),
         NEW g, g = [c \in 0..N |-> IF c = N THEN e ELSE f[c]]
  PROVE  Distinct(g, N + 1) /\ Closed(g, N + 1)
  <1>1. g[N] = e /\ \A c \in 0..(N - 1) : g[c] = f[c] /\ c \in 0..N
    OBVIOUS
  <1>2. \A c \in 0..N : c = N \/ c \in 0..(N - 1)
    OBVIOUS
  <1>3. N + 1 - 1 = N /\ N \in 0..N
    OBVIOUS
  <1>4. ASSUME NEW c \in 0..N, NEW d \in 0..N, g[c] = g[d] PROVE c = d
    <2>1. CASE c \in 0..(N - 1) /\ d \in 0..(N - 1)
      BY Zenon, <1>1, <1>4, <2>1 DEF Distinct
    <2>2. QED
      BY Zenon, <1>1, <1>2, <1>4, <2>1
  <1>5. ASSUME NEW c \in 0..N, NEW n \in 0..Len(g[c])
        PROVE  \E d \in 0..N : g[d] = Slice(g[c], 0, n)
    <2>1. CASE c \in 0..(N - 1)
      <3>1. PICK d \in 0..(N - 1) : f[d] = Slice(f[c], 0, n)
        BY Zenon, <1>1, <1>5, <2>1 DEF Closed
      <3>2. QED
        BY Zenon, <1>1, <2>1, <3>1
    <2>2. CASE c = N
      <3>1. Len(e) \in Nat
        BY LenProperties
      <3>2. CASE n = Len(e)
        <4>1. Slice(e, 0, n) = e
          BY <3>2, SliceOfAll
        <4>2. QED
          BY Zenon, <1>1, <1>3, <2>2, <4>1
      <3>3. CASE n # Len(e)
        <4>1. n \in 0..(Len(e) - 1)
          BY <1>1, <2>2, <3>1, <3>3
        <4>2. PICK d \in 0..(N - 1) : f[d] = Slice(e, 0, n)
          BY <4>1
        <4>3. QED
          BY Zenon, <1>1, <2>2, <4>2
      <3>4. QED
        BY <3>2, <3>3
    <2>3. QED
      BY Zenon, <1>2, <2>1, <2>2
  <1>6. PICK M : M = N + 1
    OBVIOUS
  <1>7. 0..(M - 1) = 0..N
    BY <1>6
  <1>8. Distinct(g, M) /\ Closed(g, M)
    <2>1. Distinct(g, M)
      BY ONLY Zenon, <1>4, <1>7 DEF Distinct
    <2>2. Closed(g, M)
      BY ONLY Zenon, <1>5, <1>7 DEF Closed
    <2>3. QED
      BY <2>1, <2>2
  <1>9. QED
    BY Zenon, <1>6, <1>8

\* The dictionary at first.
LEMMA FirstDictionary ==
  /\ Distinct(SingleChars, CHAR_MAX + 1)
  /\ Closed(SingleChars, CHAR_MAX + 1)
  /\ NothingEncoded(CHAR_MAX)
       = [at |-> 0, dict |-> DictOf(SingleChars, CHAR_MAX + 1), codes |-> <<>>]
  <1>1. CHAR_MAX \in Nat /\ CHAR_MAX + 1 - 1 = CHAR_MAX /\ 0 \in 0..CHAR_MAX
    BY EncoderAssumption
  <1>2. /\ SingleChars[0] = <<>>
        /\ \A c \in 0..CHAR_MAX : c # 0 => SingleChars[c] = <<c>> /\ c \in Char
    BY <1>1 DEF SingleChars, Char
  <1>3. ASSUME NEW c \in 0..CHAR_MAX, NEW d \in 0..CHAR_MAX, SingleChars[c] = SingleChars[d]
        PROVE  c = d
    <2>1. CASE c = 0 /\ d # 0
      <3>1. <<>> = <<d>>
        BY <1>2, <1>3, <2>1
      <3>2. QED
        BY <3>1
    <2>2. CASE c # 0 /\ d = 0
      <3>1. <<>> = <<c>>
        BY <1>2, <1>3, <2>2
      <3>2. QED
        BY <3>1
    <2>3. CASE c # 0 /\ d # 0
      <3>1. <<c>> = <<d>>
        BY <1>2, <1>3, <2>3
      <3>2. QED
        BY <3>1
    <2>4. QED
      BY <2>1, <2>2, <2>3
  <1>4. ASSUME NEW c \in 0..CHAR_MAX, NEW n \in 0..Len(SingleChars[c])
        PROVE  \E d \in 0..CHAR_MAX : SingleChars[d] = Slice(SingleChars[c], 0, n)
    <2>1. SingleChars[c] \in Seq(Char) /\ Len(SingleChars[c]) <= 1
      BY SingleCharsFit
    <2>2. Len(SingleChars[c]) \in Nat
      BY <2>1, LenProperties
    <2>3. n = 0 \/ n = Len(SingleChars[c])
      BY <2>1, <2>2
    <2>4. CASE n = 0
      <3>1. Slice(SingleChars[c], 0, 0) = <<>>
        BY <2>1, SliceOfNone
      <3>2. QED
        BY <1>1, <1>2, <2>4, <3>1
    <2>5. CASE n = Len(SingleChars[c])
      <3>1. Slice(SingleChars[c], 0, n) = SingleChars[c]
        BY <2>1, <2>5, SliceOfAll
      <3>2. QED
        BY <3>1
    <2>6. QED
      BY <2>3, <2>4, <2>5
  <1>5. DictOf(SingleChars, CHAR_MAX + 1)
          = [c \in 1..(CHAR_MAX + 1) |-> IF c = 1 THEN <<>> ELSE <<c - 1>>]
    <2>1. ASSUME NEW c \in 1..(CHAR_MAX + 1)
          PROVE  SingleChars[c - 1] = IF c = 1 THEN <<>> ELSE <<c - 1>>
      <3>1. c - 1 \in 0..CHAR_MAX /\ (c = 1 => c - 1 = 0) /\ (c # 1 => c - 1 # 0)
        BY <1>1
      <3>2. QED
        BY Zenon, <1>2, <3>1
    <2>2. QED
      BY Zenon, <2>1 DEF DictOf
  <1>6. PICK M : M = CHAR_MAX + 1
    OBVIOUS
  <1>7. 0..(M - 1) = 0..CHAR_MAX
    BY <1>1, <1>6
  <1>8. Distinct(SingleChars, M) /\ Closed(SingleChars, M)
    BY Zenon, <1>3, <1>4, <1>7 DEF Distinct, Closed
  <1>9. QED
    BY Zenon, <1>5, <1>6, <1>8 DEF NothingEncoded

\* The characters that the emitted codes stand for.
Base == IF input = <<>> THEN 0 ELSE i - Len(p)

\* The encoder in its loop is where textbook LZW is after as many codes: the
\* same dictionary, the same codes, and p follows the characters of the codes.
InGreedyRun ==
  /\ Distinct(table, table_size) /\ Closed(table, table_size)
  /\ \A c \in 0..CHAR_MAX : table[c] = SingleChars[c]
  /\ CodesOf(p) # {}
  /\ input = <<>> => p = <<>> /\ output_code = <<>>
  /\ input # <<>> => p = Slice(input, Base, i)
  /\ Len(output_code) <= Base
  /\ GreedyRun(input, CHAR_MAX, TABLE_SIZE)[Len(output_code)]
       = [at |-> Base, dict |-> DictOf(table, table_size), codes |-> output_code]

\* The strengthening of EncodesGreedily.
GreedyInv ==
  /\ GrowthInv
  /\ ShortEnough /\ epc = "encode" => InGreedyRun
  /\ EncodesGreedily

\* What its steps use.
LEMMA GreedyFacts ==
  ASSUME GreedyInv, ShortEnough, epc = "encode"
  PROVE  /\ TypeOK /\ InGreedyRun
         /\ input \in Seq(Char) /\ Len(input) \in Nat
         /\ i \in Nat /\ p \in Seq(Char) /\ Len(p) \in Nat
         /\ table_size \in Nat /\ CHAR_MAX + 1 <= table_size
         /\ table \in [0..(table_size - 1) -> Seq(Char)]
         /\ Base \in Nat /\ Base + Len(p) <= Len(input)
         /\ input = <<>> => Len(p) = 0 /\ Base = 0 /\ i >= Len(input)
         /\ input # <<>> => /\ i <= Len(input) /\ Base + Len(p) = i /\ Base < i
                            /\ Len(p) # 0
  <1>1. TypeOK /\ PhraseGrowth /\ InGreedyRun
    BY DEF GreedyInv, GrowthInv
  <1>2. input \in Seq(Char) /\ Len(input) \in Nat
    BY <1>1, EncoderAssumption DEF TypeOK
  <1>3. /\ i \in Nat \ {0} /\ p \in Seq(Char)
        /\ table_size \in Nat /\ CHAR_MAX + 1 <= table_size
        /\ table \in [0..(table_size - 1) -> Seq(Char)]
    BY <1>1, EncoderAssumption DEF TypeOK
  <1>4. Len(p) \in Nat
    BY <1>3, LenProperties
  <1>5. CASE input = <<>>
    <2>1. p = <<>> /\ Base = 0
      BY <1>1, <1>5 DEF InGreedyRun, Base
    <2>2. Len(p) = 0 /\ Len(input) = 0
      BY <1>5, <2>1
    <2>3. QED
      BY <1>1, <1>2, <1>3, <1>4, <1>5, <2>1, <2>2
  <1>6. CASE input # <<>>
    <2>1. i <= Len(input) /\ Len(p) \in 1..i /\ Base = i - Len(p)
      BY <1>1, <1>6 DEF PhraseGrowth, Base
    <2>2. /\ Base \in Nat /\ Base + Len(p) <= Len(input)
          /\ Base + Len(p) = i /\ Base < i /\ Len(p) # 0
      BY <1>2, <1>3, <1>4, <2>1
    <2>3. QED
      BY Zenon, <1>1, <1>2, <1>3, <1>4, <1>6, <2>1, <2>2
  <1>7. QED
    BY <1>5, <1>6

\* p and the next character are slices of the input, and fit.
LEMMA TempIsSlice ==
  ASSUME GreedyInv, ShortEnough, epc = "encode", i < Len(input)
  PROVE  /\ input # <<>> /\ input[i + 1] \in Char
         /\ temp \in Seq(Char) /\ Len(temp) = Len(p) + 1
         /\ temp = Slice(input, Base, i + 1)
         /\ string_copy(temp) = temp
         /\ Slice(input, i, i + 1) = <<input[i + 1]>>
  <1>1. /\ TypeOK /\ InGreedyRun
        /\ input \in Seq(Char) /\ i \in Nat /\ p \in Seq(Char) /\ Base \in Nat
        /\ input # <<>> /\ Base < i
    <2>1. input # <<>>
      BY GreedyFacts
    <2>2. QED
      BY Zenon, <2>1, GreedyFacts
  <1>2. input[i + 1] \in Char /\ temp \in Seq(Char) /\ Len(temp) = Len(p) + 1
    BY <1>1, TempIsLonger
  <1>3. string_copy(p) = p
    BY <1>1, CopyFits DEF TypeOK
  <1>4. temp = p \o <<input[i + 1]>>
    BY <1>3 DEF temp
  <1>5. Base <= i
    BY <1>1
  <1>6. /\ Slice(input, i, i + 1) = <<input[i + 1]>>
        /\ Slice(input, Base, i) \o <<input[i + 1]>> = Slice(input, Base, i + 1)
    BY <1>1, <1>5, SliceGrows
  <1>7. p = Slice(input, Base, i)
    BY <1>1 DEF InGreedyRun
  <1>8. Len(temp) < INPUT_SIZE
    <2>1. PhraseGrowth
      BY DEF GreedyInv, GrowthInv
    <2>2. QED
      BY <1>1, <1>2, <2>1, SlowGrowthFits
  <1>9. string_copy(temp) = temp
    BY <1>2, <1>8, CopyFits
  <1>10. QED
    BY <1>1, <1>2, <1>4, <1>6, <1>7, <1>9

\* The code of p is the one textbook LZW takes next.
LEMMA CodeIsNext ==
  ASSUME GreedyInv, ShortEnough, epc = "encode",
         i < Len(input) => CodesOf(temp) = {},
         NEW c \in CodesOf(p)
  PROVE  GreedyStep(input, TABLE_SIZE, [at    |-> Base,
                                        dict  |-> DictOf(table, table_size),
                                        codes |-> output_code])
           = [at    |-> Base + Len(p),
              dict  |-> IF i < Len(input) /\ table_size < TABLE_SIZE
                          THEN Append(DictOf(table, table_size), temp)
                          ELSE DictOf(table, table_size),
              codes |-> Append(output_code, c)]
  <1> DEFINE rest == Slice(input, Base, Len(input))
             l == Len(p)
  <1>1. /\ InGreedyRun
        /\ input \in Seq(Char) /\ Len(input) \in Nat
        /\ i \in Nat /\ p \in Seq(Char) /\ l \in Nat
        /\ table_size \in Nat
        /\ table \in [0..(table_size - 1) -> Seq(Char)]
        /\ Base \in Nat /\ Base + l <= Len(input)
        /\ input = <<>> => l = 0 /\ Base = 0 /\ i >= Len(input)
        /\ input # <<>> => i <= Len(input) /\ Base + l = i /\ Base < i
    BY Zenon, GreedyFacts
  <1>2. c \in 0..(table_size - 1) /\ table[c] = p
    BY DEF CodesOf
  <1>3. Base <= Len(input)
    BY <1>1
  <1>4. rest \in Seq(Char) /\ Len(rest) = Len(input) - Base
    <2>1. Len(input) <= Len(input)
      BY <1>1
    <2>2. QED
      BY <1>1, <1>3, <2>1, StringSliceIs
  <1>5. \A n \in Nat : n <= Len(input) - Base => Slice(rest, 0, n) = Slice(input, Base, Base + n)
    <2> SUFFICES ASSUME NEW n \in Nat, n <= Len(input) - Base
                 PROVE  Slice(rest, 0, n) = Slice(input, Base, Base + n)
      OBVIOUS
    <2>1. PICK e \in Nat : e = Len(input) /\ e <= Len(input)
      BY <1>1
    <2>2. input \in Seq(Char) /\ Base \in Nat /\ Base <= e /\ e <= Len(input) /\ n <= e - Base
      BY Zenon, <1>1, <1>3, <2>1
    <2>3. Slice(Slice(input, Base, e), 0, n) = Slice(input, Base, Base + n)
      BY ONLY ZenonT(60), n \in Nat, e \in Nat, <2>2, SliceOfSlice
    <2>4. QED
      BY Zenon, <2>1, <2>3
  <1>6. l <= Len(rest) /\ p = Slice(rest, 0, l)
    <2>1. l <= Len(input) - Base /\ l <= Len(rest)
      BY <1>1, <1>4
    <2>2. Slice(rest, 0, l) = Slice(input, Base, Base + l)
      BY <1>1, <1>5, <2>1
    <2>3. CASE input = <<>>
      <3>1. p = <<>> /\ l = 0
        BY <1>1, <2>3 DEF InGreedyRun
      <3>2. Slice(rest, 0, 0) = <<>>
        BY <1>4, SliceOfNone
      <3>3. QED
        BY <2>1, <3>1, <3>2
    <2>4. CASE input # <<>>
      <3>1. p = Slice(input, Base, i) /\ Base + l = i
        BY <1>1, <2>4 DEF InGreedyRun
      <3>2. QED
        BY <2>1, <2>2, <3>1
    <2>5. QED
      BY <2>3, <2>4
  <1>7. l < Len(rest) <=> i < Len(input)
    <2>1. CASE input = <<>>
      <3>1. Len(input) = 0 /\ ~ (i < Len(input))
        BY <1>1, <2>1
      <3>2. QED
        BY <1>1, <1>4, <2>1, <3>1
    <2>2. CASE input # <<>>
      BY <1>1, <1>4, <2>2
    <2>3. QED
      BY <2>1, <2>2
  <1>8. ASSUME i < Len(input) PROVE Slice(rest, 0, l + 1) = temp
    <2>1. temp = Slice(input, Base, i + 1) /\ input # <<>>
      BY <1>8, TempIsSlice
    <2>2. l + 1 \in Nat /\ l + 1 <= Len(input) - Base /\ Base + (l + 1) = i + 1
      <3>1. /\ l \in Nat /\ Base \in Nat /\ i \in Nat /\ Len(input) \in Nat
            /\ Base + l = i /\ i < Len(input)
        BY Zenon, <1>1, <1>8, <2>1
      <3> HIDE DEF l
      <3>2. QED
        BY ONLY <3>1
    <2>3. Slice(rest, 0, l + 1) = Slice(input, Base, Base + (l + 1))
      BY <1>5, <2>2
    <2>4. QED
      BY <2>1, <2>2, <2>3
  <1> HIDE DEF rest
  <1>9. LongestCode(rest, DictOf(table, table_size)) = c
    <2>1. Len(table[c]) <= Len(rest) /\ table[c] = Slice(rest, 0, Len(table[c]))
      BY <1>2, <1>6
    <2>2. ASSUME Len(table[c]) < Len(rest), NEW d \in 0..(table_size - 1)
          PROVE  table[d] # Slice(rest, 0, Len(table[c]) + 1)
      <3>1. i < Len(input) /\ Slice(rest, 0, l + 1) = temp
        BY <1>2, <1>7, <1>8, <2>2
      <3>2. d \notin CodesOf(temp)
        BY <3>1
      <3>3. table[d] # temp
        BY <3>2 DEF CodesOf
      <3>4. QED
        BY <1>2, <3>1, <3>3
    <2>3. Distinct(table, table_size) /\ Closed(table, table_size)
      BY <1>1 DEF InGreedyRun
    <2>4. QED
      BY <1>1, <1>2, <1>4, <2>1, <2>2, <2>3, LongestIs
  <1> DEFINE D == DictOf(table, table_size)
             s == [at |-> Base, dict |-> D, codes |-> output_code]
  <1>10. Len(D) = table_size /\ D[c + 1] = p
    <2>1. Len(D) = table_size /\ \A d \in 0..(table_size - 1) : D[d + 1] = table[d]
      BY <1>1, DictIs
    <2>2. QED
      BY Zenon, <1>2, <2>1
  <1> HIDE DEF D
  <1>11. s.at = Base /\ s.dict = D /\ s.codes = output_code
    OBVIOUS
  <1> HIDE DEF s
  <1>12. ~ AllEncoded(input, s)
    <2>1. CASE input = <<>>
      BY <1>1, <1>11, <2>1 DEF InGreedyRun, AllEncoded
    <2>2. CASE input # <<>>
      <3>1. Base # Len(input)
        BY <1>1, <2>2
      <3>2. QED
        BY Zenon, <1>11, <3>1 DEF AllEncoded
    <2>3. QED
      BY <2>1, <2>2
  <1>13. GreedyStep(input, TABLE_SIZE, s)
           = [at    |-> Base + l,
              dict  |-> IF l < Len(rest) /\ table_size < TABLE_SIZE
                          THEN Append(D, Slice(rest, 0, l + 1)) ELSE D,
              codes |-> Append(output_code, c)]
    <2>1. rest = Slice(input, s.at, Len(input)) /\ c = LongestCode(rest, s.dict)
      BY Zenon, <1>9, <1>11 DEF rest, D
    <2>2. l = Len(s.dict[c + 1])
      BY Zenon, <1>10, <1>11
    <2> HIDE DEF l
    <2>3. GreedyStep(input, TABLE_SIZE, s)
           = [at    |-> s.at + l,
              dict  |-> IF l < Len(rest) /\ Len(s.dict) < TABLE_SIZE
                          THEN Append(s.dict, Slice(rest, 0, l + 1)) ELSE s.dict,
              codes |-> Append(s.codes, c)]
      BY ONLY <1>12, <2>1, <2>2, GreedyStepIs
    <2>4. QED
      BY Zenon, <1>10, <1>11, <2>3
  <1>14. CASE i < Len(input)
    <2>1. l < Len(rest) /\ Slice(rest, 0, l + 1) = temp
      BY Zenon, <1>7, <1>8, <1>14
    <2>2. QED
      BY Zenon, <1>14, <1>13, <2>1 DEF D, s
  <1>15. CASE ~ (i < Len(input))
    <2>1. ~ (l < Len(rest))
      BY Zenon, <1>7, <1>15
    <2>2. QED
      BY Zenon, <1>15, <1>13, <2>1 DEF D, s
  <1>16. QED
    BY <1>14, <1>15

LEMMA InitGreedy == EncodeInit => GreedyInv
  <1> SUFFICES ASSUME EncodeInit
               PROVE  GreedyInv
    OBVIOUS
  <1>1. GrowthInv /\ EncodesGreedily
    BY InitGrowth DEF EncodeInit, EncodesGreedily
  <1>2. /\ CHAR_MAX \in Nat /\ table = SingleChars /\ table_size = CHAR_MAX + 1
        /\ output_code = <<>> /\ i = 1
        /\ input \in Seq(Char) /\ Len(input) \in Nat
    BY EncoderAssumption DEF EncodeInit
  <1>3. Distinct(table, table_size) /\ Closed(table, table_size)
    BY Zenon, <1>2, FirstDictionary
  <1>4. \A c \in 0..CHAR_MAX : SingleChars[c] = IF c = 0 THEN <<>> ELSE <<c>>
    BY DEF SingleChars
  <1>5. p = IF input = <<>> THEN <<>> ELSE <<input[1]>>
    BY DEF EncodeInit
  <1>6. Base = 0
    BY <1>2, <1>5 DEF Base
  <1>7. CodesOf(p) # {}
    <2>1. \E c \in 0..CHAR_MAX : SingleChars[c] = p
      <3>1. CASE input = <<>>
        <4>1. 0 \in 0..CHAR_MAX
          BY <1>2
        <4>2. SingleChars[0] = <<>> /\ p = <<>>
          BY Zenon, <1>4, <1>5, <3>1, <4>1
        <4>3. QED
          BY Zenon, <4>1, <4>2
      <3>2. CASE input # <<>>
        <4>1. input[1] \in Char
          BY <1>2, <3>2
        <4>2. input[1] \in 0..CHAR_MAX /\ input[1] # 0
          BY <1>2, <4>1 DEF Char
        <4>3. SingleChars[input[1]] = <<input[1]>> /\ p = <<input[1]>>
          BY <1>4, <1>5, <3>2, <4>2
        <4>4. QED
          BY Zenon, <4>2, <4>3
      <3>3. QED
        BY <3>1, <3>2
    <2>2. 0..CHAR_MAX = 0..(table_size - 1)
      BY <1>2
    <2>3. QED
      BY Zenon, <1>2, <2>1, <2>2 DEF CodesOf
  <1>8. input # <<>> => p = Slice(input, Base, i)
    <2> SUFFICES ASSUME input # <<>>
                 PROVE  p = Slice(input, 0, 1)
      BY <1>2, <1>6
    <2>1. 0 < Len(input) /\ 0 <= 0 /\ 0 + 1 = 1
      BY <1>2
    <2>2. Slice(input, 0, 0 + 1) = <<input[0 + 1]>>
      BY <1>2, <2>1, SliceGrows
    <2>3. QED
      BY <1>5, <2>1, <2>2
  <1>9. GreedyRun(input, CHAR_MAX, TABLE_SIZE)[0]
          = [at |-> Base, dict |-> DictOf(table, table_size), codes |-> output_code]
    <2>1. PICK R : R = GreedyRun(input, CHAR_MAX, TABLE_SIZE)
      OBVIOUS
    <2>2. R[0] = NothingEncoded(CHAR_MAX)
      BY <1>2, <2>1, GreedyTable
    <2>3. QED
      BY Zenon, <1>2, <1>6, <2>1, <2>2, FirstDictionary
  <1>10. Len(output_code) = 0
    BY <1>2
  <1>11. InGreedyRun
    <2>1. Len(output_code) <= Base /\ (input = <<>> => p = <<>>)
      BY <1>5, <1>6, <1>10
    <2>2. QED
      BY Zenon, <1>2, <1>3, <1>7, <1>8, <1>9, <1>10, <2>1 DEF InGreedyRun
  <1>12. QED
    BY <1>1, <1>11 DEF GreedyInv

\* p grows by a character: the codes and the dictionary stay.
LEMMA ExtendFollows ==
  ASSUME GreedyInv, ShortEnough, Extend
  PROVE  InGreedyRun'
  <1>1. /\ epc = "encode" /\ i < Len(input) /\ CodesOf(temp) # {}
        /\ p' = string_copy(temp) /\ i' = i + 1
        /\ input' = input /\ table' = table /\ table_size' = table_size
        /\ output_code' = output_code
    BY DEF Extend
  <1>2. /\ input # <<>> /\ Len(temp) = Len(p) + 1
        /\ temp = Slice(input, Base, i + 1) /\ p' = temp
    BY <1>1, TempIsSlice
  <1>3. InGreedyRun /\ i \in Nat /\ Len(p) \in Nat
    BY <1>1, GreedyFacts
  <1>4. Base' = Base
    BY <1>1, <1>2, <1>3 DEF Base
  <1>5. CodesOf(p)' # {}
    BY <1>1, <1>2 DEF CodesOf
  <1>6. p' = Slice(input', Base', i')
    BY <1>1, <1>2, <1>4
  <1>7. QED
    BY Zenon, <1>1, <1>2, <1>3, <1>4, <1>5, <1>6 DEF InGreedyRun

\* The code of p is emitted and p with its next character enters the dictionary.
LEMMA EmitFollows ==
  ASSUME GreedyInv, ShortEnough, Emit
  PROVE  InGreedyRun'
  <1>1. /\ epc = "encode" /\ i < Len(input) /\ CodesOf(temp) = {}
        /\ EmitCode /\ AddPhrase
        /\ p' = <<input[i + 1]>> /\ i' = i + 1 /\ input' = input
    BY DEF Emit
  <1>2. /\ InGreedyRun /\ TypeOK
        /\ input \in Seq(Char) /\ Len(input) \in Nat
        /\ i \in Nat /\ p \in Seq(Char) /\ Len(p) \in Nat
        /\ table_size \in Nat /\ CHAR_MAX + 1 <= table_size
        /\ table \in [0..(table_size - 1) -> Seq(Char)]
        /\ Base \in Nat
    BY Zenon, <1>1, GreedyFacts
  <1>3. /\ input # <<>> /\ input[i + 1] \in Char
        /\ temp \in Seq(Char) /\ Len(temp) = Len(p) + 1
        /\ temp = Slice(input, Base, i + 1)
        /\ string_copy(temp) = temp
        /\ Slice(input, i, i + 1) = <<input[i + 1]>>
    BY Zenon, <1>1, TempIsSlice
  <1>4. Base + Len(p) = i /\ Base < i /\ Len(p) # 0
    BY Zenon, <1>1, <1>3, GreedyFacts
  <1>5. PICK c \in CodesOf(p) : output_code' = Append(output_code, c)
    BY Zenon, <1>1, <1>2 DEF EmitCode, InGreedyRun
  <1>6. Base' = i /\ Len(p') = 1
    BY <1>1, <1>2, <1>3 DEF Base
  <1>7. /\ Len(output_code) \in Nat /\ Len(output_code') = Len(output_code) + 1
        /\ Len(output_code') \in 1..(Len(input) + 1)
        /\ Len(output_code') <= Base'
        /\ Len(output_code') - 1 = Len(output_code)
    <2>1. output_code \in Seq(0..(table_size - 1)) /\ c \in 0..(table_size - 1)
      BY <1>2 DEF TypeOK, CodesOf
    <2>2. Len(output_code) \in Nat /\ Len(output_code') = Len(output_code) + 1
      BY <1>5, <2>1
    <2>3. Len(output_code) <= Base
      BY <1>2 DEF InGreedyRun
    <2>4. QED
      BY <1>1, <1>2, <1>4, <1>6, <2>2, <2>3
  <1> DEFINE D == DictOf(table, table_size)
             grown == IF table_size < TABLE_SIZE THEN Append(D, temp) ELSE D
             form == Distinct(table, table_size) /\ Closed(table, table_size)
  <1>8. /\ DictOf(table', table_size') = grown
        /\ form'
        /\ \A d \in 0..(table_size - 1) : d \in 0..(table_size' - 1) /\ table'[d] = table[d]
    <2>1. CASE table_size < TABLE_SIZE
      <3>1. /\ table' = [K \in 0..table_size |-> IF K = table_size THEN temp ELSE table[K]]
            /\ table_size' = table_size + 1
        BY Zenon, <1>1, <1>3, <2>1 DEF AddPhrase
      <3>2. DictOf(table', table_size') = Append(D, temp)
        BY ZenonT(60), <1>2, <1>3, <3>1, DictAppend
      <3>3. \A d \in 0..(table_size - 1) : table[d] # temp
        BY <1>1 DEF CodesOf
      <3>4. ASSUME NEW n \in 0..(Len(temp) - 1)
            PROVE  \E d \in 0..(table_size - 1) : table[d] = Slice(temp, 0, n)
        <4>1. n \in Nat /\ n \in 0..Len(p)
          BY <1>2, <1>3
        <4>2. PICK e \in Nat : e = i + 1
          BY <1>2
        <4>3. /\ n <= i - Base /\ Base <= i /\ i <= Len(input)
              /\ n <= e - Base /\ Base <= e /\ e <= Len(input)
          BY <1>1, <1>2, <1>4, <4>1, <4>2
        <4>4. Slice(p, 0, n) = Slice(input, Base, Base + n)
          <5>1. p = Slice(input, Base, i)
            BY <1>2, <1>3 DEF InGreedyRun
          <5>2. /\ input \in Seq(Char) /\ Base \in Nat /\ i \in Nat /\ n \in Nat
                /\ Base <= i /\ i <= Len(input) /\ n <= i - Base
            BY Zenon, <1>2, <4>1, <4>3
          <5>3. Slice(Slice(input, Base, i), 0, n) = Slice(input, Base, Base + n)
            BY ONLY ZenonT(60), <5>2, SliceOfSlice
          <5>4. QED
            BY Zenon, <5>1, <5>3
        <4>5. Slice(temp, 0, n) = Slice(input, Base, Base + n)
          <5>1. temp = Slice(input, Base, e)
            BY Zenon, <1>3, <4>2
          <5>2. /\ input \in Seq(Char) /\ Base \in Nat /\ e \in Nat /\ n \in Nat
                /\ Base <= e /\ e <= Len(input) /\ n <= e - Base
            BY Zenon, <1>2, <4>1, <4>3
          <5>3. Slice(Slice(input, Base, e), 0, n) = Slice(input, Base, Base + n)
            BY ONLY ZenonT(60), <5>2, SliceOfSlice
          <5>4. QED
            BY Zenon, <5>1, <5>3
        <4>6. c \in 0..(table_size - 1) /\ table[c] = p
          BY DEF CodesOf
        <4>7. PICK d \in 0..(table_size - 1) : table[d] = Slice(p, 0, n)
          BY Zenon, <1>2, <4>1, <4>6 DEF InGreedyRun, Closed
        <4>8. QED
          BY Zenon, <4>4, <4>5, <4>7
      <3>5. form
        BY Zenon, <1>2 DEF InGreedyRun
      <3>6. form'
        BY <1>2, <1>3, <3>1, <3>3, <3>4, <3>5, NewEntryKeeps
      <3>7. \A d \in 0..(table_size - 1) : d \in 0..(table_size' - 1) /\ table'[d] = table[d]
        BY <1>2, <3>1
      <3>8. QED
        BY Zenon, <2>1, <3>2, <3>6, <3>7
    <2>2. CASE ~ (table_size < TABLE_SIZE)
      <3>1. table' = table /\ table_size' = table_size
        BY Zenon, <1>1, <2>2 DEF AddPhrase
      <3>2. form
        BY Zenon, <1>2 DEF InGreedyRun
      <3>3. QED
        BY Zenon, <2>2, <3>1, <3>2
    <2>3. QED
      BY Zenon, <2>1, <2>2
  <1>9. \A d \in 0..CHAR_MAX : d \in 0..(table_size' - 1) /\ table'[d] = SingleChars[d]
    <2>1. 0..CHAR_MAX \subseteq 0..(table_size - 1)
      BY <1>2, EncoderAssumption
    <2>2. QED
      BY Zenon, <1>2, <1>8, <2>1 DEF InGreedyRun
  <1>10. CodesOf(p)' # {}
    <2>1. PICK d \in 0..CHAR_MAX : SingleChars[d] = p'
      <3>1. input[i + 1] \in 0..CHAR_MAX /\ input[i + 1] # 0
        BY <1>3, EncoderAssumption DEF Char
      <3>2. SingleChars[input[i + 1]] = <<input[i + 1]>>
        BY <3>1 DEF SingleChars
      <3>3. QED
        BY Zenon, <1>1, <3>1, <3>2
    <2>2. QED
      BY Zenon, <1>9, <2>1 DEF CodesOf
  <1>11. p' = Slice(input', Base', i') /\ input' # <<>>
    BY Zenon, <1>1, <1>3, <1>6
  <1>12. GreedyRun(input', CHAR_MAX, TABLE_SIZE)[Len(output_code')]
           = [at |-> Base', dict |-> DictOf(table', table_size'), codes |-> output_code']
    <2> DEFINE n == Len(output_code)
    <2>1. PICK R : R = GreedyRun(input, CHAR_MAX, TABLE_SIZE)
      OBVIOUS
    <2>2. R[Len(output_code')] = GreedyStep(input, TABLE_SIZE, R[Len(output_code') - 1])
      <3>1. \A m \in 1..(Len(input) + 1) : R[m] = GreedyStep(input, TABLE_SIZE, R[m - 1])
        BY <1>2, <2>1, GreedyTable
      <3>2. QED
        BY Zenon, <1>7, <3>1
    <2>3. R[Len(output_code')] = GreedyStep(input, TABLE_SIZE, R[n])
      BY Zenon, <1>7, <2>2
    <2>4. R[n] = [at |-> Base, dict |-> D, codes |-> output_code]
      BY Zenon, <1>2, <2>1 DEF InGreedyRun
    <2>5. GreedyStep(input, TABLE_SIZE, [at |-> Base, dict |-> D, codes |-> output_code])
            = [at |-> Base + Len(p),
               dict |-> IF i < Len(input) /\ table_size < TABLE_SIZE
                          THEN Append(D, temp) ELSE D,
               codes |-> Append(output_code, c)]
      BY <1>1, CodeIsNext
    <2>6. QED
      BY Zenon, <1>1, <1>4, <1>5, <1>6, <1>8, <2>1, <2>3, <2>4, <2>5
  <1>13. QED
    BY Zenon, <1>7, <1>8, <1>9, <1>10, <1>11, <1>12, <1>1, <1>3 DEF InGreedyRun

\* The code of the last phrase ends both.
LEMMA LastCodeAgrees ==
  ASSUME GreedyInv, ShortEnough, EmitLast
  PROVE  output_code' = LzwCodes(input, CHAR_MAX, TABLE_SIZE)
  <1> DEFINE n == Len(output_code)
             D == DictOf(table, table_size)
  <1>1. epc = "encode" /\ ~ (i < Len(input)) /\ EmitCode
    <2>1. epc = "encode" /\ i >= Len(input) /\ EmitCode
      BY DEF EmitLast
    <2>2. i \in Nat /\ Len(input) \in Nat
      BY <2>1, GreedyFacts
    <2>3. QED
      BY <2>1, <2>2
  <1>2. /\ InGreedyRun /\ TypeOK
        /\ input \in Seq(Char) /\ Len(input) \in Nat
        /\ i \in Nat /\ Len(p) \in Nat /\ Base \in Nat
        /\ input = <<>> => Len(p) = 0 /\ Base = 0
        /\ input # <<>> => i <= Len(input) /\ Base + Len(p) = i /\ Base < i
    BY Zenon, <1>1, GreedyFacts
  <1>3. PICK c \in CodesOf(p) : output_code' = Append(output_code, c)
    BY Zenon, <1>1, <1>2 DEF EmitCode, InGreedyRun
  <1>4. n \in Nat /\ n + 1 \in Nat /\ n + 1 - 1 = n /\ output_code' # <<>>
    <2>1. output_code \in Seq(0..(table_size - 1)) /\ c \in 0..(table_size - 1)
      BY <1>2 DEF TypeOK, CodesOf
    <2>2. Len(output_code) \in Nat /\ Len(output_code') = Len(output_code) + 1
      BY <1>3, <2>1
    <2>3. QED
      BY <2>2
  <1>5. Base + Len(p) = Len(input)
    <2>1. CASE input = <<>>
      BY <1>2, <2>1
    <2>2. CASE input # <<>>
      BY <1>1, <1>2, <2>2
    <2>3. QED
      BY <2>1, <2>2
  <1>6. n + 1 \in 1..(Len(input) + 1) /\ n + 1 \in 0..(Len(input) + 1)
    <2>1. n <= Base
      BY <1>2 DEF InGreedyRun
    <2>2. QED
      BY <1>2, <1>4, <1>5, <2>1
  <1> HIDE DEF n
  <1>7. PICK N : N = n + 1
    OBVIOUS
  <1>8. N \in 1..(Len(input) + 1) /\ N \in 0..(Len(input) + 1) /\ N - 1 = n
    BY <1>4, <1>6, <1>7
  <1>9. PICK R : R = GreedyRun(input, CHAR_MAX, TABLE_SIZE)
    OBVIOUS
  <1>10. R[N] = GreedyStep(input, TABLE_SIZE, R[n])
    <2>1. \A m \in 1..(Len(input) + 1) : R[m] = GreedyStep(input, TABLE_SIZE, R[m - 1])
      BY <1>2, <1>9, GreedyTable
    <2>2. R[N] = GreedyStep(input, TABLE_SIZE, R[N - 1])
      BY Zenon, <1>8, <2>1
    <2>3. QED
      BY Zenon, <1>8, <2>2
  <1>11. R[n] = [at |-> Base, dict |-> D, codes |-> output_code]
    BY Zenon, <1>2, <1>9 DEF InGreedyRun, n
  <1>12. GreedyStep(input, TABLE_SIZE, [at |-> Base, dict |-> D, codes |-> output_code])
           = [at |-> Base + Len(p),
              dict |-> IF i < Len(input) /\ table_size < TABLE_SIZE
                         THEN Append(D, temp) ELSE D,
              codes |-> Append(output_code, c)]
    BY <1>1, CodeIsNext
  <1>13. R[N].at = Len(input) /\ R[N].codes = output_code'
    <2>1. R[N] = [at |-> Base + Len(p),
                  dict |-> IF i < Len(input) /\ table_size < TABLE_SIZE
                             THEN Append(D, temp) ELSE D,
                  codes |-> Append(output_code, c)]
      BY Zenon, <1>10, <1>11, <1>12
    <2>2. R[N].at = Base + Len(p) /\ R[N].codes = Append(output_code, c)
      BY ONLY <2>1
    <2>3. QED
      BY Zenon, <1>3, <1>5, <2>2
  <1>14. AllEncoded(input, R[N])
    BY Zenon, <1>4, <1>13 DEF AllEncoded
  <1>15. LzwCodes(input, CHAR_MAX, TABLE_SIZE) = R[N].codes
    <2>1. Len(input) \in Nat
      BY <1>2
    <2>2. QED
      BY ONLY <1>8, <1>9, <1>14, <2>1, RunStays
  <1>16. QED
    BY <1>13, <1>15

LEMMA NextGreedy == GreedyInv /\ [EncodeNext]_evars => GreedyInv'
  <1> SUFFICES ASSUME GreedyInv, [EncodeNext]_evars
               PROVE  GreedyInv'
    OBVIOUS
  <1>1. GrowthInv'
    BY NextGrowth DEF GreedyInv
  <1>2. input' = input /\ ShortEnough' = ShortEnough
    BY DEF EncodeNext, Extend, Emit, EmitLast, evars, ShortEnough
  <1>3. CASE Extend
    <2>1. epc' = "encode" /\ (ShortEnough => InGreedyRun')
      BY <1>3, ExtendFollows DEF Extend
    <2>2. QED
      BY <1>1, <1>2, <2>1 DEF GreedyInv, EncodesGreedily
  <1>4. CASE Emit
    <2>1. epc' = "encode" /\ (ShortEnough => InGreedyRun')
      BY <1>4, EmitFollows DEF Emit
    <2>2. QED
      BY <1>1, <1>2, <2>1 DEF GreedyInv, EncodesGreedily
  <1>5. CASE EmitLast
    <2>1. /\ epc' = "encoded"
          /\ ShortEnough => output_code' = LzwCodes(input, CHAR_MAX, TABLE_SIZE)
      BY <1>5, LastCodeAgrees DEF EmitLast
    <2>2. QED
      BY <1>1, <1>2, <2>1 DEF GreedyInv, EncodesGreedily
  <1>6. CASE UNCHANGED evars
    <2>1. /\ input' = input /\ i' = i /\ p' = p /\ table' = table /\ epc' = epc
          /\ table_size' = table_size /\ output_code' = output_code
      BY <1>6 DEF evars
    <2>2. Base' = Base /\ CodesOf(p)' = CodesOf(p)
      BY <2>1 DEF Base, CodesOf
    <2>3. InGreedyRun => InGreedyRun'
      BY Zenon, <2>1, <2>2 DEF InGreedyRun
    <2>4. EncodesGreedily'
      BY Zenon, <1>2, <2>1 DEF GreedyInv, EncodesGreedily
    <2>5. QED
      BY Zenon, <1>1, <1>2, <2>1, <2>3, <2>4 DEF GreedyInv
  <1>7. QED
    BY <1>3, <1>4, <1>5, <1>6 DEF EncodeNext

\* For every input, alphabet and dictionary size, with phrases that fit their
\* arrays, the kernel emits the codes of textbook LZW: looking for the phrase one
\* character at a time finds the longest entry, and the first code found for it
\* is the only one (lzw_hls.cpp:49-99).
THEOREM CodesAreGreedy == Spec => []EncodesGreedily
  <1> DEFINE Inv == IF InKernel THEN GreedyInv ELSE EncodesGreedily
  <1>1. Init => Inv
    <2>1. KernelInit => Inv
      BY InitGreedy DEF KernelInit, EncodeInit, InKernel
    <2>2. DecodingInit => Inv
      BY DEF DecodingInit, InKernel, EncodesGreedily
    <2>3. QED
      BY <2>1, <2>2 DEF Init
  <1>2. Inv /\ [Next]_lzw_vars => Inv'
    <2> SUFFICES ASSUME Inv, [Next]_lzw_vars
                 PROVE  Inv'
      OBVIOUS
    <2>1. [EncodeNext]_evars
      BY DEF Next, Encode, CallDecoding, Decode, lzw_vars
    <2>2. CASE InKernel
      <3>1. GreedyInv'
        BY <2>1, <2>2, NextGreedy
      <3>2. EncodesGreedily'
        BY <3>1 DEF GreedyInv
      <3>3. QED
        BY <3>1, <3>2
    <2>3. CASE ~ InKernel
      <3>1. epc' = "unused"
        BY <2>1, <2>3 DEF InKernel, EncodeNext, Extend, Emit, EmitLast, evars
      <3>2. QED
        BY <3>1 DEF InKernel, EncodesGreedily
    <2>4. QED
      BY <2>2, <2>3
  <1>3. Inv => EncodesGreedily
    BY DEF GreedyInv
  <1>4. QED
    BY <1>1, <1>2, <1>3, PTL DEF Spec
=============================================================================
