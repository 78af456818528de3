----------------------------- MODULE PartialKeys -----------------------------
(***************************************************************************)
(* How a node is laid out in memory.  The node keeps a mask that picks its *)
(* discriminative bits out of the key, read as one little-endian word, and *)
(* for every entry a partial key of as many bits as the mask has ones.     *)
(* Bits inside a byte keep their significance while bytes are reversed, so *)
(* partial keys are not in key order.  Every operation recodes partial     *)
(* keys with the instructions pext and pdep; HotNode says what it means.   *)
(*                                                                         *)
(* A word is the set of its one bits, 0 the least significant.  A layout   *)
(* is a record of mostSignificant (a bit of the key), mask and entries.    *)
(* Keys are one word, so the mask starts at byte 0 of the key.             *)
(***************************************************************************)
EXTENDS HotTrie

CONSTANT ByteWidth   \* bits of a byte, 8 in the code

ASSUME ByteWidthAssumption == ByteWidth \in Nat \ {0}

-----------------------------------------------------------------------------
(* Words.                                                                  *)

\* Where a bit of the key is in the word, and back.
Position(bit) == (bit \div ByteWidth) * ByteWidth + ByteWidth - 1 - (bit % ByteWidth)
Word(bits) == {Position(b) : b \in bits}

Rank(position, mask) == Cardinality({p \in mask : p < position})
Pext(word, mask) == {Rank(p, mask) : p \in word \cap mask}
Pdep(word, mask) == {p \in mask : Rank(p, mask) \in word}

AllMaskBits(mask) == 0 .. Cardinality(mask) - 1

Layout(mapping, entries) ==
  [mostSignificant |-> mapping.mostSignificant, mask |-> mapping.mask, entries |-> entries]

\* The layout that represents a node.
LayoutOf(node) ==
  LET mask == Word(DiscriminativeBits(node))
  IN  Layout([mostSignificant |-> MostSignificantBit(node), mask |-> mask],
             [i \in DOMAIN node.keys |-> Pext(Word(node.keys[i]), mask)])

-----------------------------------------------------------------------------
(* Reading.                                                                *)

ExtractMask(layout, word) == Pext(word, layout.mask)

SearchPartialKeys(layout, partialKey) ==
  Max({i \in DOMAIN layout.entries : layout.entries[i] \subseteq partialKey})

\* A search with wildcards squeezes them out of the key and of the entries.  With
\* no bit left, extract_mask is zero, which means a search without wildcards.
SearchPartialKeysWithMask(layout, key, mask) ==
  LET extractMask == Pext(layout.mask \ Word(mask), layout.mask)
      partialKey  == Pext(ExtractMask(layout, Word(key)), extractMask)
  IN  IF extractMask = {} THEN SearchPartialKeys(layout, partialKey)
      ELSE Max({i \in DOMAIN layout.entries : Pext(layout.entries[i], extractMask) \subseteq partialKey})

\* The bits in front of the given one: all of the lower bytes of the word, and the
\* upper end of its own byte.
GetPrefixBitsMask(layout, bit) ==
  ExtractMask(layout, {p \in layout.mask :
    \/ p \div ByteWidth < bit \div ByteWidth
    \/ p \div ByteWidth = bit \div ByteWidth /\ p % ByteWidth >= ByteWidth - (bit % ByteWidth)})

GetAffectedSubtreeMask(layout, prefixBits, expected) ==
  {i \in DOMAIN layout.entries : layout.entries[i] \cap prefixBits = expected}

GetMaskForHighestBit(layout) == ExtractMask(layout, {Position(layout.mostSignificant)})

GetMaskForLargerEntries(layout) ==
  {i \in DOMAIN layout.entries : GetMaskForHighestBit(layout) \subseteq layout.entries[i]}

RelevantBits(layout, first, number) ==
  UNION {layout.entries[i] \ layout.entries[i - 1] : i \in first + 1 .. first + number - 1}

InsertInformation(layout, entry, newBit) ==
  LET prefixBits == GetPrefixBitsMask(layout, newBit.bit)
      prefix     == layout.entries[entry] \cap prefixBits
      affected   == GetAffectedSubtreeMask(layout, prefixBits, prefix)
  IN  [prefix |-> prefix, first |-> Min(affected), number |-> Cardinality(affected), key |-> newBit]

-----------------------------------------------------------------------------
(* New mappings and the recoding of partial keys into them.                *)

InsertBit(mapping, bit) ==
  [mostSignificant |-> Min({mapping.mostSignificant, bit}), mask |-> mapping.mask \cup {Position(bit)}]

Extract(mapping, bitsUsed) ==
  LET mask == Pdep(bitsUsed, mapping.mask)
  IN  [mostSignificant |-> Min({Position(p) : p \in mask}), mask |-> mask]

\* Mutant: the bit is taken for a new one even if the source had it already.
GetConversionInformationForNewBit(target, sourceBits, bit) ==
  LET additional == ExtractMask(target, {Position(bit)})
  IN  [additional |-> additional, conversion |-> AllMaskBits(target.mask) \ additional]

\* The new bit in the target's partial keys, and where the others go.
GetConversionInformation(target, sourceBits, bit) ==
  LET all        == AllMaskBits(target.mask)
      additional == ExtractMask(target, {Position(bit)})
  IN  [additional |-> additional,
       conversion |-> IF sourceBits = all THEN all ELSE all \ additional]

FirstIsZero(entries) == [entries EXCEPT ![1] = {}]

\* The entries of the range and a new one beside the affected subtree.
AddToRange(layout, target, first, number, compression, info) ==
  LET conversion == GetConversionInformation(target, Pext(compression, compression), info.key.bit)
      recoded(partialKey) == Pdep(Pext(partialKey, compression), conversion.conversion)
      last  == info.first + info.number - 1
      added == IF info.key.value THEN conversion.additional ELSE {}
      old(i) == recoded(layout.entries[i])
                  \cup (IF i \in info.first .. last THEN conversion.additional \ added ELSE {})
      newIndex == IF info.key.value THEN last + 1 ELSE info.first
  IN  Layout(target, FirstIsZero(
        [t \in 1 .. newIndex - first |-> old(first + t - 1)]
          \o << recoded(info.prefix) \cup added >>
          \o [t \in 1 .. first + number - newIndex |-> old(newIndex + t - 1)]))

AddEntryToLayout(layout, info) ==
  AddToRange(layout, InsertBit(layout, info.key.bit), 1, Len(layout.entries),
             AllMaskBits(layout.mask), info)

CompressRange(layout, first, number) ==
  LET relevant == RelevantBits(layout, first, number)
  IN  Layout(Extract(layout, relevant),
             FirstIsZero([t \in 1 .. number |-> Pext(layout.entries[first + t - 1], relevant)]))

CompressRangeAndAdd(layout, first, number, info) ==
  LET relevant == RelevantBits(layout, first, number)
  IN  AddToRange(layout, InsertBit(Extract(layout, relevant), info.key.bit),
                 first, number, relevant, info)

-----------------------------------------------------------------------------
(* Removing an entry.                                                      *)

\* Partial keys are compared as numbers: the one with the highest bit is greater.
AtLeast(a, b) == a = b \/ Max((a \ b) \cup (b \ a)) \in a

IsRightSide(layout, index) ==
  /\ index # 1
  /\ \/ index = Len(layout.entries)
     \/ AtLeast(layout.entries[index - 1] \cap layout.entries[index],
                layout.entries[index] \cap layout.entries[index + 1])

\* The BiNode of the entry; its bit is the least significant of the key among
\* those the two sides differ in.
DeletionInformation(layout, index) ==
  LET isRight    == IsRightSide(layout, index)
      lastLeft   == layout.entries[IF isRight THEN index - 1 ELSE index]
      firstRight == layout.entries[IF isRight THEN index ELSE index + 1]
      bitMask    == firstRight \ lastLeft
      bit        == Max({Position(p) : p \in Pdep(bitMask, layout.mask)})
      affected   == GetAffectedSubtreeMask(layout, GetPrefixBitsMask(layout, bit),
                                           lastLeft \cap firstRight)
      firstRange == IF isRight THEN index - 1 ELSE index
  IN  [index |-> index, bitMask |-> bitMask, bit |-> bit,
       first |-> Min(affected), number |-> Cardinality(affected),
       compression |-> RelevantBits(layout, 1, firstRange) \cup
                         RelevantBits(layout, firstRange + 1, Len(layout.entries) - firstRange)]

\* The other entries, recoded, with the bit of the BiNode cleared in its range.
CopyAndRemove(layout, info, recoding) ==
  LET recoded(partialKey) == Pdep(Pext(partialKey, info.compression), recoding)
      unused(t) == IF t \in info.first .. info.first + info.number - 2
                   THEN recoded(info.bitMask) ELSE {}
  IN  [t \in 1 .. Len(layout.entries) - 1 |->
         recoded(layout.entries[IF t < info.index THEN t ELSE t + 1]) \ unused(t)]

RemoveFromLayout(layout, info) ==
  LET target == Extract(layout, info.compression)
  IN  Layout(target, FirstIsZero(CopyAndRemove(layout, info, AllMaskBits(target.mask))))

\* The neighbour of the node in its parent comes in as the first or last entry.
RemoveAndAddToLayout(layout, info, newBit) ==
  LET target  == InsertBit(Extract(layout, info.compression), newBit.bit)
      kept    == Pext(info.compression, info.compression)
      rest    == CopyAndRemove(layout, info,
                               GetConversionInformation(target, kept, newBit.bit).conversion)
      entries == IF newBit.value THEN rest \o << {} >> ELSE << {} >> \o rest
      isRight(t) == IF newBit.value THEN t = Len(entries) ELSE t > 1
  IN  Layout(target, FirstIsZero([t \in DOMAIN entries |->
        IF isRight(t) THEN entries[t] \cup GetMaskForHighestBit(target) ELSE entries[t]]))

\* Two neighbours in one layout: the bits each side needs and the bit above them.
MergeLayouts(left, right, bit, info, inRight) ==
  LET leftMapping  == IF inRight THEN left ELSE Extract(left, info.compression)
      rightMapping == IF inRight THEN Extract(right, info.compression) ELSE right
      target == [mostSignificant |-> Min({bit, leftMapping.mostSignificant, rightMapping.mostSignificant}),
                 mask |-> leftMapping.mask \cup rightMapping.mask \cup {Position(bit)}]
      leftRecoding  == ExtractMask(target, leftMapping.mask)
      rightRecoding == ExtractMask(target, rightMapping.mask)
      copyAndRecode(side, recoding) == [i \in DOMAIN side.entries |-> Pdep(side.entries[i], recoding)]
      leftEntries  == IF inRight THEN copyAndRecode(left, leftRecoding)
                      ELSE CopyAndRemove(left, info, leftRecoding)
      rightEntries == IF inRight THEN CopyAndRemove(right, info, rightRecoding)
                      ELSE copyAndRecode(right, rightRecoding)
  IN  Layout(target, FirstIsZero(leftEntries
        \o [i \in DOMAIN rightEntries |-> rightEntries[i] \cup GetMaskForHighestBit(target)]))

=============================================================================
