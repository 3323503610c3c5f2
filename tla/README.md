# Verification of version_weaver

TLA+ models of version_weaver, a C++ library for semantic versions: TLC
configurations that check them on small instances, and proofs that TLAPS checks
for every instance.  Paths are those of the repository below `src/`, so that
`src/src/version_weaver.cpp` is the library and `src/include/version_weaver.h`
its header.

## 1. The system

The library is a set of functions on strings.  It keeps no state between calls,
starts no thread and persists nothing.  What makes it hard is inside its calls
(nested loops with iterators, a candidate and bounds that live for one turn of a
loop, several parsers of numbers with different limits) and between them (what
one function returns is what another reads).

| Component | Where | State | Operations | What makes it correct |
|---|---|---|---|---|
| minimum() | cpp 253-368 | iterators, bounds and candidate of a sub-range, best candidate | split at `\|\|`, collect constraints, fold the lower bounds, check the upper bounds, keep the least | the answer meets the range, nothing lower does, the order of the parts does not matter, it ends |
| how it reads its range | cpp 254-285, 297-307, 328-334 | the iterators of two regular expressions | test for `*` and `A - B`, split at `\|\|`, trim, find constraints | no constraint is lost, white space does not matter, it reaches the end |
| its helpers | cpp 12-242 | none | split, compareSemVer, coerce, incrementVersion, satisfies_constraint, caret and tilde bounds | compareSemVer is an order; a bound lies above its version; each result is a text the next function can read |
| decrementVersion() | cpp 129-161 | none | decrement | its result is accepted by the others, and is lower |
| parse(), validate(), clean() | cpp 10, 418-518 | the unread rest, the fields read | take a field, reject, trim, strip | it accepts what the grammar derives and returns that version; no character is lost |
| struct version | header 38-78 | five string views | operator std::string | writing is the inverse of parsing |
| operator<=> | header 134-203 | none | compare | an order, by the values of the numbers, that ignores the build |
| inc(), increment(), operator+ | cpp 370-416, header 112-129 | none | next major, minor, patch | the next version is higher and skips nothing |
| satisfies() | header 27 | - | - | declared, defined nowhere |
| benchmark, Apple events, tests, CI | benchmarks/, tests/, .github/ | counters | - | not part of the library |

How they interact: minimum() calls every helper, and through incrementVersion and
the bounds it compares texts it has itself produced.  clean() and increment() call
parse().  inc() writes a text that its caller parses again.  compareSemVer and
operator<=> are two orders that know nothing of each other: they agree on numbers,
but compareSemVer puts `1.0.0` before `1.0.0-beta`, operator<=> after it.

Behaviours that are hard to test, each with its line and with the properties
that cover it, are the `hazards` of PROJECT.json.

## 2. The modules

### minimum()

`VersionText` - texts and the helpers.  A text is the sequence of pieces between
its separators: `nums` before the first `-`, `pre` after it.  A piece is what
compareSemVer can tell of it: a numeral (value and leading zeros) or a tag, by
its rank in the order of strings.  `"1.2.3-beta.0"` is `nums = <<1, 2, 3>>`,
`pre = <<Beta, 0>>`.  The helpers are operators with the names of the functions.
`MachineInts` has the largest int, `IntMax`, and the sum that wraps at it; `LLMax` is
the largest long long.

`VersionRange` - an argument as the regular expressions take it apart: `A - B`, or
sub-ranges with a text and a sequence of constraints; and the bounds that one
constraint adds.  The two tests that precede the loops, `""` and a single `*`, are
the ranges with no sub-range and with one star.

`Minimum` - the call.  `sub` is `subIt`, `it` the iterator of the inner loop that
`pc` names, `lower`, `upper`, `candidate` and `best` are the variables of the same
names.  Each turn of a loop is an action: `EnterSubRange`, `CollectConstraint`,
`RaiseCandidate`, `PassUpper`, `FailUpper`, `Commit`, ...  `Raise` is the exception
of whichever statement `pc` stands at, `ReadPastEnd` the read of `parts[1]` that
is not there.  `offered` is a history variable.

`RangeMinimum` - the abstract promise, about every argument.  Sub-ranges and
constraints are sets, in no order, there is no loop and no order of evaluation:
each sub-range offers a greatest of its lower bounds if that meets its upper
bounds, the answer is a least one of the offers, and a call fails only for a number
at or above the largest int or for a `~` whose bound cannot be read.  Where the order
in the string does decide, the promise leaves the choice open: which of several
greatest or least texts it is; whether `<0.0.0-beta` turns `0.0.0` into `0.0.0-0`
before or after the other upper bounds are looked at; and that a star behind
another offer of `0.0.0` or less is taken for the text `*`.  `Minimum!KeepsPromise` is
the refinement, with `answer` mapped to `best` once the call has returned.

`StringText` - the helpers character by character, as the code reads and writes
strings: `SplitString`, `CompareStrings`, `CoerceString`, `IncrementString`, `DecrementString`,
`CaretString`, `TildeString`.  `TextOf` cuts a string into the pieces that VersionText
knows of it, and is how the two are compared.

`StringMinimum` - a call of minimum() with a string.  It extends `Minimum` by the
variables of the reader: `rest` is what the iterator over `||` has not passed,
`current` is `subRange`, `unread` is what the iterator over constraints has not
passed, `found` are its matches so far.  `ReadAtOnce` and `ReadHyphen` are the tests
before the loop, `TakeUpToBars` and `TakeLast` a step of `subIt` with the trimming
that follows it, `NextConstraint` a step of `it`, `EndSubRange` the test for a text
without operators.  When all is read, `range` is the argument that `Minimum`
computes with; the code reads and computes one sub-range at a time, but nothing of
what it computes changes what it reads.

### Versions character by character

`VersionString` - characters, trimming, the struct, operator std::string.
`VersionGrammar` - what parse() promises, without order of evaluation: the versions
whose text is the string.  `Parse` - the calls of parse() and clean(), one action per
field taken from the input; `rest` is `input_copy` of the one and `range` of the
other.  A test that fails is the action `Reject`.

`Precedence` - operator<=>.  `Ordering` - a caller that walks along a list and
compares neighbours, on which the laws of an order are stated.  `TwoOrders` adds
compareSemVer on the texts of the same neighbours, and says where the two orders
agree and where they do not.

`Numbers` - from_chars and to_string (the C++ library, modelled from their use).
`ReleaseLine` - increment(): parse a text, inc() the version, write it, and so on;
`line` is the history of the versions.

`Successor` - a caller that applies incrementVersion(), decrementVersion() and
coerce() in any order, each to what the last call returned, with the operators of
`VersionText`.  `StringWalk` - the same caller on strings, with the functions of
`StringText`; its `text` is `TextOf(string)`, and `WalksOnPieces` says that the walk on
strings implements the walk of `Successor`.

Every `MC*` module gives one of these its arguments for TLC.

`VersionTextProofs`, `MinimumProofs`, `StringMinimumProofs`, `SuccessorProofs`,
`ParseProofs`, `OrderingProofs` and `ReleaseLineProofs` hold the theorems, see
section 5, and `VersionStringProofs` the lemmas about strings, numbers, the order of
versions and their grammar that they share; `VersionTextProofs` also has those about
cutting a string at its separators.

Definitions named `Slip...` are what-if variants of the definition that follows
them: a plausible mistake in that line of code.  No specification uses them; put
in place of the definition each makes one of the properties fail, which shows that
the property says something about that line.

## 3. What is checked

| Run | Bounds | What it shows |
|---|---|---|
| minimum | one sub-range, up to 2 of 66 constraints, or up to 3 of 15 around `<0.0.0-beta`; lists of up to 3 of 13 sub-ranges; numerals at IntMax, LLMax and LLMax + 1; IntMax 3, LLMax 5 | types, and iterators within their vectors; the answer is a least one of what was offered and meets a sub-range, no release below does, `^v` and `~v` admit v, no upper bound is forgotten; refinement of RangeMinimum with the failures it names; every call ends |
| minimum_strings | all strings of up to 4 of 8 characters; up to 3 sub-ranges of up to 3 constraints, written with and without white space; the 43 calls of the test of minimum(); IntMax 17, LLMax 19 | a string is read to its end, as what it was written from; the tests get the answers they expect |
| parse_inputs | all strings of up to 5 of 6 characters, and 12,750 that look like versions; MaxLength 9 | parse() is the grammar, loses nothing, clean() extends it, every call ends |
| ordering | 75 versions, all triples, some with numbers above IntMax; IntMax 7, LLMax 9 | both orders are orders; they agree on numbers, oppose each other on pre-releases, but for the numbers on which compareSemVer throws; pieces decide and throw as characters do |
| release_line | 628 texts and 4 structs made by hand, such as `version{"fake"}`; lines of up to 4; IntMax 3, MaxLength 9 | a line goes up, skips nothing it need not, and ends only at a limit |
| successor | 5,283 strings, up to 4 calls; IntMax 4, LLMax 6 | the functions and bounds do to strings what VersionText says of their pieces; incrementing goes up, to the very next release, in a form both functions accept; what decrementing returns they accept but for an alpha or beta with fewer than three numerals; what coerce() returns, all read |

Why the bounds are enough.  minimum() treats each sub-range on its own, with only
`best` carried over, and each constraint on its own, with only `candidate` and the
two vectors carried over.  Two constraints meet in every order and combination of
operators; three sub-ranges put a tie, a failure or an empty offer before, between
and after two others.  Numbers matter only by their order, by being 0, and by
being at a limit, so 0..IntMax with a small IntMax has every case.  In the
character models `Base` is 2 instead of 10: digits are compared, tested for 0 and
carried over, and binary carries happen at 1 and 3 rather than at 9 and 99.
MaxLength 9 stands for 256, so that strings of length 9, 10 and more occur.
StringMinimum has Base 10, because the tests use the numbers 8 and 16; its IntMax
is only just above them.  An expression looks at one separator, operator or
version at a time, so that short strings have every way in which two of them can
touch, and the longer ones every place for white space.

What `TextOf` forgets of a string is what VersionText cannot tell: the two are
compared on strings whose pieces are digits or one letter (`HasText`), and for the
bounds where no `-` that begins a part stands before a number, which std::stoi would
read as a sign (`NoSign`; `TildeString` reads the sign, as `Signed`, and
`ComputeTildeUpperBound` does not know of it).  `Legible` says of a string given to
minimum() that nothing is forgotten which could change its answer: the version of
each constraint has pieces and no sign, and a sub-range without operators has pieces
unless coerce() matches some of its digits, for then nothing else of it is read.
Not legible are `^0.0a.3`, whose second piece would be read as 0, and `**`, which
would be read as `*`.  `AnswersTests` checks that the calls of the repository's tests
are legible.  The properties of reading (`NoConstraintLost`, `ReadsAsWritten`,
`ReadingAdvances`, `HyphenReadsAlike`) do not need it: they are about strings.

Fairness is assumed only where a property needs it, in `Minimum` and `Parse`: weak
fairness of the whole next-state relation.  A call runs on its caller's thread and
waits for nothing, so it takes a next step as long as it has one.  `RangeMinimum`
promises no end: it is safety only, and `Termination` says of `Minimum` and of `Parse`
that a call ends.  In `StringMinimum` no fairness is assumed: there
`ReadingAdvances` bounds the number of the reader's steps, and TLC finds no state
in which a call that has not ended is stuck.  Deadlock checking is off where a
model really stops: a call that has returned, a line or a walk at its bound.

## 4. What the code does otherwise

Each of these runs checks one statement of the repository that TLC finds violated.

| Run | Statement | What happens |
|---|---|---|
| star_not_taken | "If the sub-range is a star, the candidate is "0.0.0"" (cpp:287) | `>=0.0.0 \|\| *` is answered `*` |
| number_too_large | "We are assuming that the code can run without exceptions." (README:23) | `1.0.0 \|\| 3000000000.0.0` throws std::out_of_range |
| tilde_without_minor | "Upper bound for Tilde: X.(Y+1).0" (cpp:238) | `~1` reads past the end of a vector |
| undocumented_identifiers | "Identifiers MUST NOT be empty." and "MUST comprise only ASCII alphanumerics and hyphens", of pre-release and build (header:45-47, 56-58) | `1.1.1-.a+1+1` is a version to parse() |
| numeric_pre_release | "https://semver.org/#spec-item-11" (header:133) | `1.0.0-1` comes after `1.0.0-a` |
| decrement_increments | "downgrade to minor or major" (cpp:151) | decrementVersion of `1.0.0` is `2.0.0` |

Four more disagreements were met while modelling and have no run of their own.
`<=0.0.0 <0.0.0-beta` is answered `0.0.0-0`, above its first bound, because the
special case at cpp:352 changes a candidate that was already checked, and
`<0.0.0-beta <=0.0.0` has no answer; `UpperBoundsKept` says exactly which bounds may be
broken so.  Text without an operator next to a constraint is ignored: `1.2.3 <2` is
answered `0.0.0`.  The grammar
at header:18-19 does not derive `1.0.0`; there the comment is at fault.  The
major version after 2147483647 is a negative number that parse() rejects
(cpp:381); `EndsAtLimits` counts it as one of the places where a line may end.

So `GrammarDecides` is about the grammar of the code, not the one at
header:13-24: `VersionGrammar` has any text that is not empty for a pre-release
(without `+`) and for a build.  The two differ on identifiers that are empty
(`1.1.1-.a`, `1.1.1+.`), that are numbers with a leading zero (`1.1.1-01`), or that have
other characters (`1.1.1-a 1`, `1.1.1+1+1`), and on the number 0.

No run leaves such an argument out.  Where a property does not hold of it, the
property says so in a precondition, which has a name or a comment of its own:

* `KeepsPromise` has none; what the code does otherwise is among the choices of
  RangeMinimum.
* `AnswerMeetsRange` needs that the versions behind `>` have a successor above them
  (`HasSuccessors`); `1-beta` has not, because compareSemVer puts its successor
  `1.0.0-beta.0` before it.  For an answer `0.0.0-0` it is `0.0.0` that may meet the
  sub-range.
* `NoLowerRelease` is about sub-ranges without `<0.0.0-beta` and without a short version
  behind `>` (`SkipsNone`): the successor of `1` is `1.0.1`, which skips `1.0.0`.
* `DecrementStaysInForm` says that the result of decrementVersion is accepted if and
  only if the argument is no alpha or beta with fewer than three numerals: of
  `1-beta` it makes `1..-alpha.0`, which neither function accepts (cpp:143).
* `OrdersAgreeOnNumbers`, `OrdersOpposeOnReleases`, `PiecesDecide` and
  `SemVerTransitive` count the exception of std::stoi among the answers: on numbers
  above the largest int, which parse() accepts, compareSemVer throws
  (`SemVerThrows`).  The first two say that it throws just where it converts such a
  number (`NumberTooLarge`): `3000000000.0.0` and `3000000000.0.1` are ordered by
  operator<=> and not by compareSemVer.
* `IncrementIncreases` and `IncrementSkipsNothing` are about full versions and
  releases, and full releases, below the limit of int.
* `NumbersDecide`, `OrdersAgreeOnNumbers`, `OrdersOpposeOnReleases`, `LineIncreases` and
  `SkipsNoRelease` are about versions whose numbers
  are numbers (`HasNumbers`), as parse() makes them.  A struct made by hand can hold
  anything: inc() of `version{"01", "0", "0"}` makes `2.0.0`, and operator<=> takes `2`
  for less than `01`, which compareSemVer does not.  `OrdersOpposeOnReleases` needs a
  build without separators too (`PlainBuild`): to compareSemVer `1.0.0+1-a` has four
  parts.  `EndsAtLimits` is about versions that parse() could have made
  (`IsVersion`), for inc() writes the pre-release and the major number 0 of a struct
  made by hand as they are, and parse() rejects them.

## 5. What is proved

For every value of the constants and every argument (`tlapm`; no module takes
longer than a few minutes from nothing).  The assumptions are `IntAssumption` and
`LimitsAssumption` (int is not as wide as long long), `BaseAssumption` (there are at
least two digits), `LengthAssumption` (the maximal length is a natural number), and
that the arguments are arguments (`RangesAssumption`, `WalkAssumption`,
`InputsAssumption`, `VersionsAssumption`, `LineAssumption`).

**compareSemVer** (VersionTextProofs).  `CompareSemVerOrder`, `CompareSemVerTies`: it is a
strict weak order on all texts.  A part is below another by a comparison that is
itself a total order on kinds and values; two sequences of parts are compared at
the first place where they differ, which exists by `LeastNatural`.

Here is also what cutting a string does (`Cut`, the loop that three functions have
each their own of): of `a.b` it makes the parts of `a` and those of `b` (`CutJoined`), of
a part without separators itself (`CutNone`).  Every proof about strings below reads
a string as such a join.

**minimum(), loop by loop** (MinimumProofs).

* `TypeCorrect`: the variables have their types (`Types`) and no iterator passes the
  end of its vector (`Iterators`).  The types are not inductive: that
  `range.subs[sub]` is a sub-range in the inner loops is `Position`, and
  `TypeInv == Types /\ Position` is.  Most of the work is that every bound the code
  computes is a text, wrapped ints included.
* `BestCorrect`: `best` is a least one of the versions offered, by `BestStep`; it rests
  on the order laws, for a new least one must also be below what the old one was
  below.
* `CandidateCorrect`: the folded candidate is a greatest of the lower bounds.  The
  invariant `FoldInv` says the same of the bounds folded so far.
* `UpperBoundsCorrect`: of the upper bounds it has passed the candidate satisfies all,
  but for those that `0.0.0` passed before it became `0.0.0-0`.  Inductive together
  with the position of the iterator (`UpperPosition`): the candidate changes at most
  once, because `0.0.0-0` is not `0.0.0`.

**The answer against the range** (MinimumProofs).  The loops know two vectors, the
properties speak of constraints; `Gathered` joins the two: the vectors hold exactly
the bounds of the constraints read so far.  `Candidacy` says that the candidate is
what folding made it and has passed the bounds behind the iterator, or is the
`0.0.0-0` made of such a `0.0.0`.  `CandidateInv` is these with the invariants above.
When a turn of the loop over the sub-ranges ends (`TurnEnds`), they give what one
sub-range has offered, and an invariant about the sub-ranges whose turn is over
(`Over`) grows by one:

* `AnswerCorrect` by `OffersMeet`: whatever is offered meets a sub-range.  A folded
  candidate meets each lower bound, as it is not below any and a bound lies at
  (`LowerIsMet`) or, behind `>`, above its version.
* `NoLowerReleaseCorrect` by `NothingBelowOffers`: a release that meets a sub-range is
  not below an offer.  It rests on `NothingBetween`: no release lies between a full
  version and its successor, hence a release above `v` is not below what `>v` makes
  the candidate (`AboveIsWritten`).
* `BoundsCorrect` by `BoundsOfferThemselves`, `CaretAbove` and `TildeAbove`: the upper
  bound of a full version lies above it in each branch.

**The refinement** (MinimumProofs).  `PromiseCorrect`: `Minimum` implements
`RangeMinimum` on every argument.  The invariant `PromiseInv` adds to `CandidateInv` and
`BestIsLeast` that each sub-range whose turn is over has offered one of what it may
(`ChoiceInv`: there is a choice function for those, whose values are `offered`), that
their constraints could all be read (`AllRead`), that a star comes late when it is
not taken for `0.0.0` (`StarInv`), and that a candidate which has passed `<0.0.0-beta` is
not `0.0.0` (`OfferInv`).  A step that ends a turn extends the choice by one place
(`ChoiceStep`); the step that returns gives a choice for all sub-ranges, of which
`best` is a least one (`ReturnedAnswer`).  That a call throws only for the reasons
promised (`ThrowsArePromised`) is a proof about every value the code ever compares:
if no number of the argument is at the largest int (`Strict`), each bound, candidate
and answer computed from it has numbers that an int holds (`Small`).

**minimum() on strings** (StringMinimumProofs).

* `ReadingEnds`: every step of the reader's iterators, and every entry into a
  sub-range, makes `LeftToRead` smaller, on strings of any length.  The invariant is
  that the parts still to be read are strings (`StringsInv`).
* `ReaderTypeCorrect`: what the reader makes of a string, any string, is an argument
  of `Minimum`: cutting a string into pieces gives a text (`TextOfType`).
* `StringAnswerCorrect`: so the three properties of answers hold of every string that
  is legible (`[]Legible`, section 3).  On others the theorem says nothing, because
  there the argument that `TextOf` makes of the string is not what the code reads.
  The invariant `CallInv` says that the loops keep what they keep, and have not begun
  before all is read (`Fresh`).
* `ConstraintsKept`: the iterator finds as many constraints as there are operators with
  a version behind them: at each step those found and those still to come are
  together as many.  The matches still to come are those that begin
  behind what has been passed (`MatchesBehind`), so that taking the first leaves the
  others (`OneMatchTaken`); by `ConstraintEnds` a match reaches over no operator.
* `HyphenReadsAlikeCorrect`: what the branch for `A - B` coerces is what coerce() would
  find in the whole string.  The invariant `HyphenLeft` keeps that `A` is one to three
  numbers between dots; such a string begins with digits and has a text
  (`PartialText`), trimming takes only white space from around it (`TrimTakes`), and the
  expression of coerce() finds in a string with no digit in front of `A`, and neither
  digit nor dot next behind it, the groups of `A` (`LeftStandsAmid`).

**parse() and clean()** (ParseProofs).

* `GrammarCorrect`: a call returns an error exactly when its string is the text of no
  version (or is too long), and else that version.  Of `ParseInv` two parts carry the
  proof: `Remaining`, that the fields read and the rest make up the argument, and
  `OnlyReading`, that whatever version the argument is the text of agrees with the
  fields read so far.  At a rejection `OnlyReading` makes the field that failed a
  field of any such version, which has none like it; at the end it makes the version
  unique (`OneReading`).
* `LossCorrect`, `CleanCorrect` and `TypeCorrect` follow from the same invariant.  For
  clean(), that what parse() accepts does not begin with `=` or `v` (`TextStarts`) and
  that trimming twice is trimming once (`TrimTwice`).

**operator<=>** (OrderingProofs, with its comparisons in VersionStringProofs).  `AntisymmetricCorrect`, `TransitiveCorrect` and
`EqualityCorrect` for all versions, digits or not; the state is only a list of
versions (`ListInv`), and the work is in the three comparisons of pre-releases, each
decided at a first difference.  `NumbersCorrect`: comparing texts, the longest first,
compares values.  It needs that a number of k digits without a leading zero is at
least Base^(k-1), for every k.  The library's induction theorem cannot be
instantiated here, so `Induction` (VersionStringProofs) is stated with a set in place
of the predicate and proved from `LeastNatural`; with it `ValueCounts` unfolds `Value`
digit by digit.

**The two orders side by side** (OrderingProofs).

* `CompareStringsOrder`, `SemVerTransitiveCorrect`: compareSemVer on characters is a
  strict weak order on all strings, also where parts mix digits and letters.  A part
  that begins with a digit is a number to another such part and a string to all
  others; that is one order because a string that begins with no digit lies below all
  those that do, or above all of them (`DigitFirstAgainst`).
* `AgreeOnNumbersCorrect`, `OpposeOnReleasesCorrect`: the parts that split() makes of a
  version's text begin with its three numbers (`SplitBegins`), the third up to the
  first character that is no digit, so that it is the values that are compared,
  which operator<=> does too by `LessNumbers` (VersionStringProofs).  With equal numbers
  a release has three parts (`ReleaseSplits`) and a pre-release has more
  (`PreReleaseSplits`), even one of a single dash, of which split() drops the last.
  The exception comes from the same parts: std::stoi throws on one of the three numbers
  just when it is above the largest int and all before it were equal.
* `PiecesCompare`, `PiecesDecideCorrect`: on strings that have pieces, comparing the
  pieces is comparing the strings.  `PlainDecides` says it of one part: a piece has the
  value of its digits, or its first character's rank (`RankOrder`).

**inc(), increment(), operator+** (ReleaseLineProofs).

* `LineCorrect`: whatever release types are asked for, each version of a line is above
  all that were before it.  `SkipsCorrect`: and it is the next one, but for what the
  release type skips.  `LimitsCorrect`: and the line ends only at a limit.
* All three come from `LineInv`, whose heart is `Follows`: the text that inc() wrote is,
  to parse(), either the next version or none, and none only at a limit.  It needs
  three things.  to_string writes, without leading zeros, a number whose value is the
  int (`DigitsNumber`, by `Induction` on the int), so that from_chars and to_string
  together add 1 (`IncrementedIs`) and make at most one digit more (`NextLength`).
  parse() finds in such a text the three strings it was written from, or nothing, the
  `-` of a wrapped int included (`ReleaseRead`).  And operator<=> on versions with
  numbers is the order of their values (`LessNumbers`), of which `NextMajor`,
  `NextMinor`, `NextPatch` and `NextRelease` are arithmetic.

**incrementVersion(), decrementVersion(), coerce()** (SuccessorProofs).

* `TypeCorrect`: every result is a text.  Here `TypeOK` is inductive.
* `IncrementCorrect`: incrementVersion goes up.  A release differs from its successor
  in the third part or is shorter (`ReleaseIncreases`); the parts of a pre-release are
  those of its successor but for the last (`OneMorePart`).
* `NothingSkipped`, by `NothingBetween`, and `FormKept`, by `SuccessorInForm`.
* `DecrementFormKept`, by `PredecessorInForm`: a release of three ints is in the form
  of both functions (`ThreeIntsInForm`), and of an alpha or beta the empty pieces
  written for missing numerals are what both reject.
* `CoerceCorrect`: what coerce returns is a release of three numerals without
  leading zeros (`SettledInv`), on which coerce does nothing (`SettledStays`) and the
  other calls fail only for a number that is no int (`SettledRead`).

**The functions on strings against those on pieces** (SuccessorProofs).

* `WalksOnPiecesCorrect`: the walk on strings (`StringWalk`) implements the walk on
  pieces (`Successor`).  The invariant `Along` is that the string has pieces and that
  they are `text`; it is inductive because each function returns such a string again.
  For each function one lemma says when it fails (`IncrementReads`, `DecrementReads`,
  `CoerceReads`) and one what it returns (`IncrementReturns`, `DecrementReturns`,
  `CoerceReturns`).  The first kind rests on `SpelledParts` and `ReadsPiece`: what stands
  between the separators are the pieces, and std::stoi reads of each its value.  The
  second kind builds the result from `Spells(s, m)`, that a string between two dashes
  has the pieces m: digits, one letter and nothing have one piece, and a dot joins
  (`SpellsJoined`).  `DottedText` is the form that every result has, in each of its three
  places also with a negative number, whose `-` cuts the text in two.
* `BoundsOnPiecesCorrect`: so do the bounds.  `CaretReturns` is like the lemmas above.
  The tilde bound cuts at dots only, and one of its parts may hold the dash:
  `CutAcross` says which, and `NoMoreRead` that std::stoi reads of it what stands before
  the dash.  Where nothing does, the property needs that what stands behind the dash
  is no number (`NoSign`), and by `NoSignRead` std::stoi then reads none.

Only model-checked:

* `Termination` of minimum() and of parse(): liveness, out of the prover's reach.
* `ReadsAsWritten` and `AnswersTests`, which say what given strings mean: they hold of a
  table, the ranges that TLC writes and the calls of the repository's tests, and have
  nothing to prove for all strings.
* The six statements of section 4, which TLC refutes.

## 6. What is not modelled

* Regular expressions as such: every expression of the code is modelled by the
  strings it matches and what of them is left.
* An optional that holds an empty string, which only a struct made by hand can have,
  is not told from one that holds nothing (`Version`).
* Of a piece without digits VersionText knows its first character only, so that
  longer words and pieces that mix digits and letters (`2beta`) exist in `StringText`
  and `TwoOrders` alone, and minimum() is called with neither, except where coerce()
  drops them.  White space is one character; `\v` and `\f`, which trim_whitespace and
  the expressions skip and the trimming of a sub-range does not, are left out.  The
  sign that std::stoi reads in `~-3.1` exists in `StringText` alone.
* The memory behind a `version` and its lifetime: the library keeps no view past a
  call, and whether its caller does is not in this code.
* Signed overflow is undefined behaviour.  The models wrap, as the supported builds
  do; the theorems cover the wrapped texts, whose `-` every reader takes for a
  separator (`Dotted`).  The outcome `undefined` marks the read past the end.
* Locale, allocation failure, the cost of the expressions.
* satisfies(), which has no definition; the benchmarks, their counters, the build.

## 7. Plan

Done, in this order: VersionText, VersionRange, RangeMinimum, Minimum (the most
intricate behaviour first), their proofs, VersionString, VersionGrammar, Parse,
Precedence, Ordering, Numbers, ReleaseLine, Successor and its proofs; then StringText
and StringWalk, which show VersionText to be an abstraction of the functions on
strings, TwoOrders, and StringMinimum with the whole way from a string to an answer;
then the proofs that the answer meets the range, of the refinement of RangeMinimum,
of parse() against its grammar, of the laws of operator<=>, of the reader, and of the
release line, from what to_string writes to what operator<=> reads; then those of the
two orders side by side, of the hyphen form, and of the functions on pieces against
the functions on strings.

Next: pieces that mix digits and letters in `VersionText`, so that minimum() can be
called with them, legible or not; the sign that std::stoi reads in `VersionText`.
