------------------------------ MODULE Convert ------------------------------
(***************************************************************************)
(* What jquery.js makes of the answer to an ajax request: it chooses the   *)
(* response that fits the types the request expects, or can be converted   *)
(* (ajaxHandleResponses), and takes it from type to type (ajaxConvert).    *)
(*                                                                         *)
(* A converter is a function, an equivalence (`true' in the settings), or  *)
(* missing.  The value is abstracted to the type it really has.            *)
(***************************************************************************)
EXTENDS Sequences, SequencesExt, FiniteSets

CONSTANTS DataTypes,        \* the types, Auto not among them
          ConverterSets,    \* the settings' converters that are tried
          MaxExpected       \* bound: expected types

Auto == "*"
Converter(from, to, kind) == [from |-> from, to |-> to, kind |-> kind]

VARIABLES
  converters,   \* s.converters, a set of records with one kind for a pair
  dataTypes,    \* the types still to come; s.dataTypes before the choice
  prev,         \* the type that the response should have now
  actual,       \* the type that it has
  wanted,       \* history: the types the request expected
  given,        \* the types of the responses, in their order
  doing,        \* "choose", "convert", "success" or "parsererror"
  misfit        \* history: a converter was handed a value of another type
convertVars == <<converters, dataTypes, prev, actual, wanted, given, doing, misfit>>

ConvertInit ==
  /\ converters \in ConverterSets
  /\ wanted \in {s \in BoundedSeq(DataTypes \cup {Auto}, MaxExpected) : s # <<>>}
  /\ given \in {s \in BoundedSeq(DataTypes, 2) : s # <<>> /\ IsInjective(s)}
  /\ dataTypes = wanted
  /\ prev = Auto /\ actual = Auto /\ doing = "choose" /\ misfit = FALSE

-----------------------------------------------------------------------------
(* Converters. *)

Has(from, to) == \E c \in converters : c.from = from /\ c.to = to
Kind(from, to) == (CHOOSE c \in converters : c.from = from /\ c.to = to).kind
Direct(from, to) == IF Has(from, to) THEN Converter(from, to, Kind(from, to))
                    ELSE IF Has(Auto, to) THEN Converter(Auto, to, Kind(Auto, to))
                    ELSE Converter(from, to, "none")

\* A value of type t can be handed to a converter from `from'; equivalent
\* types count as one.
Same(t, from) == t = from \/ \E c \in converters : /\ c.kind = "same"
                                                   /\ c.from \in {Auto, t} /\ c.to = from
Fits(t, from) == from = Auto \/ Same(t, from)
                   \/ \E m \in DataTypes : Same(t, m) /\ Same(m, from)

-----------------------------------------------------------------------------
\* ajaxHandleResponses: leading Auto types give way to the content type (one
\* of the known types, or none), and of the responses the expected one is
\* taken, else the first that converts, else the first.
Types == \E k \in 0..Len(dataTypes) :
           /\ \A j \in 1..k : dataTypes[j] = Auto
           /\ k < Len(dataTypes) => dataTypes[k + 1] # Auto
           /\ LET rest == SubSeq(dataTypes, k + 1, Len(dataTypes)) IN
              dataTypes' \in {rest} \cup {<<ct>> \o rest : ct \in IF k > 0 THEN DataTypes ELSE {}}

Chosen(expected) ==
  IF expected = <<>> THEN given[1]
  ELSE IF Contains(given, Head(expected)) THEN Head(expected)
  ELSE LET fit == SelectSeq(given, LAMBDA t : Has(t, Head(expected))) IN
       IF fit # <<>> THEN fit[1] ELSE given[1]

\* Mutant: the type chosen is not put in front of those expected.
HandleResponsesUnlisted ==
  /\ doing = "choose" /\ doing' = "convert"
  /\ Types
  /\ actual' = Chosen(dataTypes')
  /\ prev' = IF dataTypes' = <<>> THEN actual' ELSE Head(dataTypes')
  /\ UNCHANGED <<converters, wanted, given, misfit>>

HandleResponses ==
  /\ doing = "choose" /\ doing' = "convert"
  /\ Types
  /\ prev' = Chosen(dataTypes') /\ actual' = prev'
  /\ UNCHANGED <<converters, wanted, given, misfit>>

\* One turn of the loop of ajaxConvert: conv is the direct converter or the
\* first half of a pair whose intermediate type is put in between.  For a
\* response that is expected first, the list already begins with it.
Todo == IF dataTypes # <<>> /\ Head(dataTypes) = prev THEN Tail(dataTypes) ELSE dataTypes

Pairs(to) == {c \in converters : c.to = to /\ Direct(prev, c.from).kind # "none"}

Apply(conv, to, rest) ==
  \/ /\ conv.kind = "none"
     /\ doing' = "parsererror" /\ UNCHANGED <<dataTypes, prev, actual, misfit>>
  \/ /\ conv.kind = "call"      \* it may throw, which is an error too
     /\ misfit' = (misfit \/ ~ Fits(actual, conv.from))
     /\ \/ doing' = "parsererror" /\ UNCHANGED <<dataTypes, prev, actual>>
        \/ actual' = conv.to /\ prev' = to /\ dataTypes' = rest /\ doing' = doing
  \/ /\ conv.kind = "same"
     /\ prev' = to /\ dataTypes' = rest /\ UNCHANGED <<actual, doing, misfit>>

ConvertNextType ==
  /\ doing = "convert" /\ Todo # <<>>
  /\ LET current == Head(Todo)
         rest == Tail(Todo)
         direct == Direct(prev, current)
     IN IF current \in {Auto, prev}
          THEN dataTypes' = rest /\ UNCHANGED <<prev, actual, doing, misfit>>
          ELSE IF direct.kind # "none" \/ Pairs(current) = {} THEN Apply(direct, current, rest)
          ELSE \E conv2 \in Pairs(current) :
                 LET conv == Direct(prev, conv2.from) IN
                 IF conv.kind = "same" THEN Apply(conv2, current, rest)
                 ELSE IF conv2.kind = "same" THEN Apply(conv, current, rest)
                 ELSE Apply(conv, conv2.from, <<current>> \o rest)
  /\ UNCHANGED <<converters, wanted, given>>

ConvertReturns ==
  /\ doing = "convert" /\ Todo = <<>> /\ doing' = "success"
  /\ UNCHANGED <<converters, dataTypes, prev, actual, wanted, given, misfit>>

ConvertNext == HandleResponses \/ ConvertNextType \/ ConvertReturns
ConvertSpec == ConvertInit /\ [][ConvertNext]_convertVars

-----------------------------------------------------------------------------
(* Properties. *)

\* The page never gets a value of a type it did not ask for: every converter
\* is handed what it takes, and a success has the last type expected, up to
\* equivalences.
Expected == SelectSeq(wanted, LAMBDA t : t # Auto)
ConvertsToExpected ==
  /\ ~ misfit
  /\ doing = "success" /\ Expected # <<>> => Fits(actual, Last(Expected))
=============================================================================
