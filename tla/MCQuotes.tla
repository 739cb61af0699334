------------------------------ MODULE MCQuotes ------------------------------
(* A value and two quotes, which lack up to two arguments, some of them in  *)
(* a function that has two outputs; or the memory that quotes and functions *)
(* are compiled into, when there are no operands.                          *)
EXTENDS Quotes, TraceMemory

VARIABLE about \* which of them

MCWords == [w \in {"+", "dup", "swap"} |->
              [in |-> IF w = "dup" THEN 1 ELSE 2, out |-> IF w = "+" THEN 1 ELSE 2]]
One == [quoted |-> FALSE, words |-> <<"1">>]
Quote(p) == [quoted |-> TRUE, words |-> p]
MCQuotations == <<Quote(<<>>), Quote(<<"+">>), Quote(<<"swap">>), Quote(<<"dup", "+">>),
                  Quote(<<"1", "+">>)>>
MCStarts == {<<One, MCQuotations[p[1]], MCQuotations[p[2]]>> :
               p \in {p \in (DOMAIN MCQuotations) \X (DOMAIN MCQuotations) : p[1] <= p[2]}}
            \union {<<>>}

QuotesInit ==
  /\ Init /\ TraceInit
  /\ about = IF meaning = <<>> THEN "memory" ELSE "quotes"

QuotesNext ==
  /\ UNCHANGED about
  /\ \/ about = "quotes" /\ Next /\ UNCHANGED trace
     \/ about = "memory" /\ TraceNext /\ UNCHANGED quotes

QuotesSpec == QuotesInit /\ [][QuotesNext]_<<about, quotes, trace>>
=============================================================================
