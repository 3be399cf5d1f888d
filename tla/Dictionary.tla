----------------------------- MODULE Dictionary -----------------------------
(***************************************************************************)
(* What imdb1 and imdb2 promise: the lines of a file are recorded under    *)
(* their keys, and then a key is answered with its lines, all of them and  *)
(* no others, each once -- and in their order, if the program keeps it.    *)
(***************************************************************************)
EXTENDS Naturals, FiniteSets, Sequences

CONSTANT Keys

VARIABLES
    ordered,        \* whether answers are in the order of the lines
    store,          \* store[k]: the lines recorded under k
    reading,        \* the file has not ended
    reply           \* the last answer: lines, if a key has been asked for

dictionaryVars == <<ordered, store, reading, reply>>

Recorded == UNION {store[k] : k \in Keys}
Lists(lines, set) ==
    /\ {lines[i] : i \in DOMAIN lines} = set /\ Len(lines) = Cardinality(set)
    /\ ordered => \A i, j \in DOMAIN lines : i < j => lines[i] < lines[j]

DictionaryInit ==
    /\ ordered \in BOOLEAN
    /\ store = [k \in Keys |-> {}] /\ reading = TRUE /\ reply = <<>>

(* The file may end with this line.                                        *)
Record(k) ==
    /\ reading /\ reading' \in BOOLEAN
    /\ store' = [store EXCEPT ![k] = @ \cup {Cardinality(Recorded) + 1}]
    /\ UNCHANGED <<ordered, reply>>

EndOfFile ==
    /\ reading /\ ~reading'
    /\ UNCHANGED <<ordered, store, reply>>

Ask(k) ==
    /\ ~reading
    /\ Lists(reply', store[k])
    /\ UNCHANGED <<ordered, store, reading>>

DictionaryNext == EndOfFile \/ \E k \in Keys : Record(k) \/ Ask(k)

DictionarySpec == DictionaryInit /\ [][DictionaryNext]_dictionaryVars
=============================================================================
