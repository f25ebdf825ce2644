----------------------------- MODULE MCRecords -----------------------------
(***************************************************************************)
(* The canonical records of the owner's life: expenses, todos and notes.   *)
(* The three share no row and no lock, so one run takes the behaviours of  *)
(* each in turn: `shelf' says whose turn it is, and the variables of the   *)
(* others are 0.                                                           *)
(***************************************************************************)
EXTENDS Expenses, TLC

CONSTANTS Todo, TodoRequest, MaxVersion, Saver, Text

\* There is a first version.
ASSUME MaxVersionAssumption == MaxVersion \in Nat \ {0}

VARIABLES
    shelf,
    todo, todoLock, todoPc, want, todoAnswer, took,     \* module Todos
    note, noteLock, saver, met                          \* module Notes

T == INSTANCE Todos WITH
        Request <- TodoRequest, lock <- todoLock, pc <- todoPc, answer <- todoAnswer

N == INSTANCE Notes

todoVars == <<todo, todoLock, todoPc, want, todoAnswer, took>>

noteVars == <<note, noteLock, saver, met>>

recordVars == <<vars, todoVars, noteVars, shelf>>

Off(a, b, c, d) == a = 0 /\ b = 0 /\ c = 0 /\ d = 0

NoExpenses == Off(expense, claim, holder, lock) /\ Off(pc, body, seen, answer)

NoTodos == Off(todo, todoLock, todoPc, want) /\ Off(todoAnswer, took, took, took)

NoNotes == Off(note, noteLock, saver, met)

RecordsInit ==
    \/ shelf = "expenses" /\ Init /\ NoTodos /\ NoNotes
    \/ shelf = "todos" /\ T!Init /\ NoExpenses /\ NoNotes
    \/ shelf = "notes" /\ N!Init /\ NoExpenses /\ NoTodos

RecordsNext ==
    /\ UNCHANGED shelf
    /\ \/ shelf = "expenses" /\ Next /\ UNCHANGED <<todoVars, noteVars>>
       \/ shelf = "todos" /\ T!Next /\ UNCHANGED <<vars, noteVars>>
       \/ shelf = "notes" /\ N!Next /\ UNCHANGED <<vars, todoVars>>

RecordsSpec == RecordsInit /\ [][RecordsNext]_recordVars

\* Executions are interchangeable as far as all components have them, and so are
\* keys, which double as texts.
Symmetry == Permutations(Request \cap TodoRequest \cap Saver) \cup Permutations(Key \cap Text)

\* Bound of the model: expenses begin with one amount where there are corrections, so that
\* additions that differ under one key are explored apart from them.
OnePrice ==
    shelf = "expenses" =>
        \A q, r \in Request : \A b \in body[q], c \in body[r] :
            b.op = "add" /\ c.op = "correct" => b.amount = 1

\* Every variable has its type; an expense is one chain of corrections whose end alone
\* is counted, and whose length the version counts, whatever corrections raced; who has
\* claimed a key has it alone.
LedgerSound ==
    CASE shelf = "expenses" -> IndInv /\ HoldersInv /\ NoDoubleCounting
      [] shelf = "todos"    -> T!IndInv
      [] shelf = "notes"    -> N!IndInv

\* An acknowledged addition or correction is recorded as it was asked.
AcknowledgedStands == shelf = "expenses" => AcknowledgedIsRecorded

\* Two requests that name the same version of a todo do not both change it: the
\* UPDATE of complete_todo and delete_todo repeats the version.
OneWriterPerVersion == shelf = "todos" => T!OneWriterPerVersion

\* A step never reopens a completed todo, never revives a deleted one and never
\* turns a version back.
NothingUndone == [][shelf = "todos" => T!KeepsTodos]_recordVars

\* Two active notes with the same content that both asked for the detection of
\* duplicates, and two successors of one note, come from requests that ran at the
\* same time.
CopiesOverlap == shelf = "notes" => N!CopiesOverlap /\ N!ForksOverlap

\* A note that a committed update_note names is gone for good: what it said is
\* never served beside its replacement.
SupersededIsGone == shelf = "notes" => N!SupersededIsGone
=============================================================================
