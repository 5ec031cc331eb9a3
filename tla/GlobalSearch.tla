----------------------------- MODULE GlobalSearch -----------------------------
(***************************************************************************)
(* One search through all repositories (repository_handler.go): the handler  *)
(* starts a goroutine per repository, at most searchWorkers at a time, they  *)
(* add the lines that git grep finds to one slice, and whoever finds it full *)
(* cancels the rest.                                                        *)
(*                                                                         *)
(* A match is counted, not shown.  Git is killed when its context ends.      *)
(***************************************************************************)
EXTENDS Naturals

CONSTANTS Repos,        \* the active repositories
          None,
          MaxMatches,   \* bound on the matches in one of them
          Limit,        \* resultLimit
          Workers       \* searchWorkers

VARIABLES
    matches,   \* matches[r]: lines of r that match
    handler,   \* "loop", "acquire" (for the repository it took), "wait" or "done"
    todo,      \* repositories the loop has not come to
    taken,
    sem,       \* slots taken
    worker,    \* worker[r]: where the goroutine for r is
    left,      \* left[r]: lines of the output it has yet to look at
    results,   \* length of the slice
    found,     \* found[r]: those of them that are of r
    over,      \* overallCtx has ended
    excused    \* repositories that were missing, failed, took too long or were cut
               \* off, all of them once the overall time was up (history)

searchVars == <<handler, todo, taken>>
vars == <<matches, searchVars, sem, worker, left, results, found, over, excused>>

TypeOK ==
    /\ matches \in [Repos -> 0..MaxMatches]
    /\ handler \in {"loop", "acquire", "wait", "done"}
    /\ todo \subseteq Repos /\ taken \in Repos \cup {None}
    /\ sem \in 0..Workers /\ results \in 0..Limit
    /\ worker \in [Repos -> {"none", "grep", "lines", "ended"}]
    /\ {left, found} \subseteq [Repos -> 0..MaxMatches]
    /\ over \in BOOLEAN /\ excused \subseteq Repos

Init ==
    /\ matches \in [Repos -> 0..MaxMatches]
    /\ handler = "loop" /\ todo = Repos /\ taken = None /\ sem = 0 /\ results = 0
    /\ worker = [r \in Repos |-> "none"]
    /\ left = [r \in Repos |-> 0] /\ found = [r \in Repos |-> 0]
    /\ over = FALSE /\ excused = {}

full == results >= Limit

\* The overall deadline passes, or the client goes away.
deadline ==
    /\ handler # "done" /\ ~over
    /\ over' = TRUE /\ excused' = Repos
    /\ UNCHANGED <<matches, searchVars, sem, worker, left, results, found>>

-----------------------------------------------------------------------------
(* The handler.                                                            *)

\* Not there, or outside of the storage.
skip(r) ==
    /\ handler = "loop" /\ r \in todo /\ ~full /\ ~over
    /\ todo' = todo \ {r} /\ excused' = excused \cup {r}
    /\ UNCHANGED <<matches, handler, taken, sem, worker, left, results, found, over>>

take(r) ==
    /\ handler = "loop" /\ r \in todo /\ ~full /\ ~over
    /\ handler' = "acquire" /\ taken' = r /\ todo' = todo \ {r}
    /\ UNCHANGED <<matches, sem, worker, left, results, found, over, excused>>

\* Waits for a slot whatever has happened since.
start ==
    /\ handler = "acquire" /\ sem < Workers
    /\ sem' = sem + 1
    /\ worker' = [worker EXCEPT ![taken] = "grep"]
    /\ handler' = "loop" /\ taken' = None
    /\ UNCHANGED <<matches, todo, left, results, found, over, excused>>

\* Nothing is left, or nothing more is wanted.
leaveLoop ==
    /\ handler = "loop" /\ (todo = {} \/ full \/ over)
    /\ handler' = "wait"
    /\ UNCHANGED <<matches, todo, taken, sem, worker, left, results, found, over, excused>>

\* wg.Wait, and the response; the context is cancelled on return.
respond ==
    /\ handler = "wait" /\ \A r \in Repos : worker[r] \in {"none", "ended"}
    /\ handler' = "done" /\ over' = TRUE
    /\ UNCHANGED <<matches, todo, taken, sem, worker, left, results, found, excused>>

-----------------------------------------------------------------------------
(* The goroutine of a repository.                                          *)

\* git grep ends: all lines, or those that the cap on its output let through.
grepEnds(r) ==
    /\ worker[r] = "grep"
    /\ worker' = [worker EXCEPT ![r] = "lines"]
    /\ \E n \in 0..matches[r] :
         /\ left' = [left EXCEPT ![r] = n]
         /\ excused' = IF n < matches[r] THEN excused \cup {r} ELSE excused
    /\ UNCHANGED <<matches, searchVars, sem, results, found, over>>

\* It fails, or is killed at its own deadline or with the whole search.
grepFails(r) ==
    /\ worker[r] = "grep"
    /\ worker' = [worker EXCEPT ![r] = "ended"] /\ sem' = sem - 1
    /\ excused' = IF over THEN excused ELSE excused \cup {r}
    /\ UNCHANGED <<matches, searchVars, left, results, found, over>>

add(r) ==
    /\ worker[r] = "lines" /\ left[r] > 0 /\ ~full
    /\ results' = results + 1 /\ found' = [found EXCEPT ![r] = @ + 1]
    /\ left' = [left EXCEPT ![r] = @ - 1]
    /\ UNCHANGED <<matches, searchVars, sem, worker, over, excused>>

\* "Enough results - stop the remaining scans".
cancelAll(r) ==
    /\ worker[r] = "lines" /\ left[r] > 0 /\ full
    /\ over' = TRUE
    /\ worker' = [worker EXCEPT ![r] = "ended"] /\ sem' = sem - 1
    /\ UNCHANGED <<matches, searchVars, left, results, found, excused>>

\* Mutant: a goroutine that is through cancels the others.
endCancels(r) ==
    /\ worker[r] = "lines" /\ left[r] = 0
    /\ worker' = [worker EXCEPT ![r] = "ended"] /\ sem' = sem - 1
    /\ over' = TRUE
    /\ UNCHANGED <<matches, searchVars, left, results, found, excused>>

end(r) ==
    /\ worker[r] = "lines" /\ left[r] = 0
    /\ worker' = [worker EXCEPT ![r] = "ended"] /\ sem' = sem - 1
    /\ UNCHANGED <<matches, searchVars, left, results, found, over, excused>>

scan(r) == grepEnds(r) \/ grepFails(r) \/ add(r) \/ cancelAll(r) \/ end(r)
handle == start \/ leaveLoop \/ respond \/ \E r \in Repos : skip(r) \/ take(r)

Next == deadline \/ handle \/ \E r \in Repos : scan(r)

\* Git ends or is killed at its deadline, and goroutines run.
Fairness == WF_vars(handle) /\ \A r \in Repos : WF_vars(scan(r))

Spec == Init /\ [][Next]_vars /\ Fairness

-----------------------------------------------------------------------------
\* A response with fewer results than the limit has every match of every
\* repository that was there, was not cut off and did not fail, unless the time
\* was up: no search is cancelled by another that merely ended, and the loop does
\* not stop early.  And the response has at most the limit, which the goroutines
\* that add at the same time respect.
SearchIsComplete ==
    /\ results <= Limit
    /\ handler = "done" /\ ~full => \A r \in Repos \ excused : found[r] = matches[r]

\* The search answers, however many goroutines fail while it waits for a slot.
SearchAnswers == <>(handler = "done")
=============================================================================
