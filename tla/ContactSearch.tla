---------------------------- MODULE ContactSearch ----------------------------
(***************************************************************************)
(* The search of pages/Contacts.tsx: an effect with a debounce timer that a *)
(* change of the query clears, and requests that nothing cancels, answered  *)
(* by UsersService.search in any order.  Leaving the page ends all of it.   *)
(***************************************************************************)
EXTENDS Naturals

CONSTANTS Queries,  \* what the input may hold
          Blank,    \* the one of them that trims to nothing
          MaxRuns   \* bound: how often the timer fires

ASSUME SearchAssumption == Blank \in Queries /\ MaxRuns \in Nat

VARIABLES query, loading,
          users,     \* the list shown: the query whose answer it is, or Blank
                     \* for an empty list
          debounce,  \* the timer: the 250 ms of the current query are running
          runs,      \* how often the timer has fired
          asked,     \* the runs whose request is on its way, by their query
          newest,    \* history: the latest run that has written users
          failed,    \* history: the last write was by a request that failed
          overtaken  \* history: it was by an earlier run than newest

stateVars == <<query, loading, users, debounce, runs, asked>>
searchVars == <<stateVars, newest, failed, overtaken>>

Asked == DOMAIN asked

SearchInit ==
  /\ query = Blank /\ loading = FALSE /\ users = Blank
  /\ debounce = TRUE
  /\ runs = 0
  /\ asked = <<>>
  /\ newest = 0 /\ failed = FALSE /\ overtaken = FALSE

\* setQuery; the cleanup of the effect clears the timer and the effect starts
\* another.
Type(q) ==
  /\ q # query
  /\ query' = q
  /\ debounce' = TRUE
  /\ UNCHANGED <<loading, users, runs, asked, newest, failed, overtaken>>

\* setUsers by the run n.
SetUsers(n, list, afterFailure) ==
  /\ users' = list
  /\ newest' = IF n > newest THEN n ELSE newest
  /\ failed' = afterFailure
  /\ overtaken' = (n < newest)

\* What an empty query leaves of the list, and a version that just returns.
ListForBlankKept == users
ListForBlank == Blank

DebounceFires ==
  /\ debounce /\ runs < MaxRuns
  /\ debounce' = FALSE
  /\ runs' = runs + 1
  /\ \/ /\ query = Blank
        /\ SetUsers(runs', ListForBlank, FALSE)
        /\ UNCHANGED <<loading, asked>>
     \/ /\ query # Blank
        /\ loading' = TRUE
        /\ asked' = [n \in Asked \cup {runs'} |-> IF n = runs' THEN query ELSE asked[n]]
        /\ UNCHANGED <<users, newest, failed, overtaken>>
  /\ UNCHANGED query

\* loading after the finally, and without one, when only an answer clears it.
LoadingAfterThen(ok) == IF ok THEN FALSE ELSE loading
LoadingAfter(ok) == FALSE

Settle(n, list, ok) ==
  /\ n \in Asked
  /\ asked' = [k \in Asked \ {n} |-> asked[k]]
  /\ SetUsers(n, list, ~ok)
  /\ loading' = LoadingAfter(ok)
  /\ UNCHANGED <<query, debounce, runs>>

Answered(n) == n \in Asked /\ Settle(n, asked[n], TRUE)
Fails(n) == Settle(n, Blank, FALSE)

SearchNext ==
  \/ \E q \in Queries : Type(q)
  \/ DebounceFires
  \/ \E n \in 1 .. MaxRuns : Answered(n) \/ Fails(n)

SearchSpec == SearchInit /\ [][SearchNext]_searchVars

\* A timer fires, and the browser settles each request one way or the other.
FairSearchSpec ==
  /\ SearchSpec
  /\ WF_searchVars(DebounceFires)
  /\ \A n \in 1 .. MaxRuns : WF_searchVars(Answered(n) \/ Fails(n))

-----------------------------------------------------------------------------
\* Types; a list on the screen is that of a query that was asked.
SearchTypeOK ==
  /\ query \in Queries
  /\ loading \in BOOLEAN /\ debounce \in BOOLEAN
  /\ runs \in 0 .. MaxRuns
  /\ Asked \subseteq 1 .. runs
  /\ \A n \in Asked : asked[n] \in Queries \ {Blank}
  /\ newest \in 0 .. runs
  /\ failed \in BOOLEAN /\ overtaken \in BOOLEAN
  /\ users \in Queries

\* When nothing is on its way the list is the answer to what the input holds,
\* or empty because that request failed.  The exception is an answer that came
\* after that of a later query: requests are not cancelled, so it stays
\* (Contacts.tsx:2).
SettledShowsQuery ==
  (~debounce /\ Asked = {}) => users = query \/ failed \/ overtaken

\* "Searching..." is shown only while an answer is to come; it may be gone before
\* the last one is there, since any answer clears it (Contacts.tsx:2).
LoadingIsAsked == loading => Asked # {}

\* It goes away, although answers may fail and come in any order.
LoadingEnds == loading ~> ~loading
=============================================================================
