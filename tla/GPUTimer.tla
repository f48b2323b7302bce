------------------------------ MODULE GPUTimer ------------------------------
(***************************************************************************)
(* GPUTimer (src/debug/gpu_timer.cpp): timestamps written to the queries   *)
(* of a pool, which must be reset between two uses.  The command buffers   *)
(* run in the order they are recorded.                                     *)
(***************************************************************************)
EXTENDS Naturals

CONSTANT m_max_queries

TimerParameters == m_max_queries \in Nat

VARIABLES
    m_enabled,
    m_query_counter,        \* also the length of m_query_labels
    m_is_resetted_at_start,
    query                   \* the device's queries, in the order of the commands

timerVars == <<m_enabled, m_query_counter, m_is_resetted_at_start, query>>

Query == 0..m_max_queries - 1

TimerInit ==
    /\ m_enabled \in BOOLEAN
    /\ m_query_counter = 0
    /\ m_is_resetted_at_start = FALSE
    /\ query = [q \in Query |-> "undefined"]

\* The assertion on the index is the guard.
timestamp ==
    /\ m_enabled => m_query_counter < m_max_queries
    /\ IF m_enabled
         THEN /\ query' = [query EXCEPT ![m_query_counter] = "written"]
              /\ m_query_counter' = m_query_counter + 1
         ELSE UNCHANGED <<query, m_query_counter>>
    /\ UNCHANGED <<m_enabled, m_is_resetted_at_start>>

\* begin_frame asserts that the counter is zero, end_frame nothing.
begin_frame == m_query_counter = 0 /\ timestamp
end_frame == timestamp

Reset(count) ==
    /\ query' = [q \in Query |-> IF q < count THEN "reset" ELSE query[q]]
    /\ m_is_resetted_at_start' = TRUE
    /\ m_query_counter' = 0
    /\ UNCHANGED m_enabled

ResetUsedOnly == Reset(m_query_counter)

\* All queries the first time, then those used since.
reset == Reset(IF m_is_resetted_at_start THEN m_query_counter ELSE m_max_queries)

set_enabled(enabled) ==
    /\ m_enabled' = enabled
    /\ UNCHANGED <<m_query_counter, m_is_resetted_at_start, query>>

TimerNext ==
    \/ timestamp \/ begin_frame \/ end_frame \/ reset
    \/ \E enabled \in BOOLEAN : set_enabled(enabled)

TimerSpec == TimerInit /\ [][TimerNext]_timerVars

-----------------------------------------------------------------------------
(* Correctness.                                                            *)

TimerTypeOK ==
    /\ m_enabled \in BOOLEAN
    /\ m_query_counter \in 0..m_max_queries
    /\ m_is_resetted_at_start \in BOOLEAN
    /\ query \in [Query -> {"undefined", "reset", "written"}]

\* From the first reset on, the queries below the counter are the ones that
\* were written: a timestamp never writes to one that was not reset, and
\* query_results never waits for one that was not written (timestamp, reset).
\* Before that nothing is claimed: begin_frame asks for a counter of zero, so
\* a frame that no reset came before writes undefined queries.
QueriesInStep ==
    /\ TimerTypeOK
    /\ m_is_resetted_at_start =>
           \A q \in Query : query[q] = IF q < m_query_counter THEN "written" ELSE "reset"
=============================================================================
