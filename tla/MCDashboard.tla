------------------------------- MODULE MCDashboard -------------------------------
(* Dashboard, and what its page and its documents say of cached data. *)
EXTENDS Dashboard

\* frontend/src/main.ts:99, "Leader unreachable — showing cached data", and
\* .planning/milestones/v0.1-phases/04-dashboard/CONTEXT.md:36, "keep stale data
\* visible": a refresh none of whose requests is answered leaves on the page the
\* nodes that are there.
CachedIsShown == [][page' = Nothing => NodesShown' = NodesShown]_page

================================================================================
