------------------------------ MODULE AccessLedger ------------------------------
(***************************************************************************)
(* What the grant table of apps.access promises the rest of the platform,  *)
(* with none of the mechanism: an append-only ledger of grants and the set *)
(* of those that are live.  A grant is issued live, stays as written, may  *)
(* stop being live and never becomes live again; a delegated grant is      *)
(* issued within an earlier one.  Who asks, in which order requests        *)
(* interleave, and why a grant stops being live (revoked, swept, expired   *)
(* on read) is left to AccessGrants, which implements this specification.  *)
(***************************************************************************)
EXTENDS AccessScopes, Sequences

CONSTANT GrantRow      \* the rows a ledger may hold

VARIABLES rows,        \* the rows issued so far; a row's id is its position
          live         \* the ids of those that still confer something

ledgerVars == <<rows, live>>

LedgerInit == rows = << >> /\ live = {}

\* A new row, rooted (parent 0) or within a row issued earlier.
Issue(row) ==
  /\ row.parent # 0 => /\ row.parent \in 1 .. Len(rows)
                       /\ Within(row, rows[row.parent])
  /\ rows' = Append(rows, row)
  /\ live' = live \cup {Len(rows) + 1}

\* Rows stop being live, one or a whole subtree at a time.
Retire(ids) ==
  /\ live' = live \ ids
  /\ UNCHANGED rows

LedgerNext == \/ \E row \in GrantRow : Issue(row)
              \/ \E ids \in SUBSET live : Retire(ids)

LedgerSpec == LedgerInit /\ [][LedgerNext]_ledgerVars
==================================================================================
