---------------------------- MODULE MCScanSession ----------------------------
(***************************************************************************)
(* TLC instance of ScanSession: an intake of two files, one that does not  *)
(* parse and one whose finding is fixable, two scans that may overlap, and *)
(* either file shown, closed or saved between.                             *)
(***************************************************************************)
EXTENDS ScanSession

CONSTANTS orders, users  \* users.sql does not parse
MCFiles == {orders, users}
MCFixable == {orders}
MCFirstContent ==
  [f \in MCFiles |-> IF f = users THEN "broken" ELSE "issue"]
MCIntakes == {<<users, orders>>}
=============================================================================
