----------------------------- MODULE MCPayments -----------------------------
(* A small Workflow for TLC: an order that is placed, and shipped or let go. *)
EXTENDS Payments

MCMoves == {<<"cart", "placed">>, <<"placed", "shipped">>,
            <<"cart", "gone">>, <<"placed", "gone">>}
MCRequires == [cart |-> "nothing", placed |-> "authorized",
               shipped |-> "paid", gone |-> "nothing"]
=============================================================================
