---------------------------- MODULE MCProjection ----------------------------
(***************************************************************************)
(* The two scripts, each with two runs that may overlap, three versions of *)
(* the database, the middle one with a prefix twice, two failures of any   *)
(* kind and a restart of Kamailio.                                         *)
(***************************************************************************)
EXTENDS Projection

Routing == [outputs |-> <<"dispatcher.list", "techprefix_map">>,
            files |-> {"dispatcher.list"}, goesOn |-> TRUE]

BlockList == [outputs |-> <<"balance_block_map">>, files |-> {}, goesOn |-> FALSE]

MCScript == {Routing, BlockList}
=============================================================================
