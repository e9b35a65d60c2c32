----------------------------- MODULE MCContracts ---------------------------
EXTENDS Contracts

With(ann, bob, h1, h2) ==
    [p \in Party |-> CASE p = "ann" -> ann [] p = "bob" -> bob [] p = "h1" -> h1 [] p = "h2" -> h2]

MCLenders == {"h1"}
MCPool == [future |-> "h1", call |-> "h2", put |-> "h2"]
MCHeirs == [ann |-> {"ann"}, bob |-> {"bob"}]
MCOpened == [loan |-> 1, bank |-> 2, bond |-> 0, exchange |-> 2, insurance |-> 0]
MCPurses ==
    [loan |-> {With(1, 0, 2, 0)},
     bank |-> {With(1, 0, 1, 1)},
     bond |-> {With(4, 2, 0, 0), With(4, 2, 3, 0)},
     exchange |-> {With(4, 3, 0, 0)},
     insurance |-> {With(2, 1, 1, 0)}]
============================================================================
