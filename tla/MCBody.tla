------------------------------- MODULE MCBody -------------------------------
(* A person, an institution and two beasts, one after the other, of one program.         *)
EXTENDS Body

StatVal == [person |-> [attack |-> 2, defense |-> 2, hits |-> 2, carry |-> TRUE],
            post   |-> [attack |-> 0, defense |-> 0, hits |-> 0, carry |-> FALSE],
            beast  |-> [attack |-> 3, defense |-> 1, hits |-> 1, carry |-> FALSE]]
RulesVal == [lit |-> 1, tired |-> 1, on_hit |-> 1, bite |-> 1, carcass |-> 1, base_hit |-> 50, per_point |-> 25]
NeedVal == [day |-> 1, night |-> 2, grant |-> 2]
DripVal == [at |-> 1, quantity |-> 1]
DarkVal == [place |-> "camp", rate |-> 0, per_say |-> 1]
ProgramVal == [max_alive |-> 1, up_to |-> 1]
CapVal == [food |-> 3, torch |-> 1, wound |-> 1, ill |-> 5]
NamesVal == <<"wolfI", "wolfII">>
=============================================================================
