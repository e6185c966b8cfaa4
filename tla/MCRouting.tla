----------------------------- MODULE MCRouting ------------------------------
(* Four nodes and every network of links of two costs that give ties       *)
(* between paths of one, two and three links; a message for every pair.    *)
EXTENDS Routing

MCRouters == 1..4
MCCosts == {1, 2}
MCAllMessages == << <<2, 1>>, <<1, 2>>, <<1, 3>>, <<3, 1>>, <<1, 4>>, <<4, 1>>, <<3, 3>>,
                    <<2, 3>>, <<3, 2>>, <<2, 4>>, <<4, 2>>, <<3, 4>>, <<4, 3>> >>
MCMessages == [S \in SUBSET MCRouters |->
                  SelectSeq(MCAllMessages, LAMBDA m : {m[1], m[2]} \subseteq S)]

=============================================================================
