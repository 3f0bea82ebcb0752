------------------------------ MODULE MCCaseApi ------------------------------
(* An instance of CaseApi: two clients send one intake at once, an upload adds to the case it   *)
(* makes, another intake hides an infected file behind a clean one, and a case is created.      *)
EXTENDS CaseApi

Pdf == [bytes |-> "some", declared |-> "pdf", signature |-> "pdf", corrupt |-> FALSE,
        encrypted |-> FALSE, pages |-> 2, scan |-> "clean"]

MCFile == [file \in {"seed1", "seed2", "contract", "annex", "letter", "eicar"} |->
             CASE file = "eicar" -> [Pdf EXCEPT !.scan = "infected"]
               [] file = "letter" -> [Pdf EXCEPT !.declared = "text", !.signature = "none"]
               [] OTHER -> Pdf]

TheCase == <<"k1", 0>>

MCCalls == {"intake", "again", "upload", "bad", "create"}

MCCall ==
  [c \in MCCalls |->
     CASE c \in {"intake", "again"} ->
            [op |-> "intake", key |-> "k1", files |-> <<"contract", "annex">>, to |-> NoCase]
       [] c = "upload" -> [op |-> "upload", key |-> "k2", files |-> <<"letter">>, to |-> TheCase]
       [] c = "bad" -> [op |-> "intake", key |-> "k3", files |-> <<"annex", "eicar">>, to |-> NoCase]
       [] OTHER -> [op |-> "create", key |-> "k4", files |-> <<>>, to |-> NoCase]]

MCSeedFiles == <<"seed1", "seed2">>
=============================================================================
