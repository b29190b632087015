------------------------------- MODULE MCHost -------------------------------
(***************************************************************************)
(* The two programs of the host.  They have nothing in common but the      *)
(* broker, which keeps no message of one for the other: a behaviour is one *)
(* of the forecasting processor, or one of the bot.                        *)
(***************************************************************************)
EXTENDS DataForecasting, ConversationBot

HostInit == Init /\ BotInit

HostNext == \/ BotInit /\ Next /\ UNCHANGED botVars
            \/ Init /\ BotNext /\ UNCHANGED vars

HostSpec == HostInit /\ [][HostNext]_<<vars, botVars>>
=============================================================================
