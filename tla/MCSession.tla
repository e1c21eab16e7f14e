----------------------------- MODULE MCSession ------------------------------
EXTENDS Session

Mix(ups, downs, cmds) == [up |-> ups, down |-> downs, commands |-> cmds]

\* Three frames of the charger, one of each kind, two of the Central System
\* around a command, or four commands.
MCMixes == {Mix(3, 0, 0), Mix(1, 1, 1), Mix(0, 2, 1), Mix(0, 0, 4)}

\* A command with a frame of the charger, or a frame of the Central System.
LiveMixes == {Mix(1, 0, 1), Mix(0, 1, 0)}

\* No bound but the three numbers.
AnyMix == {Mix(MaxUp, MaxDown, NumCommands)}
=============================================================================
