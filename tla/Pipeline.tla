------------------------------- MODULE Pipeline -------------------------------
(***************************************************************************)
(* The tool chain as the shell starts it (src/examples/test_examples.sh):  *)
(* macro2label | label2hex | hex2bin, three processes that run at the same *)
(* time, or macro2label by itself, as the tests start it.  A process       *)
(* writes to the buffer of its standard output, which is passed on to the  *)
(* pipe when it is full and when the process exits; a pipe holds up to     *)
(* Capacity characters, and it is the end of the file for its reader when  *)
(* its writer has ended and it is empty.  A process that passes something  *)
(* on to a reader that has ended is killed.  The processes are those of    *)
(* macro2label.cpp, label2hex.cpp and hex2bin.c.                           *)
(***************************************************************************)
EXTENDS MacroFile

CONSTANTS Input,      \* the files for macro2label by itself
          ChainInput, \* the files for the pipeline
          Capacity,   \* how many characters a pipe holds
          BufferSize, \* how many characters a process holds back
          MaxName, PastEnd  \* of label2hex

ASSUME PipelineAssumption ==
    /\ Capacity \in Nat \ {0} /\ BufferSize \in Nat \ {0} /\ MaxName \in Nat \ {0}
    /\ PastEnd # {} /\ PastEnd \subseteq 0 .. 255
    /\ Input \cup ChainInput \subseteq Seq(0 .. 255)

VARIABLES command,  \* the programs that the shell has started
          file,     \* what macro2label reads
          m_read, m_pc, name, value, macro_definitions, m_output, m_exit, m_sent,
          l_read, l_pc, buffer, labels, location, it, last_char_was_space,
          l_output, l_exit, l_sent,
          h_read, failures, h_pc, c1, h_output, h_exit

mvars == <<m_read, m_pc, name, value, macro_definitions, m_output>>
lvars == <<l_read, l_pc, buffer, labels, location, it, last_char_was_space, l_output>>
hvars == <<h_read, failures, h_pc, c1, h_output, h_exit>>
vars == <<command, file, mvars, m_exit, m_sent, lvars, l_exit, l_sent, hvars>>

Macro == INSTANCE Macro2Label WITH
    input <- file, read <- m_read, pc <- m_pc, output <- m_output, exit <- m_exit

Label == INSTANCE Label2HexCpp WITH
    input <- SubSeq(m_output, 1, m_sent), read <- l_read, pc <- l_pc,
    output <- l_output, exit <- l_exit

Hex == INSTANCE Hex2BinC WITH
    input <- SubSeq(l_output, 1, l_sent), read <- h_read, pc <- h_pc,
    output <- h_output, exit <- h_exit, MaxFailures <- 0

Alone == {"macro2label"}
Chain == {"macro2label", "label2hex", "hex2bin"}

-----------------------------------------------------------------------------
Full(output, sent) == Len(output) - sent >= BufferSize

(* The writer has ended, and all that it wrote is in the pipe.             *)
Closed1 == m_exit # "running" /\ m_sent = Len(m_output)
Closed2 == l_exit # "running" /\ l_sent = Len(l_output)

macro2label ==
    /\ "label2hex" \in command => ~Full(m_output, m_sent)
    /\ Macro!Next
    /\ UNCHANGED <<command, m_sent, lvars, l_exit, l_sent, hvars>>

label2hex ==
    /\ "label2hex" \in command
    /\ ~Full(l_output, l_sent)
    /\ l_pc \in {"read_input", "comment"} => l_read < m_sent \/ Closed1
    /\ UNCHANGED <<command, file, mvars, m_exit, m_sent, l_sent, hvars>>
    /\ Label!Next

hex2bin ==
    /\ "hex2bin" \in command
    /\ h_read < l_sent \/ Closed2
    /\ UNCHANGED <<command, file, mvars, m_exit, m_sent, lvars, l_exit, l_sent>>
    /\ Hex!Next

(* As much of the buffer as the pipe has room for is passed on.            *)
Flushing(output, sent, exit) ==
    sent < Len(output) /\ (Full(output, sent) \/ exit # "running")

(* label2hex reads its input to the end before it does anything else, so   *)
(* that macro2label always has a reader.                                   *)
Flush1 ==
    /\ "label2hex" \in command
    /\ Flushing(m_output, m_sent, m_exit)
    /\ l_exit = "running"
    /\ m_sent - l_read < Capacity
    /\ m_sent' = Min({Len(m_output), l_read + Capacity})
    /\ UNCHANGED <<command, file, mvars, m_exit, lvars, l_exit, l_sent, hvars>>

Flush2 ==
    /\ "hex2bin" \in command
    /\ Flushing(l_output, l_sent, l_exit)
    /\ l_exit # "SIGPIPE"
    /\ \/ /\ h_exit = "running"
          /\ l_sent - h_read < Capacity
          /\ l_sent' = Min({Len(l_output), h_read + Capacity})
          /\ UNCHANGED l_exit
       \/ h_exit # "running" /\ l_exit' = "SIGPIPE" /\ UNCHANGED l_sent
    /\ UNCHANGED <<command, file, mvars, m_exit, m_sent, lvars, hvars>>

-----------------------------------------------------------------------------
Init ==
    /\ \/ command = Alone /\ file \in Input
       \/ command = Chain /\ file \in ChainInput
    /\ Macro!Start
    /\ m_sent = 0
    /\ Label!Start
    /\ l_sent = 0
    /\ Hex!Start

Next == macro2label \/ label2hex \/ hex2bin \/ Flush1 \/ Flush2

(* The processes are scheduled fairly, and the kernel passes on what was   *)
(* written.                                                                *)
Spec ==
    /\ Init /\ [][Next]_vars
    /\ WF_vars(macro2label) /\ WF_vars(label2hex) /\ WF_vars(hex2bin)
    /\ WF_vars(Flush1) /\ WF_vars(Flush2)

-----------------------------------------------------------------------------
CompilesMacros == Macro!CompilesMacros
RejectsBroken == Macro!RejectsBroken

Ended ==
    /\ m_exit # "running"
    /\ command = Chain => /\ l_exit # "running" /\ h_exit # "running"
                          /\ Closed1
                          /\ Closed2 \/ l_exit = "SIGPIPE"

(* A MACRO file that stands for a well-formed LABEL file comes out of the  *)
(* pipeline as the bytes of that one, and every process succeeds, unless   *)
(* what label2hex reads behind the end of its input says otherwise.        *)
CompilesChain ==
    LET ts == Expanded(MacroTokens(file))
    IN /\ command = Chain /\ Ended
       /\ 13 \notin ToSet(file) /\ IsMacroFile(file)
       /\ WellFormed(ts) /\ NamesShorterThan(ts, MaxName + 1)
       => \/ /\ <<m_exit, l_exit, h_exit>> = <<"exit(0)", "exit(0)", "exit(0)">>
             /\ h_output = Layout(ts, Max)
          \/ l_exit = "undefined" /\ Label!EndsInIdentifier(m_output)

(* Whatever the file, and whatever stage fails first: what comes out is    *)
(* what hex2bin makes of all that label2hex wrote, as if it had written to *)
(* a file.  The exit status that the shell sees says no more than that     *)
(* this was a HEX file, even if label2hex or macro2label have failed.      *)
LastStageDecides ==
    command = Chain /\ h_exit # "running"
        => /\ h_output = Hex!Hex!Bytes(Hex!Hex!Readable(l_output))
           /\ h_exit = "exit(0)" <=> Closed2 /\ Hex!Hex!Accepted(l_output)

(* No process waits for another one for good, also if a stage in the       *)
(* middle fails while the pipes are full.                                  *)
Ends == <>Ended
=============================================================================
