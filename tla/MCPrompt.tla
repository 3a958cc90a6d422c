------------------------------ MODULE MCPrompt ------------------------------
(* Constants of the run that checks a prompt from the command line.        *)
EXTENDS Prompt

Cli(args) == [name |-> "nowayprompt", args |-> args]
Askpass(args) == [name |-> "nowayprompt-ssh-askpass", args |-> args]

\* Requests that are granted, and requests that are refused for one reason each.
MCInvocations ==
  {Cli(<<"--title", "--json", "--get-pin">>),
   Cli(<<"--get-pin", "--json">>),
   Cli(<<"--error", "text", "--button-not-ok", "text">>),
   Cli(<<"--description", " ", "--get-pin", "--prompt", "text">>),
   Askpass(<<"text", " ">>), Askpass(<<>>), Askpass(<<" ">>),
   Cli(<<>>), Cli(<<"--prompt", "text">>), Cli(<<"--title">>), Cli(<<"--json", "--help", "--json">>),
   Cli(<<"--title", "text", "--title", "text">>), Cli(<<"--get-pin", "--get-pin">>),
   Cli(<<"text", "--get-pin">>), [name |-> "pinentry", args |-> <<>>]}

Good ==
  <<Header("general"), Assign("border", "1"), Blank, Header("colours"), Assign("border", "2"),
    Header("general"), Assign("font-regular", "bad"), Assign("border", "2")>>
BadFiles ==
  {<<Assign("border", "1"), Header("general")>>,
   <<Header("general"), Header("fonts"), Assign("border", "1")>>,
   <<Header("colours"), Assign("font-regular", "1")>>,
   <<Header("colours"), Blank, Assign("text", "bad")>>,
   <<Header("general"), Broken>>}

NoFile == [nowayprompt |-> Absent, wayprompt |-> Absent]
In(base, candidates) == [b \in Base |-> IF b = base THEN candidates ELSE NoFile]
Home(xdg, user, files) == [XDG_CONFIG_HOME |-> xdg, HOME |-> user, files |-> files]

MCHomes ==
  {Home("dir", "dir", In("xdg", [nowayprompt |-> Good, wayprompt |-> Unreadable])),
   Home("", "dir", In("home", [nowayprompt |-> Absent, wayprompt |-> Good])),
   Home(Absent, "", In("xdg", [nowayprompt |-> Unreadable, wayprompt |-> Good])),
   Home("dir", Absent, In("xdg", [nowayprompt |-> Unreadable, wayprompt |-> Good]))}
  \cup {Home(Absent, "dir", In("home", [nowayprompt |-> file, wayprompt |-> Good])) : file \in BadFiles}
=============================================================================
