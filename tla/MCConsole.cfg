CONSTANTS
    VGA_WIDTH = 3
    VGA_HEIGHT = 2
    BUF_LEN = 3
    WELCOME <- MCWelcome
    PROMPT <- MCPrompt
    HELP <- MCHelp
    HELP_TEXT <- MCHelpText
    EDITOR_MSG <- MCEditor
    SAD <- MCSad
    BANNER <- MCBanner
    Msgs <- MCMsgs
    Keys <- MCKeys
    MaxOut = 12
SPECIFICATION Spec
INVARIANTS TypeOK ScreenShowsOutput
\* The panic handler ends in loop {}, and the history bound ends the rest.
CHECK_DEADLOCK FALSE
