CONSTANTS
    Text = {a}
    Blank = Blank
    Heights = {2}
    TextRows = 2
    TermRows = 2
    KeepsRows = FALSE
SPECIFICATION Spec
INVARIANT ShadowIsDisplayed
