CONSTANTS
    Text = {a}
    Blank = Blank
    Heights = {1, 3}
    TextRows = 2
    TermRows = 4
    KeepsRows = FALSE
SPECIFICATION Spec
INVARIANTS TypeOK ShadowIsDisplayed ScreenIsShown
