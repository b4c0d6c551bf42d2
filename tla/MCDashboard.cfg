CONSTANTS
    Chats = {s1}
    Sockets = {c1, c2}
SPECIFICATION BoardSpec
SYMMETRY Symmetry
INVARIANTS BoardTypeOK PictureIsCurrent
PROPERTY PicturesGoForward
