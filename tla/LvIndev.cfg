SPECIFICATION Spec
CONSTANTS
    screen = screen
    window = window
    button = button
    mask = mask
    None = None
    Screen = screen
    Objects = {screen, window, button, mask}
    Focusable = {screen, window, button}
    Below <- MCBelow
INVARIANTS NoGoneObject TouchIsWhole ScrollsWhatIsPressed
PROPERTIES KeepsProtocol
